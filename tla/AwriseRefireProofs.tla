-------------------------- MODULE AwriseRefireProofs --------------------------
(***************************************************************************)
(* For any number of jobs and passes: no pass starts a job again inside    *)
(* the window of its last start, whatever dies or fails between the        *)
(* started row, the finished row, the stamp, the merge and the save.       *)
(* And whoever takes part, operators included: no pass goes on with a job  *)
(* inside the window of the wake that its record names.                    *)
(***************************************************************************)
EXTENDS AwrisePassProofs, FiniteSetTheorems

\* Passes only, and none outlasts the bound of its lock.
Alone == Given.cast \subseteq RunDue /\ ~Given.overruns

\* A record knows the job's last start; and when it names a wake, that one is
\* over and its start is not ahead of the record's.
Covers(rows, r, j) ==
  \A i \in DOMAIN rows : LastStart(rows, j, i) => r.started >= rows[i].ts

Knows(rows, r) ==
  r.wake # NoWake =>
    /\ FinishedIn(rows, r.wake)
    /\ \A i \in DOMAIN rows :
         rows[i].event = "started" /\ rows[i].wake = r.wake => r.started >= rows[i].ts

Good(rows, r) == r.created = 1 /\ Knows(rows, r)

\* A stamp of job j is owed: the last row starts its wake, or ends it in a state
\* that stamps.
Owed(rows, j) ==
  /\ Len(rows) # 0 /\ rows[Len(rows)].job = j
  /\ \/ Len(rows) \in OpenAt(rows)
     \/ /\ rows[Len(rows)].event = "finished"
        /\ rows[Len(rows)].state \notin UnstampedStates
        /\ \E i \in DOMAIN rows : LastStart(rows, j, i) /\ rows[i].wake = rows[Len(rows)].wake

\* The ledger has the rows of wakes, each of its job, and at most its last row
\* is of an open one.
Kept(rows) ==
  /\ \A i \in DOMAIN rows :
       /\ rows[i].event \in {"started", "finished"} /\ rows[i].job = rows[i].wake.job
       /\ rows[i].event = "started" => rows[i].ts # Never /\ rows[i].wake.kind = "wake"
  /\ OpenAt(rows) \subseteq {Len(rows)}

\* jobs.json knows the last start of each job, or the stamp is owed.
Cached(store, rows) ==
  \A j \in Jobs : store[j] # NoJob =>
    Good(rows, store[j]) /\ (Covers(rows, store[j], j) \/ Owed(rows, j))

\* What a merge is to overlay is there, and card code writes to no other job.
Touching(m) ==
  /\ m.pc \notin {"close", "reload"} => m.touched = {}
  /\ m.pc = "reload" => m.touched # {}
  /\ \A j \in m.touched : m.mem[j] # NoJob
  /\ m.put # NoJob => m.pc = "reload" /\ m.touched = {m.put.job}

\* In reconcile: what is owed is open still and to be judged, or the end of the
\* rows that were read.
InReconcile(store, rows, m) ==
  /\ \A j \in Jobs : m.mem[j] # NoJob =>
       /\ Good(rows, m.mem[j])
       /\ Covers(rows, m.mem[j], j) \/ (Owed(rows, j) /\ (m.pc = "close" => m.rows = Len(rows)))
  /\ \A j \in Jobs \ m.touched : m.mem[j] = store[j]
  /\ m.pc = "close" =>
       /\ \A i \in OpenAt(rows) : i \in OpenAt(SubSeq(rows, 1, m.rows)) /\ i >= m.scan
       /\ \A k \in DOMAIN rows : k > m.rows => rows[k].event = "finished"

\* The job of the wake that runs.
Running(m) == IF m.pc \in {"spawn", "wait"} THEN {m.cur.job} ELSE {}

\* Behind reconcile: the pass knows every last start but that of the wake that
\* runs; so does jobs.json, but for what is about to be saved.  A job is woken
\* only when its last start is an interval behind the pass' clock.
InLoop(store, rows, m) ==
  /\ \A j \in Jobs : m.mem[j] # NoJob =>
       Good(rows, m.mem[j]) /\ (j \notin Running(m) => Covers(rows, m.mem[j], j))
  /\ m.pc # "save" =>
       \A j \in Jobs \ (m.touched \cup Running(m)) : store[j] # NoJob => Covers(rows, store[j], j)
  /\ m.pc \notin {"spawn", "wait"} => OpenAt(rows) = {}
  /\ m.pc \in {"spawn", "wait"} =>
       Len(rows) # 0 /\ rows[Len(rows)] = StartedRow(m.cur, m.started)
  /\ m.pc \in AtWake => m.started # Never
  /\ Place(m) = "gate" => \A i \in DOMAIN rows : ~LastStart(rows, Min(m.todo), i)
  /\ m.pc \in {"recheck", "begin"} =>
       \A i \in DOMAIN rows : LastStart(rows, m.cur.job, i) => m.at >= rows[i].ts + Interval

\* A pass that has lost its memory to a failure has nothing more to write.
Lost(m) == \A j \in Jobs : m.mem[j] = NoJob

Rule(store, rows, m) ==
  /\ Touching(m)
  /\ m.pc \in {"start", "load"} \cup Ended => Lost(m)
  /\ m.pc \in {"rows", "close"} => InReconcile(store, rows, m)
  /\ m.pc \notin {"rows", "close"} /\ ~Lost(m) => InLoop(store, rows, m)

\* The inductive invariant of the window.
RefireInv ==
  /\ Kept(ledger)
  /\ Cached(disk, ledger)
  /\ \A p \in RunDue : Rule(disk, ledger, proc[p])

-----------------------------------------------------------------------------
(* Rows and records                                                        *)

\* A ledger with a row more.
LEMMA RowMore ==
  ASSUME NEW rows \in Seq(Rows), NEW row \in Rows
  PROVE  LET more == Append(rows, row)
         IN /\ more \in Seq(Rows) /\ Len(rows) \in Nat /\ Len(more) = Len(rows) + 1
            /\ DOMAIN rows = 1..Len(rows) /\ DOMAIN more = 1..Len(more)
            /\ \A i \in DOMAIN rows : i \in DOMAIN more /\ more[i] = rows[i] /\ i # Len(more)
            /\ Len(more) \in DOMAIN more /\ more[Len(more)] = row
            /\ \A i \in DOMAIN more : i \in DOMAIN rows \/ i = Len(more)
            /\ \A i \in DOMAIN rows : i < Len(more)
OBVIOUS

\* It ends the wakes it ended, and the one the row ends.
LEMMA FinishedMore ==
  ASSUME NEW rows \in Seq(Rows), NEW row \in Rows, NEW w
  PROVE  FinishedIn(Append(rows, row), w) <=>
           FinishedIn(rows, w) \/ (row.event = "finished" /\ row.wake = w)
<1> DEFINE more == Append(rows, row)
<1>1. /\ \A i \in DOMAIN rows : i \in DOMAIN more /\ more[i] = rows[i]
      /\ Len(more) \in DOMAIN more /\ more[Len(more)] = row
      /\ \A i \in DOMAIN more : i \in DOMAIN rows \/ i = Len(more)
  BY RowMore
<1> HIDE DEF more
<1>2. FinishedIn(more, w) <=> FinishedIn(rows, w) \/ (row.event = "finished" /\ row.wake = w)
  BY <1>1 DEF FinishedIn
<1> QED BY <1>2 DEF more

\* A row that starts no wake of the job adds no last start to it.
LEMMA StartMore ==
  ASSUME NEW rows \in Seq(Rows), NEW row \in Rows, NEW j, row.event = "started" => row.job # j,
         NEW i \in DOMAIN Append(rows, row), LastStart(Append(rows, row), j, i)
  PROVE  i \in DOMAIN rows /\ Append(rows, row)[i] = rows[i] /\ LastStart(rows, j, i)
<1> DEFINE more == Append(rows, row)
<1>1. /\ \A k \in DOMAIN rows : k \in DOMAIN more /\ more[k] = rows[k]
      /\ more[Len(more)] = row
      /\ \A k \in DOMAIN more : k \in DOMAIN rows \/ k = Len(more)
  BY RowMore
<1>2. i \in DOMAIN more /\ LastStart(more, j, i)
  OBVIOUS
<1> HIDE DEF more
<1>3. i \in DOMAIN rows
  BY <1>1, <1>2 DEF LastStart
<1>4. more[i] = rows[i] /\ LastStart(rows, j, i)
  BY <1>1, <1>2, <1>3 DEF LastStart
<1> QED BY <1>3, <1>4 DEF more

\* So a record that covers the starts of its job covers them still, and knows
\* what it knew.
LEMMA CoversMore ==
  ASSUME NEW rows \in Seq(Rows), NEW row \in Rows, NEW j, row.event = "started" => row.job # j,
         NEW r, Covers(rows, r, j)
  PROVE  Covers(Append(rows, row), r, j)
BY StartMore DEF Covers

LEMMA GoodMore ==
  ASSUME NEW rows \in Seq(Rows), NEW row \in Rows,
         row.event = "started" => ~FinishedIn(rows, row.wake),
         NEW r, Good(rows, r)
  PROVE  Good(Append(rows, row), r)
<1> DEFINE more == Append(rows, row)
<1>1. /\ \A k \in DOMAIN rows : k \in DOMAIN more /\ more[k] = rows[k]
      /\ more[Len(more)] = row
      /\ \A k \in DOMAIN more : k \in DOMAIN rows \/ k = Len(more)
  BY RowMore
<1>2. FinishedIn(rows, r.wake) => FinishedIn(more, r.wake)
  BY FinishedMore
<1> HIDE DEF more
<1>3. Good(more, r)
  BY <1>1, <1>2 DEF Good, Knows
<1> QED BY <1>3 DEF more

\* A row that ends a wake while none is open leaves what a store covers.
LEMMA EndMore ==
  ASSUME NEW rows \in Seq(Rows), NEW row \in Rows, row.event = "finished",
         row.job = row.wake.job, Kept(rows), OpenAt(rows) = {}
  PROVE  Kept(Append(rows, row)) /\ OpenAt(Append(rows, row)) = {}
<1> DEFINE more == Append(rows, row)
<1>1. /\ \A k \in DOMAIN rows : k \in DOMAIN more /\ more[k] = rows[k]
      /\ more[Len(more)] = row
      /\ \A k \in DOMAIN more : k \in DOMAIN rows \/ k = Len(more)
  BY RowMore
<1>2. \A w : FinishedIn(rows, w) => FinishedIn(more, w)
  BY FinishedMore
<1> HIDE DEF more
<1>3. OpenAt(more) = {}
  BY <1>1, <1>2 DEF OpenAt
<1>4. Kept(more)
  BY <1>1, <1>3 DEF Kept
<1> QED BY <1>3, <1>4 DEF more

\* A stamp moves the start forward, unless it is that of an executed wake.
LEMMA StampMoves ==
  ASSUME NEW r \in Records, NEW w \in Wakes, NEW ts \in Nat,
         NEW state \in States \cup {"none"}, NEW executed \in BOOLEAN
  PROVE  LET n == Stamp(r, w, ts, state, executed)
         IN /\ n \in Records /\ n.created = r.created /\ n.wake = w
            /\ n.started >= ts /\ (ts # Never /\ executed => n.started = ts)
            /\ ~executed => n.started >= r.started
<1> DEFINE n == Stamp(r, w, ts, state, executed)
           started == IF ts # Never /\ (executed \/ r.started = Never \/ ts > r.started)
                        THEN ts ELSE r.started
           fails == IF state \in BadStates THEN r.fails + 1
                    ELSE IF state = "success" THEN 0 ELSE r.fails
<1>1. n = [r EXCEPT !.started = started, !.wake = w, !.state = state, !.fails = fails]
  BY DEF Stamp
<1>2. n \in Records
  BY StampType
<1>3. r.started \in Nat
  BY DEF Records
<1>4. started >= ts /\ (ts # Never /\ executed => started = ts) /\ (~executed => started >= r.started)
  BY <1>3 DEF Never
<1> HIDE DEF started, fails
<1>5. n.created = r.created /\ n.wake = w /\ n.started = started
  BY <1>1 DEF Records
<1> QED BY <1>2, <1>4, <1>5

\* A stamp by a wake that is over, at its start or later, makes a good record.
LEMMA StampGood ==
  ASSUME NEW rows, NEW r \in Records, NEW w \in Wakes, NEW ts \in Nat,
         NEW state \in States \cup {"none"}, NEW executed \in BOOLEAN,
         Good(rows, r), FinishedIn(rows, w),
         \A i \in DOMAIN rows : rows[i].event = "started" /\ rows[i].wake = w => rows[i].ts = ts
  PROVE  Good(rows, Stamp(r, w, ts, state, executed))
<1> DEFINE n == Stamp(r, w, ts, state, executed)
<1>1. n.created = r.created /\ n.wake = w /\ n.started >= ts
  BY StampMoves
<1> HIDE DEF n
<1>2. Good(rows, n)
  BY <1>1 DEF Good, Knows
<1> QED BY <1>2 DEF n

\* What counts of a record here.
Same(r, n) == n.created = r.created /\ n.wake = r.wake /\ n.started = r.started

LEMMA SameGood ==
  ASSUME NEW rows, NEW r, NEW n, Same(r, n)
  PROVE  /\ Good(rows, r) => Good(rows, n)
         /\ \A j : Covers(rows, r, j) => Covers(rows, n, j)
BY DEF Same, Good, Knows, Covers

\* A receipt's verdict and card code touch none of it.
LEMMA JudgeSame ==
  ASSUME NEW r \in Records \cup {NoJob}, NEW c \in Receipts \cup {NoReceipt}
  PROVE  /\ r = NoJob => JudgeReceipt(r, c) = NoJob
         /\ r # NoJob => Same(r, JudgeReceipt(r, c)) /\ JudgeReceipt(r, c) # NoJob
<1>1. CASE ~ReceiptJudges(r, c)
  BY <1>1 DEF JudgeReceipt, Same
<1>2. CASE ReceiptJudges(r, c)
  <2>1. r # NoJob /\ r \in Records
    BY <1>2 DEF ReceiptJudges
  <2> DEFINE ok == [r EXCEPT !.state = "success", !.fails = 0]
             bad == [r EXCEPT !.state = "failure", !.fails = @ + 1]
  <2>2. Same(r, ok) /\ Same(r, bad)
    BY <2>1 DEF Records, Same
  <2>3. ok \in Records /\ bad \in Records
    <3>1. "success" \in States /\ "failure" \in States
      BY DEF States, BadStates
    <3>2. r.fails + 1 \in Nat
      BY <2>1 DEF Records
    <3>3. ok \in Records
      BY <2>1, <3>1 DEF Records
    <3>4. bad \in Records
      BY <2>1, <3>1, <3>2 DEF Records
    <3> QED BY <3>3, <3>4
  <2>4. JudgeReceipt(r, c) \in {ok, bad}
    BY <1>2 DEF JudgeReceipt
  <2> HIDE DEF ok, bad
  <2>5. Same(r, JudgeReceipt(r, c)) /\ JudgeReceipt(r, c) \in Records
    BY <2>2, <2>3, <2>4
  <2> QED BY <2>1, <2>5, NoJobAssumption
<1> QED BY <1>1, <1>2

LEMMA PutSame ==
  ASSUME NEW jobs \in Stores, NEW put \in Puts, NEW j \in Jobs
  PROVE  /\ WithPut(jobs, put)[j] = NoJob <=> jobs[j] = NoJob
         /\ Same(jobs[j], WithPut(jobs, put)[j])
<1>1. CASE put = NoJob \/ jobs[put.job] = NoJob
  BY <1>1 DEF WithPut, Same
<1>2. CASE ~(put = NoJob \/ jobs[put.job] = NoJob)
  <2>1. put.job \in Jobs /\ put.report \in Reports /\ put.disable \in BOOLEAN
    BY <1>2 DEF Puts
  <2>2. jobs[put.job] \in Records
    BY <1>2, <2>1 DEF Stores
  <2> DEFINE r == [jobs[put.job] EXCEPT !.report = put.report, !.enabled = @ /\ ~put.disable]
  <2>3. Same(jobs[put.job], r)
    BY <2>2 DEF Records, Same
  <2>4. WithPut(jobs, put) = [jobs EXCEPT ![put.job] = r]
    BY <1>2, <2>1, <2>2 DEF WithPut, Stores, Records
  <2> HIDE DEF r
  <2>5. WithPut(jobs, put)[j] = IF j = put.job THEN r ELSE jobs[j]
    BY <2>1, <2>4 DEF Stores
  <2>6. CASE j = put.job
    <3>1. r \in Records
      BY <2>1, <2>2 DEF Records, r
    <3> QED BY <1>2, <2>3, <2>5, <2>6, <3>1, NoJobAssumption
  <2>7. CASE j # put.job
    BY <2>5, <2>7 DEF Same
  <2> QED BY <2>6, <2>7
<1> QED BY <1>1, <1>2

-----------------------------------------------------------------------------
(* What a step must do                                                     *)

\* An invocation that begins or ends has nothing in memory.
LEMMA FreshRule ==
  ASSUME NEW store, NEW rows, NEW pc \in Ended \cup {"unlock", "end"}, NEW cur
  PROVE  Rule(store, rows, [Fresh(pc) EXCEPT !.cur = cur]) /\ Rule(store, rows, Fresh(pc))
<1>1. ASSUME NEW m, m.pc = pc, m.touched = {}, m.put = NoJob, \A j \in Jobs : m.mem[j] = NoJob
      PROVE  Rule(store, rows, m)
  BY <1>1 DEF Rule, Touching, Lost, Ended
<1> DEFINE m == Fresh(pc)
           n == [Fresh(pc) EXCEPT !.cur = cur]
<1>2. m.pc = pc /\ m.touched = {} /\ m.put = NoJob /\ \A j \in Jobs : m.mem[j] = NoJob
  BY DEF Fresh
<1>3. n.pc = pc /\ n.touched = {} /\ n.put = NoJob /\ \A j \in Jobs : n.mem[j] = NoJob
  BY DEF Fresh
<1> HIDE DEF m, n
<1>4. Rule(store, rows, m) /\ Rule(store, rows, n)
  BY <1>1, <1>2, <1>3
<1> QED BY <1>4 DEF m, n

\* What a step of a pass must do to keep the invariant.
LEMMA RefireGoesOn ==
  ASSUME TypeInv, RefireInv, NEW p \in RunDue, NEW m, Becomes(p, m),
         (disk' = disk /\ ledger' = ledger) \/ (\A q \in RunDue \ {p} : ~Alive(q)),
         Kept(ledger'), Cached(disk', ledger'), m.pc # "done" => Rule(disk', ledger', m)
  PROVE  RefireInv'
<1>0. p \in Procs /\ RunDue \subseteq Procs
  BY PassAssumption
<1>1. Rule(disk', ledger', proc'[p])
  <2>1. Rule(disk', ledger', Fresh("done"))
    BY FreshRule DEF Ended
  <2> QED BY <1>0, <2>1, OthersStay
<1>2. ASSUME NEW q \in RunDue \ {p} PROVE Rule(disk', ledger', proc'[q])
  <2>1. proc'[q] = proc[q] /\ Rule(disk, ledger, proc[q])
    BY <1>0, OthersStay DEF RefireInv
  <2>2. CASE disk' = disk /\ ledger' = ledger
    BY <2>1, <2>2
  <2>3. CASE ~Alive(q)
    <3>1. proc[q].pc \in {"start", "done", "gone"}
      BY <2>3 DEF Alive
    <3> QED BY <2>1, <3>1 DEF Rule, Ended
  <2> QED BY <2>2, <2>3
<1> QED BY <1>1, <1>2 DEF RefireInv

\* A step that leaves jobs.json and the ledger alone.
LEMMA RefireMoves ==
  ASSUME TypeInv, RefireInv, NEW p \in RunDue, NEW m, Becomes(p, m),
         disk' = disk, ledger' = ledger, m.pc # "done" => Rule(disk, ledger, m)
  PROVE  RefireInv'
BY RefireGoesOn DEF RefireInv

\* In the loop a pass moves on with what it has in memory.
LEMMA LoopMoves ==
  ASSUME NEW store, NEW rows, NEW me, NEW m, Rule(store, rows, me), ~Lost(me),
         me.pc \notin {"rows", "close", "reload", "save", "spawn", "wait"},
         m.mem = me.mem, Touching(m),
         m.pc \notin AtWake \cup Ended \cup {"start", "load", "rows", "close"},
         Place(m) = "gate" => Place(me) = "gate" /\ m.todo = me.todo
  PROVE  Rule(store, rows, m)
<1>1. InLoop(store, rows, me) /\ me.touched = {} /\ Running(me) = {}
  BY DEF Rule, Touching, Running
<1>2. Running(m) = {} /\ ~Lost(m)
  BY DEF Running, AtWake, Lost
<1>3. InLoop(store, rows, m)
  BY <1>1, <1>2 DEF InLoop, AtWake
<1> QED BY <1>3 DEF Rule

\* A pass that has lost its memory moves on.
LEMMA LostMoves ==
  ASSUME NEW store, NEW rows, NEW me, NEW m, Lost(me), m.mem = me.mem, Touching(m),
         m.pc \notin {"rows", "close"}
  PROVE  Rule(store, rows, m)
BY DEF Rule, Lost

\* The steps that end a wake or a pass: the lock is released, a file operation
\* fails, the process dies, the loop is over.
LEMMA EndRefires ==
  ASSUME TypeInv, WriterInv, RefireInv, NEW p \in RunDue, Alive(p),
         Unlock(p) \/ Fail(p) \/ Die(p) \/ EndPass(p)
  PROVE  RefireInv'
<1> DEFINE me == proc[p]
<1>0. me \in Locals /\ Rule(disk, ledger, me)
  BY PassKnows DEF RefireInv
<1>1. disk' = disk /\ ledger' = ledger
  BY DEF Unlock, Fail, Die, EndPass, files
<1>2. CASE Die(p)
  <2>1. Rule(disk, ledger, Fresh("gone"))
    BY FreshRule DEF Ended
  <2> QED BY <1>1, <1>2, <2>1, RefireMoves DEF Die
<1>3. CASE EndPass(p)
  <2>1. Rule(disk, ledger, Fresh("done"))
    BY FreshRule DEF Ended
  <2> QED BY <1>1, <1>3, <2>1, RefireMoves DEF EndPass
<1>4. CASE Fail(p)
  <2>1. PICK pc \in {"unlock", "end"} : Becomes(p, [Fresh(pc) EXCEPT !.cur = me.cur])
    BY <1>4 DEF Fail
  <2>2. Rule(disk, ledger, [Fresh(pc) EXCEPT !.cur = me.cur])
    BY FreshRule
  <2> QED BY <1>1, <2>1, <2>2, RefireMoves
<1>5. CASE Unlock(p)
  <2> DEFINE n == [me EXCEPT !.cur = NoWake, !.started = 0, !.pc = "loop"]
  <2>1. Becomes(p, n) /\ me.pc = "unlock"
    BY <1>5 DEF Unlock, At
  <2> HIDE DEF me
  <2>2. n.pc = "loop" /\ n.mem = me.mem /\ n.touched = me.touched /\ n.put = me.put
    BY <1>0, LocalsFields
  <2> HIDE DEF n
  <2>3. Touching(n)
    BY <1>0, <2>1, <2>2 DEF Rule, Touching
  <2>4. Place(n) = "loop" /\ n.pc \notin AtWake \cup Ended
    BY <2>2 DEF Place, Saving, AtWake, Ended
  <2>5. Rule(disk, ledger, n)
    <3>1. CASE Lost(me)
      BY <2>2, <2>3, <3>1, LostMoves
    <3>2. CASE ~Lost(me)
      BY <1>0, <2>1, <2>2, <2>3, <2>4, <3>2, LoopMoves
    <3> QED BY <3>1, <3>2
  <2> QED BY <1>1, <2>1, <2>5, RefireMoves
<1> QED BY <1>2, <1>3, <1>4, <1>5

\* A pass begins, and loads the store.
LEMMA BeginRefires ==
  ASSUME TypeInv, RefireInv, NEW p \in RunDue, StartPass(p) \/ Load(p)
  PROVE  RefireInv'
<1> DEFINE me == proc[p]
<1>0. p \in Procs /\ me \in Locals /\ Rule(disk, ledger, me)
  BY PassAssumption DEF TypeInv, TypeOK, RefireInv
<1>1. disk' = disk /\ ledger' = ledger
  BY DEF StartPass, Load, files
<1>2. CASE StartPass(p)
  <2>1. PICK pc \in {"done", "load"} : Becomes(p, [me EXCEPT !.pc = pc])
    BY <1>2 DEF StartPass, Goto
  <2> DEFINE n == [me EXCEPT !.pc = pc]
  <2>2. Becomes(p, n) /\ me.pc = "start"
    BY <1>2, <2>1 DEF StartPass, At
  <2> HIDE DEF me
  <2>3. n.pc = pc /\ n.mem = me.mem /\ n.touched = me.touched /\ n.put = me.put
    BY <1>0, LocalsFields
  <2> HIDE DEF n
  <2>4. Touching(n) /\ Lost(me)
    BY <1>0, <2>2, <2>3 DEF Rule, Touching
  <2>5. Rule(disk, ledger, n)
    BY <2>3, <2>4, LostMoves
  <2> QED BY <1>1, <2>2, <2>5, RefireMoves
<1>3. CASE Load(p)
  <2> DEFINE n == [me EXCEPT !.mem = disk, !.pc = "rows"]
  <2>1. Becomes(p, n) /\ me.pc = "load"
    BY <1>3 DEF Load, At
  <2> HIDE DEF me
  <2>2. n.pc = "rows" /\ n.mem = disk /\ n.touched = me.touched /\ n.put = me.put
    BY <1>0, LocalsFields
  <2> HIDE DEF n
  <2>3. me.touched = {} /\ me.put = NoJob
    BY <1>0, <2>1 DEF Rule, Touching
  <2>4. InReconcile(disk, ledger, n)
    BY <2>2, <2>3 DEF InReconcile, RefireInv, Cached
  <2>5. Rule(disk, ledger, n)
    BY <2>2, <2>3, <2>4 DEF Rule, Touching, Ended
  <2> QED BY <1>1, <2>1, <2>5, RefireMoves
<1> QED BY <1>2, <1>3

\* The loop begins, passes a job over, or looks at its card.
LEMMA TurnRefires ==
  ASSUME TypeInv, WriterInv, RefireInv, NEW p \in RunDue, Alive(p),
         EnterLoop(p) \/ PassOver(p) \/ CardAnswer(p)
  PROVE  RefireInv'
<1> DEFINE me == proc[p]
<1>0. me \in Locals /\ Rule(disk, ledger, me) /\ me.todo \in SUBSET Jobs
  BY PassKnows, LocalsFields DEF RefireInv
<1>1. disk' = disk /\ ledger' = ledger
  BY DEF EnterLoop, PassOver, CardAnswer, files
<1>2. me.pc \in {"enter", "loop", "judge", "gate"}
  BY DEF EnterLoop, PassOver, CardAnswer, Turn, At
<1>3. me.touched = {} /\ me.put = NoJob
  BY <1>0, <1>2 DEF Rule, Touching
<1>4. \E n : /\ Becomes(p, n) /\ n.mem = me.mem
             /\ \/ n.pc \in {"loop", "judge"} /\ n.touched = {} /\ n.put = NoJob
                \/ /\ n.pc = "reload" /\ n.ret = "judge"
                   /\ \E j \in Jobs : n.touched = {j} /\ n.put.job = j /\ me.mem[j] # NoJob
  <2>1. CASE EnterLoop(p)
    <3> DEFINE todo == {j \in Jobs : me.mem[j] # NoJob}
               n == [me EXCEPT !.todo = todo, !.at = now, !.pc = "loop"]
    <3>1. Becomes(p, n)
      BY <2>1 DEF EnterLoop
    <3> HIDE DEF me, todo
    <3>2. n.pc = "loop" /\ n.mem = me.mem /\ n.touched = me.touched /\ n.put = me.put
      BY <1>0, LocalsFields
    <3> HIDE DEF n
    <3> QED BY <1>3, <3>1, <3>2
  <2>2. CASE PassOver(p)
    <3>1. PICK j \in Jobs : Becomes(p, [me EXCEPT !.todo = @ \ {j}, !.pc = "loop"])
      BY <2>2 DEF PassOver
    <3> DEFINE n == [me EXCEPT !.todo = @ \ {j}, !.pc = "loop"]
    <3>2. Becomes(p, n)
      BY <3>1
    <3> HIDE DEF me
    <3>3. n.pc = "loop" /\ n.mem = me.mem /\ n.touched = me.touched /\ n.put = me.put
      BY <1>0, LocalsFields
    <3> HIDE DEF n
    <3> QED BY <1>3, <3>2, <3>3
  <2>3. CASE CardAnswer(p)
    <3> DEFINE j == Min(me.todo)
    <3>1. /\ me.todo # {} /\ me.mem[j] # NoJob
          /\ \/ Becomes(p, [me EXCEPT !.pc = "judge"])
             \/ \E disable \in BOOLEAN :
                  Becomes(p, [me EXCEPT
                    !.put = [job |-> j, report |-> [me.mem[j].report EXCEPT !.card = "spent"],
                             disable |-> disable],
                    !.touched = {j}, !.pc = "reload", !.ret = "judge"])
      BY <2>3 DEF CardAnswer, Goto
    <3>2. j \in Jobs
      <4>1. me.todo \in SUBSET Nat
        BY <1>0 DEF Jobs
      <4> QED BY <1>0, <3>1, <4>1, MinIn
    <3>3. CASE Becomes(p, [me EXCEPT !.pc = "judge"])
      <4> DEFINE n == [me EXCEPT !.pc = "judge"]
      <4>1. Becomes(p, n)
        BY <3>3
      <4> HIDE DEF me
      <4>2. n.pc = "judge" /\ n.mem = me.mem /\ n.touched = me.touched /\ n.put = me.put
        BY <1>0, LocalsFields
      <4> HIDE DEF n
      <4> QED BY <1>3, <4>1, <4>2
    <3>4. ASSUME NEW disable \in BOOLEAN,
                 Becomes(p, [me EXCEPT
                   !.put = [job |-> j, report |-> [me.mem[j].report EXCEPT !.card = "spent"],
                            disable |-> disable],
                   !.touched = {j}, !.pc = "reload", !.ret = "judge"])
          PROVE  \E n : /\ Becomes(p, n) /\ n.mem = me.mem /\ n.pc = "reload" /\ n.ret = "judge"
                        /\ n.touched = {j} /\ n.put.job = j
      <4> DEFINE put == [job |-> j, report |-> [me.mem[j].report EXCEPT !.card = "spent"],
                         disable |-> disable]
                 n == [me EXCEPT !.put = put, !.touched = {j}, !.pc = "reload", !.ret = "judge"]
      <4>1. Becomes(p, n) /\ put.job = j
        BY <3>4
      <4> HIDE DEF me, put
      <4>2. n.pc = "reload" /\ n.ret = "judge" /\ n.mem = me.mem /\ n.touched = {j} /\ n.put = put
        BY <1>0, LocalsFields
      <4> HIDE DEF n
      <4> QED BY <4>1, <4>2
    <3> HIDE DEF me, j
    <3> QED BY <3>1, <3>2, <3>3, <3>4
  <2> QED BY <2>1, <2>2, <2>3
<1>5. PICK n : /\ Becomes(p, n) /\ n.mem = me.mem
               /\ \/ n.pc \in {"loop", "judge"} /\ n.touched = {} /\ n.put = NoJob
                  \/ /\ n.pc = "reload" /\ n.ret = "judge"
                     /\ \E j \in Jobs : n.touched = {j} /\ n.put.job = j /\ me.mem[j] # NoJob
  BY <1>4
<1> HIDE DEF me
<1>6. Touching(n)
  BY <1>5 DEF Touching
<1>7. n.pc \notin AtWake \cup Ended \cup {"start", "load", "rows", "close"} /\ Place(n) # "gate"
  BY <1>5 DEF AtWake, Ended, Place, Saving
<1>8. Rule(disk, ledger, n)
  <2>1. CASE Lost(me)
    BY <1>5, <1>6, <1>7, <2>1, LostMoves
  <2>2. CASE ~Lost(me)
    BY <1>0, <1>2, <1>5, <1>6, <1>7, <2>2, LoopMoves
  <2> QED BY <2>1, <2>2
<1> QED BY <1>1, <1>5, <1>8, RefireMoves

\* The sinks: a card is raised or read, or nothing is to be told.
LEMMA NotifyRefires ==
  ASSUME TypeInv, WriterInv, RefireInv, NEW p \in RunDue, Alive(p), Notify(p)
  PROVE  RefireInv'
<1> DEFINE me == proc[p]
           j == Min(me.notices)
           m == [me EXCEPT !.notices = @ \ {j}]
           pc == AfterSave(m)
<1>0. /\ me \in Locals /\ Rule(disk, ledger, me) /\ Placed(p, me) /\ me.pc = "notify"
      /\ me.notices \in SUBSET Jobs /\ me.notices # {} /\ j \in Jobs
  <2>1. p \in Procs /\ me.pc = "notify" /\ Placed(p, me)
    BY PassKnows DEF Notify, At
  <2>2. Sound(me)
    BY <2>1 DEF TypeInv, SoundInv
  <2>3. me.notices \in SUBSET Jobs /\ me.notices # {} /\ me.notices \in SUBSET Nat
    BY <2>1, <2>2, Mine DEF Sound, Jobs
  <2> HIDE DEF me
  <2>4. j \in Jobs
    BY <2>3, MinIn
  <2> QED BY <2>1, <2>2, <2>3, <2>4, Mine DEF RefireInv, me
<1>1. disk' = disk /\ ledger' = ledger
  BY DEF Notify, files
<1>2. me.touched = {} /\ me.put = NoJob
  BY <1>0 DEF Rule, Touching
<1>3. \/ /\ me.mem[j] # NoJob
         /\ \E card \in {"none", "open", "spent"} :
              Becomes(p, [m EXCEPT
                !.put = [job |-> j, report |-> [me.mem[j].report EXCEPT !.card = card],
                         disable |-> FALSE],
                !.touched = {j}, !.pc = "reload"])
      \/ Becomes(p, [m EXCEPT !.pc = pc])
  BY DEF Notify
<1>4. m.ret = me.ret /\ m.mem = me.mem /\ m.touched = me.touched /\ m.put = me.put
      /\ m.todo = me.todo /\ m \in Locals
  <2> HIDE DEF j, me
  <2> QED BY <1>0, LocalsFields
<1>5. pc \in {"notify", me.ret} /\ me.ret \in {"enter", "judge", "gate", "loop", "unlock"}
  BY <1>0, <1>4 DEF AfterSave, Placed, Saving
<1>6. \E n : /\ Becomes(p, n) /\ n.mem = me.mem /\ n.ret = me.ret /\ n.todo = me.todo
             /\ \/ n.pc \in {"notify", me.ret} /\ n.touched = {} /\ n.put = NoJob
                \/ n.pc = "reload" /\ n.touched = {j} /\ n.put.job = j /\ me.mem[j] # NoJob
  <2>1. CASE Becomes(p, [m EXCEPT !.pc = pc])
    <3> DEFINE n == [m EXCEPT !.pc = pc]
    <3>1. Becomes(p, n)
      BY <2>1
    <3> HIDE DEF me, m, pc
    <3>2. n.pc = pc /\ n.mem = m.mem /\ n.touched = m.touched /\ n.put = m.put
          /\ n.ret = m.ret /\ n.todo = m.todo
      BY <1>4, LocalsFields
    <3> HIDE DEF n
    <3> QED BY <1>2, <1>4, <1>5, <3>1, <3>2
  <2>2. ASSUME NEW card \in {"none", "open", "spent"}, me.mem[j] # NoJob,
               Becomes(p, [m EXCEPT
                !.put = [job |-> j, report |-> [me.mem[j].report EXCEPT !.card = card],
                         disable |-> FALSE],
                !.touched = {j}, !.pc = "reload"])
        PROVE  \E n : /\ Becomes(p, n) /\ n.mem = me.mem /\ n.ret = me.ret /\ n.todo = me.todo
                      /\ n.pc = "reload" /\ n.touched = {j} /\ n.put.job = j
    <3> DEFINE put == [job |-> j, report |-> [me.mem[j].report EXCEPT !.card = card],
                       disable |-> FALSE]
               n == [m EXCEPT !.put = put, !.touched = {j}, !.pc = "reload"]
    <3>1. Becomes(p, n) /\ put.job = j
      BY <2>2
    <3> HIDE DEF me, m, put, j
    <3>2. n.pc = "reload" /\ n.mem = m.mem /\ n.touched = {j} /\ n.put = put
          /\ n.ret = m.ret /\ n.todo = m.todo
      BY <1>4, LocalsFields
    <3> HIDE DEF n
    <3> QED BY <1>4, <3>1, <3>2
  <2> HIDE DEF me, m, j, pc
  <2> QED BY <1>3, <2>1, <2>2
<1>7. PICK n : /\ Becomes(p, n) /\ n.mem = me.mem /\ n.ret = me.ret /\ n.todo = me.todo
               /\ \/ n.pc \in {"notify", me.ret} /\ n.touched = {} /\ n.put = NoJob
                  \/ n.pc = "reload" /\ n.touched = {j} /\ n.put.job = j /\ me.mem[j] # NoJob
  BY <1>6
<1> HIDE DEF me, j, m, pc
<1>8. Touching(n)
  BY <1>0, <1>5, <1>7 DEF Touching
<1>9. /\ n.pc \notin AtWake \cup Ended \cup {"start", "load", "rows", "close"}
      /\ Place(n) = me.ret /\ Place(me) = me.ret
  BY <1>0, <1>5, <1>7 DEF AtWake, Ended, Place, Saving
<1>10. Rule(disk, ledger, n)
  <2>1. CASE Lost(me)
    BY <1>7, <1>8, <1>9, <2>1, LostMoves
  <2>2. CASE ~Lost(me)
    BY <1>0, <1>7, <1>8, <1>9, <2>2, LoopMoves
  <2> QED BY <2>1, <2>2
<1> QED BY <1>1, <1>7, <1>10, RefireMoves

\* What a merge makes of a store that knows all but the touched jobs' last
\* starts, and of a memory that knows theirs.
LEMMA MergeCovers ==
  ASSUME NEW rows, NEW fresh \in Stores, NEW mine \in Stores, NEW touched \in SUBSET Jobs,
         \A j \in touched : mine[j] # NoJob,
         \A j \in Jobs : fresh[j] # NoJob => Good(rows, fresh[j]),
         \A j \in Jobs \ touched : fresh[j] # NoJob => Covers(rows, fresh[j], j),
         \A j \in touched : Good(rows, mine[j]) /\ Covers(rows, mine[j], j),
         NEW j \in Jobs
  PROVE  LET merged == Merge(fresh, mine, touched)
         IN /\ merged[j] = NoJob <=> fresh[j] = NoJob
            /\ merged[j] # NoJob => Good(rows, merged[j]) /\ Covers(rows, merged[j], j)
<1> DEFINE merged == Merge(fresh, mine, touched)
<1>1. merged[j] = IF j \in touched /\ fresh[j] # NoJob /\ mine[j] # NoJob
                    THEN Overlay(fresh[j], mine[j]) ELSE fresh[j]
  BY DEF Merge
<1> HIDE DEF merged
<1>2. CASE ~(j \in touched /\ fresh[j] # NoJob /\ mine[j] # NoJob)
  BY <1>1, <1>2 DEF merged
<1>3. CASE j \in touched /\ fresh[j] # NoJob /\ mine[j] # NoJob
  <2> DEFINE n == Overlay(fresh[j], mine[j])
  <2>1. fresh[j] \in Records /\ mine[j] \in Records
    BY <1>3 DEF Stores
  <2>2. /\ n \in Records /\ n.created = fresh[j].created
        /\ n.wake = mine[j].wake /\ n.started = mine[j].started
    BY <2>1 DEF Overlay, Records
  <2> HIDE DEF n
  <2>3. fresh[j].created = 1 /\ Knows(rows, mine[j]) /\ Covers(rows, mine[j], j)
    BY <1>3 DEF Good
  <2>4. Good(rows, n) /\ Covers(rows, n, j)
    BY <2>2, <2>3 DEF Good, Knows, Covers
  <2>5. n # NoJob
    BY <2>2, NoJobAssumption
  <2> QED BY <1>1, <1>3, <2>4, <2>5 DEF merged, n
<1> QED BY <1>2, <1>3

\* The merge.
LEMMA ReloadRefires ==
  ASSUME TypeInv, WriterInv, RefireInv, NEW p \in RunDue, Alive(p), Reload(p)
  PROVE  RefireInv'
<1> DEFINE me == proc[p]
           merged == Merge(disk, me.mem, me.touched)
           mem == WithPut(merged, me.put)
           m == [me EXCEPT !.mem = mem, !.touched = {}, !.put = NoJob]
           gone == me.put # NoJob /\ merged[me.put.job] = NoJob
           pc == IF gone THEN AfterSave(m) ELSE "save"
<1>0. /\ me \in Locals /\ Rule(disk, ledger, me) /\ Placed(p, me) /\ me.pc = "reload"
      /\ me.mem \in Stores /\ me.touched \in SUBSET Jobs /\ me.put \in Puts /\ disk \in Stores
  BY PassKnows, LocalsFields DEF RefireInv, Reload, At, TypeInv, TypeOK, Stores
<1>1. disk' = disk /\ ledger' = ledger
  BY DEF Reload, files
<1>2. Becomes(p, [m EXCEPT !.pc = pc])
  BY DEF Reload
<1>3. me.ret \in {"enter", "judge", "gate", "loop", "unlock"} /\ Place(me) = me.ret
  BY <1>0 DEF Placed, Saving, Place
<1>4. /\ Touching(me) /\ ~Lost(me) /\ InLoop(disk, ledger, me) /\ Running(me) = {}
  BY <1>0 DEF Rule, Touching, Lost, Running
<1>5. Cached(disk, ledger)
  BY DEF RefireInv
<1>6. \A j \in Jobs : /\ merged[j] = NoJob <=> disk[j] = NoJob
                      /\ merged[j] # NoJob => Good(ledger, merged[j]) /\ Covers(ledger, merged[j], j)
  <2>1. \A j \in Jobs : disk[j] # NoJob => Good(ledger, disk[j])
    BY <1>5 DEF Cached
  <2>2. \A j \in Jobs \ me.touched : disk[j] # NoJob => Covers(ledger, disk[j], j)
    BY <1>0, <1>4 DEF InLoop
  <2>3. \A j \in me.touched : me.mem[j] # NoJob
    BY <1>4 DEF Touching
  <2>4. \A j \in me.touched : Good(ledger, me.mem[j]) /\ Covers(ledger, me.mem[j], j)
    BY <1>0, <1>4, <2>3 DEF InLoop
  <2> HIDE DEF me
  <2> QED BY <1>0, <2>1, <2>2, <2>3, <2>4, MergeCovers
<1>7. \A j \in Jobs : mem[j] # NoJob => Good(ledger, mem[j]) /\ Covers(ledger, mem[j], j)
  <2>1. merged \in Stores
    BY <1>0, MergeType
  <2> HIDE DEF merged, me
  <2> QED BY <1>0, <1>6, <2>1, PutSame, SameGood
<1>8. gone => \A j \in Jobs : disk[j] # NoJob => Covers(ledger, disk[j], j)
  <2>1. \A j \in Jobs \ me.touched : disk[j] # NoJob => Covers(ledger, disk[j], j)
    BY <1>0, <1>4 DEF InLoop
  <2>2. ASSUME gone PROVE \A j \in me.touched : disk[j] = NoJob
    BY <1>0, <1>4, <1>6, <2>2 DEF Touching
  <2> HIDE DEF me, gone
  <2> QED BY <2>1, <2>2
<1>9. pc \in {"save", "notify", me.ret} /\ (pc # "save" => gone)
  <2> HIDE DEF gone, mem, me
  <2>1. m.ret = me.ret
    BY <1>0, LocalsFields
  <2> HIDE DEF m
  <2> QED BY <2>1 DEF AfterSave
<1>10. PICK n : /\ Becomes(p, n) /\ n.pc = pc /\ n.mem = mem /\ n.touched = {} /\ n.put = NoJob
                /\ n.ret = me.ret /\ n.todo = me.todo
  <2> DEFINE n == [m EXCEPT !.pc = pc]
  <2>1. Becomes(p, n)
    BY <1>2
  <2> HIDE DEF me, mem, pc
  <2>2. /\ n.pc = pc /\ n.mem = mem /\ n.touched = {} /\ n.put = NoJob
        /\ n.ret = me.ret /\ n.todo = me.todo
    BY <1>0, LocalsFields
  <2> HIDE DEF n
  <2> QED BY <2>1, <2>2
<1> HIDE DEF me, merged, mem, m, gone, pc
<1>11. /\ n.pc \notin AtWake \cup Ended \cup {"start", "load", "rows", "close", "reload", "spawn", "wait"}
       /\ Place(n) = me.ret
  BY <1>3, <1>9, <1>10 DEF AtWake, Ended, Place, Saving
<1>12. InLoop(disk, ledger, n)
  <2>1. Running(n) = {}
    BY <1>11 DEF Running
  <2>2. OpenAt(ledger) = {} /\ (Place(n) = "gate" => \A i \in DOMAIN ledger : ~LastStart(ledger, Min(n.todo), i))
    BY <1>0, <1>3, <1>4, <1>10, <1>11 DEF InLoop
  <2>3. n.pc # "save" => \A j \in Jobs : disk[j] # NoJob => Covers(ledger, disk[j], j)
    BY <1>8, <1>9, <1>10
  <2> QED BY <1>7, <1>10, <1>11, <2>1, <2>2, <2>3 DEF InLoop, AtWake
<1>13. Rule(disk, ledger, n)
  BY <1>10, <1>11, <1>12 DEF Rule, Touching
<1> QED BY <1>1, <1>10, <1>13, RefireMoves

\* The save.
LEMMA SaveRefires ==
  ASSUME TypeInv, WriterInv, RefireInv, NEW p \in RunDue, Alive(p), Save(p)
  PROVE  RefireInv'
<1> DEFINE me == proc[p]
           pc == AfterSave(me)
           n == [me EXCEPT !.pc = pc]
<1>0. /\ me \in Locals /\ Rule(disk, ledger, me) /\ Placed(p, me) /\ me.pc = "save"
      /\ \A q \in RunDue \ {p} : ~Alive(q)
  BY PassKnows DEF RefireInv, Save, At
<1>1. disk' = me.mem /\ ledger' = ledger /\ Becomes(p, n)
  BY DEF Save, Goto
<1>2. me.ret \in {"enter", "judge", "gate", "loop", "unlock"} /\ Place(me) = me.ret
  BY <1>0 DEF Placed, Saving, Place
<1>3. pc \in {"notify", me.ret}
  BY DEF AfterSave
<1> HIDE DEF me, pc
<1>4. n.pc = pc /\ n.mem = me.mem /\ n.touched = me.touched /\ n.put = me.put
      /\ n.ret = me.ret /\ n.todo = me.todo
  BY <1>0, LocalsFields
<1> HIDE DEF n
<1>5. me.touched = {} /\ me.put = NoJob
  BY <1>0 DEF Rule, Touching
<1>6. /\ n.pc \notin AtWake \cup Ended \cup {"start", "load", "rows", "close", "reload", "spawn", "wait"}
      /\ Place(n) = me.ret
  BY <1>2, <1>3, <1>4 DEF AtWake, Ended, Place, Saving
<1>7. Touching(n)
  BY <1>4, <1>5, <1>6 DEF Touching
<1>8. CASE Lost(me)
  <2>1. Cached(disk', ledger')
    BY <1>1, <1>8 DEF Cached, Lost
  <2>2. Rule(disk', ledger', n)
    BY <1>4, <1>6, <1>7, <1>8, LostMoves
  <2> QED BY <1>0, <1>1, <2>1, <2>2, RefireGoesOn DEF RefireInv
<1>9. CASE ~Lost(me)
  <2>1. InLoop(disk, ledger, me) /\ Running(me) = {} /\ Running(n) = {}
    BY <1>0, <1>6, <1>9 DEF Rule, Running
  <2>2. Cached(disk', ledger')
    BY <1>1, <2>1 DEF Cached, InLoop
  <2>3. InLoop(me.mem, ledger, n)
    BY <1>0, <1>2, <1>4, <1>6, <2>1 DEF InLoop, AtWake
  <2>4. Rule(disk', ledger', n)
    BY <1>1, <1>6, <1>7, <2>3 DEF Rule
  <2> QED BY <1>0, <1>1, <2>2, <2>4, RefireGoesOn DEF RefireInv
<1> QED BY <1>8, <1>9

\* A pass in its loop writes a row that ends a wake, and either leaves its memory
\* as it is or has stamped one job.
LEMMA RowRefires ==
  ASSUME TypeInv, WriterInv, RefireInv, NEW p \in RunDue, Alive(p),
         proc[p].pc \in {"loop", "judge", "gate", "recheck"}, ~Lost(proc[p]),
         NEW row \in Rows, Write(row), row.event = "finished", row.job = row.wake.job, disk' = disk,
         NEW n, Becomes(p, n), n.put = NoJob,
         n.pc \in {"loop", "unlock"} \/ (n.pc = "reload" /\ n.ret \in {"loop", "gate", "unlock"}),
         Place(n) = "gate" => \A i \in DOMAIN ledger' : ~LastStart(ledger', Min(n.todo), i),
         \/ n.pc # "reload" /\ n.mem = proc[p].mem /\ n.touched = {}
         \/ \E j \in Jobs : \E r :
              /\ n.pc = "reload" /\ n.mem = [proc[p].mem EXCEPT ![j] = r] /\ n.touched = {j}
              /\ r # NoJob /\ Good(ledger', r) /\ Covers(ledger', r, j)
  PROVE  RefireInv'
<1> DEFINE me == proc[p]
<1>0. /\ me \in Locals /\ me.mem \in Stores /\ Rule(disk, ledger, me)
      /\ \A q \in RunDue \ {p} : ~Alive(q)
  BY PassKnows, LocalsFields DEF RefireInv
<1>1. me.touched = {} /\ Running(me) = {} /\ InLoop(disk, ledger, me)
  BY <1>0 DEF Rule, Touching, Running
<1>2. ledger \in Seq(Rows) /\ ledger' = Append(ledger, row) /\ Kept(ledger) /\ Cached(disk, ledger)
  BY DEF TypeInv, TypeOK, Write, RefireInv
<1>3. OpenAt(ledger) = {}
  BY <1>1 DEF InLoop
<1>4. Kept(ledger') /\ OpenAt(ledger') = {}
  BY <1>2, <1>3, EndMore
<1>5. \A r : Good(ledger, r) => Good(ledger', r)
  BY <1>2, GoodMore
<1>6. \A j : \A r : Covers(ledger, r, j) => Covers(ledger', r, j)
  BY <1>2, CoversMore
<1>7. \A j \in Jobs : disk[j] # NoJob => Good(ledger', disk[j]) /\ Covers(ledger', disk[j], j)
  BY <1>1, <1>2, <1>5, <1>6 DEF InLoop, Cached
<1>8. \A j \in Jobs : me.mem[j] # NoJob => Good(ledger', me.mem[j]) /\ Covers(ledger', me.mem[j], j)
  BY <1>1, <1>5, <1>6 DEF InLoop
<1>9. Cached(disk', ledger')
  BY <1>7 DEF Cached
<1>10. \A j \in Jobs : n.mem[j] # NoJob => Good(ledger', n.mem[j]) /\ Covers(ledger', n.mem[j], j)
  <2>1. CASE n.mem = me.mem
    BY <1>8, <2>1
  <2>2. ASSUME NEW k \in Jobs, NEW r, n.mem = [me.mem EXCEPT ![k] = r],
               Good(ledger', r), Covers(ledger', r, k)
        PROVE  \A j \in Jobs : n.mem[j] # NoJob => Good(ledger', n.mem[j]) /\ Covers(ledger', n.mem[j], j)
    <3> HIDE DEF me
    <3>1. \A j \in Jobs : n.mem[j] = IF j = k THEN r ELSE me.mem[j]
      BY <1>0, <2>2 DEF Stores
    <3> QED BY <1>8, <2>2, <3>1
  <2> QED BY <2>1, <2>2
<1>11. Touching(n)
  <2>1. ASSUME NEW k \in Jobs, NEW r, n.mem = [me.mem EXCEPT ![k] = r], r # NoJob
        PROVE  n.mem[k] # NoJob
    BY <1>0, <2>1 DEF Stores
  <2> QED BY <2>1 DEF Touching
<1>12. n.pc \notin AtWake \cup Ended \cup {"start", "load", "rows", "close", "save", "spawn", "wait"}
  BY DEF AtWake, Ended
<1>13. InLoop(disk, ledger', n)
  <2>1. Running(n) = {}
    BY <1>12 DEF Running
  <2> QED BY <1>4, <1>7, <1>10, <1>12, <2>1 DEF InLoop, AtWake
<1>14. Rule(disk', ledger', n)
  BY <1>11, <1>12, <1>13 DEF Rule
<1> QED BY <1>0, <1>4, <1>9, <1>14, RefireGoesOn

\* What a stamp changes of the memory of a process, besides where it is.
LEMMA StampedMemory ==
  ASSUME NEW m \in Locals, NEW w, NEW ts, NEW state, NEW executed, NEW ret
  PROVE  Stamped(m, w, ts, state, executed, ret).mem =
           [m.mem EXCEPT ![w.job] = Stamp(m.mem[w.job], w, ts, state, executed)]
<1> DEFINE mem == [m.mem EXCEPT ![w.job] = Stamp(m.mem[w.job], w, ts, state, executed)]
           n == [m EXCEPT !.mem = mem, !.touched = {w.job}, !.notices = {w.job}, !.pc = "reload",
                          !.ret = ret]
<1>1. Stamped(m, w, ts, state, executed, ret) = n
  <2>1. [m.mem EXCEPT ![w.job] = Stamp(@, w, ts, state, executed)] = mem
    OBVIOUS
  <2> HIDE DEF mem
  <2> QED BY <2>1 DEF Stamped
<1> HIDE DEF mem
<1>2. n.mem = mem
  BY LocalsFields
<1> HIDE DEF n
<1> QED BY <1>1, <1>2 DEF mem

LEMMA StampedRest ==
  ASSUME NEW m \in Locals, NEW w, NEW ts, NEW state, NEW executed, NEW ret, NEW todo
  PROVE  LET n == Stamped(m, w, ts, state, executed, ret)
             k == [n EXCEPT !.todo = todo]
         IN /\ n.touched = {w.job} /\ n.put = m.put
            /\ k.touched = {w.job} /\ k.put = m.put /\ k.mem = n.mem
<1> DEFINE mem == [m.mem EXCEPT ![w.job] = Stamp(@, w, ts, state, executed)]
           n == [m EXCEPT !.mem = mem, !.touched = {w.job}, !.notices = {w.job}, !.pc = "reload",
                          !.ret = ret]
<1>1. Stamped(m, w, ts, state, executed, ret) = n
  BY DEF Stamped
<1> HIDE DEF mem
<1>2. n.touched = {w.job} /\ n.put = m.put
  BY LocalsFields
<1>3. LET k == [n EXCEPT !.todo = todo]
      IN k.touched = {w.job} /\ k.put = m.put /\ k.mem = n.mem
  BY LocalsFields
<1> HIDE DEF n
<1> QED BY <1>1, <1>2, <1>3

\* A wake of a job the pass has yet to turn to has no row.
LEMMA NoRowYet ==
  ASSUME TypeInv, WriterInv, RefireInv, NEW p \in RunDue, Alive(p), NEW j \in proc[p].todo,
         NEW kind \in {"skew", "wake"}, NEW i \in DOMAIN ledger
  PROVE  ~(ledger[i].event = "started" /\ ledger[i].wake = [proc |-> p, job |-> j, kind |-> kind])
<1> DEFINE w == [proc |-> p, job |-> j, kind |-> kind]
<1>1. w.proc = p /\ w.job = j /\ w.kind = kind
  OBVIOUS
<1> HIDE DEF w
<1>2. RowOf(ledger, p, proc[p])
  BY PassKnows
<1>3. SUFFICES ASSUME ledger[i].event = "started", ledger[i].wake = w PROVE FALSE
  BY DEF w
<1>4. w.kind = "wake"
  BY <1>3 DEF RefireInv, Kept
<1>5. w.job \notin proc[p].todo
  BY <1>1, <1>2, <1>3, <1>4 DEF RowOf, Own
<1> QED BY <1>1, <1>5

\* The rows of a turn: a clock-skew row, a skip, a lock that is held.
LEMMA TurnRowRefires ==
  ASSUME TypeInv, WriterInv, RefireInv, NEW p \in RunDue, Alive(p),
         SkewRow(p) \/ SkipRow(p) \/ Overlap(p)
  PROVE  RefireInv'
<1> DEFINE me == proc[p]
<1>0. /\ p \in Procs /\ p \notin Operator /\ me \in Locals /\ me.mem \in Stores /\ now \in Nat
      /\ Rule(disk, ledger, me) /\ TypeOK /\ ledger \in Seq(Rows) /\ me.todo \in SUBSET Jobs
  BY PassKnows, LocalsFields DEF TypeInv, TypeOK, RefireInv
<1>1. disk' = disk
  BY DEF SkewRow, SkipRow, Overlap
\* The job it is about.
<1>2. ASSUME NEW j \in Jobs, Turn(p, j) \/ Due(p, j), me.mem[j] # NoJob
      PROVE  /\ me.pc \in {"loop", "judge", "gate"} /\ j \in me.todo /\ j = Min(me.todo)
             /\ ~Lost(me) /\ me.put = NoJob
             /\ me.mem[j] \in Records /\ Good(ledger, me.mem[j]) /\ Covers(ledger, me.mem[j], j)
  <2>1. me.pc \in {"loop", "judge", "gate"} /\ j \in me.todo /\ j = Min(me.todo)
    BY <1>2, NextJob
  <2>2. ~Lost(me)
    BY <1>2 DEF Lost
  <2>3. InLoop(disk, ledger, me) /\ Running(me) = {} /\ me.put = NoJob
    BY <1>0, <2>1, <2>2 DEF Rule, Touching, Running
  <2>4. me.mem[j] \in Records
    BY <1>0, <1>2 DEF Stores
  <2> HIDE DEF me
  <2> QED BY <1>2, <2>1, <2>2, <2>3, <2>4 DEF InLoop
\* A row of such a job.
<1>3. ASSUME NEW j \in Jobs, NEW kind \in {"skew", "wake"}, NEW state \in States,
             NEW w, w = [proc |-> p, job |-> j, kind |-> kind],
             NEW row, row = FinishedRow(w, state, now), Write(row)
      PROVE  /\ w \in Wakes /\ w.job = j /\ w.kind = kind /\ row \in Rows
             /\ row.event = "finished" /\ row.wake = w /\ row.job = j /\ row.job = row.wake.job
             /\ ledger' = Append(ledger, row) /\ FinishedIn(ledger', w)
             /\ ledger'[Len(ledger')] = row /\ Len(ledger') \in DOMAIN ledger'
             /\ \A i \in DOMAIN ledger' : i = Len(ledger') \/ i < Len(ledger')
             /\ j \in me.todo => \A i \in DOMAIN ledger' :
                  ~(ledger'[i].event = "started" /\ ledger'[i].wake = w)
  <2>1. w \in Wakes /\ w.job = j /\ w.kind = kind
    BY <1>0, <1>3, WakeType
  <2>2. \A i \in DOMAIN ledger : j \in me.todo => ~(ledger[i].event = "started" /\ ledger[i].wake = w)
    BY <1>3, NoRowYet
  <2>4. row \in Rows /\ row.event = "finished" /\ row.wake = w /\ row.job = j
    BY <1>0, <1>3, <2>1, RowTypes DEF FinishedRow
  <2>5. ledger' = Append(ledger, row)
    BY <1>3 DEF Write
  <2>6. FinishedIn(ledger', w)
    BY <1>0, <2>4, <2>5, FinishedMore
  <2>7. /\ ledger'[Len(ledger')] = row
        /\ \A i \in DOMAIN ledger : ledger'[i] = ledger[i] /\ i < Len(ledger')
        /\ Len(ledger') \in DOMAIN ledger'
        /\ \A i \in DOMAIN ledger' : i \in DOMAIN ledger \/ i = Len(ledger')
    BY <1>0, <2>4, <2>5, RowMore
  <2>8. \A i \in DOMAIN ledger' : i = Len(ledger') \/ i < Len(ledger')
    BY <2>7
  <2>9. j \in me.todo => \A i \in DOMAIN ledger' :
          ~(ledger'[i].event = "started" /\ ledger'[i].wake = w)
    BY <2>2, <2>4, <2>7
  <2> QED BY <2>1, <2>4, <2>5, <2>6, <2>7, <2>8, <2>9
<1>4. CASE Overlap(p)
  <2>1. PICK j \in Jobs :
          /\ Executes(p, j)
          /\ Write(FinishedRow([proc |-> p, job |-> j, kind |-> "wake"], "overlap", now))
          /\ Becomes(p, [me EXCEPT !.todo = @ \ {j}, !.pc = "loop"])
    BY <1>4 DEF Overlap, AfterWake
  <2>2. Due(p, j) /\ me.mem[j] # NoJob
    <3>1. me.pc # "lock"
      BY <2>1, PassKnows, NextJob
    <3> QED BY <2>1, <3>1 DEF Executes, Due, At
  <2> DEFINE w == [proc |-> p, job |-> j, kind |-> "wake"]
             row == FinishedRow(w, "overlap", now)
             n == [me EXCEPT !.todo = @ \ {j}, !.pc = "loop"]
  <2>3. Becomes(p, n)
    BY <2>1
  <2>4. /\ n.pc = "loop" /\ n.mem = me.mem /\ n.touched = me.touched /\ n.put = me.put
    <3> HIDE DEF me
    <3> QED BY <1>0, LocalsFields
  <2>5. row \in Rows /\ Write(row) /\ row.event = "finished" /\ row.job = row.wake.job
    <3>1. "overlap" \in States
      BY DEF States, UnstampedStates
    <3>2. Write(row) /\ row = FinishedRow(w, "overlap", now)
      BY <2>1
    <3> HIDE DEF row
    <3> QED BY <1>3, <3>1, <3>2
  <2> HIDE DEF n, w, row
  <2>6. me.pc \in {"loop", "judge", "gate"} /\ ~Lost(me) /\ me.put = NoJob
    BY <1>2, <2>2
  <2>7. n.touched = {} /\ Place(n) # "gate"
    BY <1>0, <2>4, <2>6 DEF Rule, Touching, Place, Saving
  <2> QED BY <1>1, <2>3, <2>4, <2>5, <2>6, <2>7, RowRefires
<1>5. CASE SkipRow(p)
  <2>1. PICK j \in Jobs :
          /\ Due(p, j)
          /\ Write(FinishedRow([proc |-> p, job |-> j, kind |-> "wake"], "skipped", now))
          /\ Becomes(p, [Stamped(me, [proc |-> p, job |-> j, kind |-> "wake"], now, "skipped", FALSE,
                                 "loop") EXCEPT !.todo = @ \ {j}])
    BY <1>5 DEF SkipRow
  <2>2. /\ me.pc \in {"loop", "judge", "gate"} /\ j \in me.todo /\ ~Lost(me) /\ me.put = NoJob
        /\ me.mem[j] \in Records /\ Good(ledger, me.mem[j]) /\ Covers(ledger, me.mem[j], j)
    BY <1>2, <2>1 DEF Due
  <2> DEFINE w == [proc |-> p, job |-> j, kind |-> "wake"]
             row == FinishedRow(w, "skipped", now)
             executed == FALSE
             r == Stamp(me.mem[j], w, now, "skipped", executed)
             m == Stamped(me, w, now, "skipped", executed, "loop")
             n == [m EXCEPT !.todo = me.todo \ {j}]
  <2>3. /\ w \in Wakes /\ w.job = j /\ row \in Rows /\ Write(row)
        /\ row.event = "finished" /\ row.wake = w /\ row.job = j /\ row.job = row.wake.job
        /\ ledger' = Append(ledger, row) /\ FinishedIn(ledger', w)
        /\ \A i \in DOMAIN ledger' : ~(ledger'[i].event = "started" /\ ledger'[i].wake = w)
    <3>1. "skipped" \in States
      BY DEF States
    <3>2. Write(row) /\ w = [proc |-> p, job |-> j, kind |-> "wake"]
          /\ row = FinishedRow(w, "skipped", now)
      BY <2>1
    <3> HIDE DEF me, w, row
    <3> QED BY <1>3, <2>2, <3>1, <3>2
  <2>4. /\ m.todo = me.todo /\ n.pc = "reload" /\ n.ret = "loop"
        /\ n.mem = [me.mem EXCEPT ![j] = r] /\ n.touched = {j} /\ n.put = me.put
    <3>0. /\ m = Stamped(me, w, now, "skipped", executed, "loop")
          /\ n = [m EXCEPT !.todo = me.todo \ {j}]
          /\ w.job = j /\ r = Stamp(me.mem[j], w, now, "skipped", executed)
      BY <2>3
    <3> HIDE DEF me, w, executed
    <3>1. m.todo = me.todo /\ n.pc = "reload" /\ n.ret = "loop"
      BY <1>0, StampedFields
    <3>2. n.touched = {w.job} /\ n.put = me.put /\ n.mem = m.mem
      BY <1>0, StampedRest
    <3>3. m.mem = [me.mem EXCEPT ![w.job] = Stamp(me.mem[w.job], w, now, "skipped", executed)]
      <4>1. me \in Locals /\ m = Stamped(me, w, now, "skipped", executed, "loop")
        BY <1>0
      <4> HIDE DEF r, n, m
      <4> QED BY <4>1, StampedMemory
    <3> HIDE DEF r, n, m
    <3> QED BY <3>0, <3>1, <3>2, <3>3
  <2>5. Becomes(p, n)
    <3>1. Becomes(p, [m EXCEPT !.todo = @ \ {j}])
      BY <2>1
    <3> HIDE DEF m
    <3> QED BY <2>4, <3>1
  <2>7. Good(ledger', me.mem[j]) /\ Covers(ledger', me.mem[j], j)
    <3> HIDE DEF me, row, w
    <3> QED BY <1>0, <2>2, <2>3, GoodMore, CoversMore
  <2>8. "skipped" \in States \cup {"none"} /\ executed \in BOOLEAN /\ ~executed
    BY DEF States
  <2> HIDE DEF me, w, row, executed, n, m
  <2>9. Good(ledger', r)
    BY <1>0, <2>2, <2>3, <2>7, <2>8, StampGood
  <2>10. Covers(ledger', r, j) /\ r # NoJob
    <3>1. r \in Records /\ r.started >= me.mem[j].started
      BY <1>0, <2>2, <2>3, <2>8, StampMoves
    <3>2. \A i \in DOMAIN ledger' : ledger'[i].ts \in Nat
      <4>1. ledger' \in Seq(Rows)
        BY <1>0, <2>3, RowMore
      <4> QED BY <4>1 DEF Rows
    <3>3. r.started \in Nat /\ me.mem[j].started \in Nat
      BY <2>2, <3>1 DEF Records
    <3> HIDE DEF r
    <3> QED BY <2>7, <3>1, <3>2, <3>3, NoJobAssumption DEF Covers
  <2>11. Place(n) # "gate"
    BY <2>4 DEF Place, Saving
  <2> HIDE DEF r
  <2> QED BY <1>1, <2>2, <2>3, <2>4, <2>5, <2>9, <2>10, <2>11, RowRefires DEF me
<1>6. CASE SkewRow(p)
  <2>1. PICK j \in Jobs :
          /\ Turn(p, j) /\ me.mem[j] # NoJob
          /\ Write(FinishedRow([proc |-> p, job |-> j, kind |-> "skew"], "error", now))
          /\ Becomes(p, Stamped(me, [proc |-> p, job |-> j, kind |-> "skew"], now, "error", TRUE,
                                "gate"))
    BY <1>6 DEF SkewRow
  <2>2. /\ me.pc \in {"loop", "judge", "gate"} /\ j \in me.todo /\ ~Lost(me) /\ me.put = NoJob
        /\ me.mem[j] \in Records /\ Good(ledger, me.mem[j]) /\ j = Min(me.todo)
    BY <1>2, <2>1
  <2> DEFINE w == [proc |-> p, job |-> j, kind |-> "skew"]
             row == FinishedRow(w, "error", now)
             executed == TRUE
             r == Stamp(me.mem[j], w, now, "error", executed)
             n == Stamped(me, w, now, "error", executed, "gate")
  <2>3. /\ w \in Wakes /\ w.job = j /\ w.kind = "skew" /\ row \in Rows /\ Write(row)
        /\ row.event = "finished" /\ row.wake = w /\ row.job = j /\ row.job = row.wake.job
        /\ ledger' = Append(ledger, row) /\ FinishedIn(ledger', w)
        /\ ledger'[Len(ledger')] = row /\ Len(ledger') \in DOMAIN ledger'
        /\ \A i \in DOMAIN ledger' : i = Len(ledger') \/ i < Len(ledger')
        /\ \A i \in DOMAIN ledger' : ~(ledger'[i].event = "started" /\ ledger'[i].wake = w)
    <3>1. "error" \in States
      BY DEF States, BadStates
    <3>2. Write(row) /\ w = [proc |-> p, job |-> j, kind |-> "skew"]
          /\ row = FinishedRow(w, "error", now)
      BY <2>1
    <3> HIDE DEF me, w, row
    <3> QED BY <1>3, <2>2, <3>1, <3>2
  <2>4. /\ n.todo = me.todo /\ n.pc = "reload" /\ n.ret = "gate"
        /\ n.mem = [me.mem EXCEPT ![j] = r] /\ n.touched = {j} /\ n.put = me.put
    <3>0. /\ n = Stamped(me, w, now, "error", executed, "gate")
          /\ w.job = j /\ r = Stamp(me.mem[j], w, now, "error", executed)
      BY <2>3
    <3> HIDE DEF me, w, executed
    <3>1. n.todo = me.todo /\ n.pc = "reload" /\ n.ret = "gate"
      BY <1>0, StampedFields
    <3>2. n.touched = {w.job} /\ n.put = me.put
      BY <1>0, StampedRest
    <3>3. n.mem = [me.mem EXCEPT ![w.job] = Stamp(me.mem[w.job], w, now, "error", executed)]
      <4>1. me \in Locals /\ n = Stamped(me, w, now, "error", executed, "gate")
        BY <1>0
      <4> HIDE DEF r, n
      <4> QED BY <4>1, StampedMemory
    <3> HIDE DEF r, n
    <3> QED BY <3>0, <3>1, <3>2, <3>3
  <2>5. Becomes(p, n)
    BY <2>1
  <2>7. Good(ledger', me.mem[j])
    <3> HIDE DEF me, row, w
    <3> QED BY <1>0, <2>2, <2>3, GoodMore
  <2>8. "error" \in States \cup {"none"} /\ executed \in BOOLEAN
    BY DEF States, BadStates
  <2> HIDE DEF me, w, row, executed, n
  <2>9. Good(ledger', r) /\ r # NoJob
    <3>1. r \in Records
      BY <1>0, <2>2, <2>3, <2>8, StampMoves
    <3> QED BY <1>0, <2>2, <2>3, <2>7, <2>8, <3>1, StampGood, NoJobAssumption
\* The row takes the last start back.
  <2>10. \A i \in DOMAIN ledger' : ~LastStart(ledger', j, i)
    BY <2>3 DEF LastStart
  <2>11. Covers(ledger', r, j)
    BY <2>10 DEF Covers
  <2> HIDE DEF r
  <2> QED BY <1>1, <2>2, <2>3, <2>4, <2>5, <2>9, <2>10, <2>11, RowRefires DEF me
<1> QED BY <1>4, <1>5, <1>6

\* What is known of a pass at a wake.
LEMMA WakeKnows ==
  ASSUME TypeInv, WriterInv, RefireInv, NEW p \in RunDue, proc[p].pc \in AtWake
  PROVE  /\ Alive(p) /\ proc[p] \in Locals /\ proc[p].mem \in Stores /\ proc[p].started \in Nat
         /\ proc[p].cur \in Wakes /\ proc[p].cur.job \in Jobs /\ proc[p].at \in Nat
         /\ proc[p].mem[proc[p].cur.job] \in Records /\ ~Lost(proc[p])
         /\ Touching(proc[p]) /\ proc[p].touched = {} /\ proc[p].put = NoJob
         /\ InLoop(disk, ledger, proc[p]) /\ Place(proc[p]) = proc[p].pc
         /\ ledger \in Seq(Rows) /\ disk \in Stores /\ now \in Nat /\ now # Never
<1> DEFINE me == proc[p]
<1>1. Alive(p)
  BY DEF Alive, AtWake
<1>2. /\ me \in Locals /\ me.mem \in Stores /\ me.started \in Nat /\ me.at \in Nat
      /\ p \in Procs /\ Rule(disk, ledger, me)
  BY <1>1, PassKnows, LocalsFields DEF RefireInv
<1>3. me.cur \in Wakes /\ me.cur.job \in Jobs /\ Place(me) = me.pc
  BY WakeTaken DEF Wakes
<1>4. me.mem[me.cur.job] # NoJob
  BY <1>2 DEF TypeInv, SoundInv, Sound, AtWake
<1>5. me.mem[me.cur.job] \in Records /\ ~Lost(me)
  BY <1>2, <1>3, <1>4 DEF Stores, Lost
<1>6. Touching(me) /\ me.touched = {} /\ me.put = NoJob /\ InLoop(disk, ledger, me)
  BY <1>2, <1>5 DEF Rule, Touching, AtWake
<1>7. ledger \in Seq(Rows) /\ disk \in Stores /\ now \in Nat /\ now # Never
  BY PassAssumption DEF TypeInv, TypeOK, Stores, Never
<1> QED BY <1>1, <1>2, <1>3, <1>5, <1>6, <1>7

\* The row that ends the wake at hand, and what it does to a record.
LEMMA WakeEnds ==
  ASSUME TypeInv, WriterInv, RefireInv, NEW p \in RunDue, proc[p].pc \in AtWake,
         NEW state \in States, NEW w, w = proc[p].cur, NEW row, row = FinishedRow(w, state, now),
         Write(row)
  PROVE  /\ row \in Rows /\ row.event = "finished" /\ row.wake = w /\ row.job = w.job
         /\ row.state = state
         /\ ledger' = Append(ledger, row) /\ FinishedIn(ledger', w)
         /\ \A r : Good(ledger, r) => Good(ledger', r)
         /\ \A j : \A r : Covers(ledger, r, j) => Covers(ledger', r, j)
         /\ \A i \in DOMAIN ledger' : ledger'[i].event = "started" /\ ledger'[i].wake = w =>
              proc[p].pc \in {"spawn", "wait"}
         /\ \A i \in DOMAIN ledger' : ledger'[i].ts \in Nat
<1>1. w \in Wakes /\ ledger \in Seq(Rows) /\ now \in Nat
  BY WakeKnows
<1>2. row \in Rows /\ row.event = "finished" /\ row.wake = w /\ row.job = w.job /\ row.state = state
  BY <1>1, RowTypes DEF FinishedRow
<1>3. ledger' = Append(ledger, row)
  BY DEF Write
<1>4. FinishedIn(ledger', w)
  BY <1>1, <1>2, <1>3, FinishedMore
<1>5. \A r : Good(ledger, r) => Good(ledger', r)
  BY <1>1, <1>2, <1>3, GoodMore
<1>6. \A j : \A r : Covers(ledger, r, j) => Covers(ledger', r, j)
  BY <1>1, <1>2, <1>3, CoversMore
<1>7. \A i \in DOMAIN ledger' : ledger'[i].event = "started" /\ ledger'[i].wake = w =>
        proc[p].pc \in {"spawn", "wait"}
  <2>1. /\ \A i \in DOMAIN ledger : ledger'[i] = ledger[i]
        /\ ledger'[Len(ledger')] = row
        /\ \A i \in DOMAIN ledger' : i \in DOMAIN ledger \/ i = Len(ledger')
    BY <1>1, <1>2, <1>3, RowMore
  <2> QED BY <1>2, <2>1, WakeTaken
<1>8. \A i \in DOMAIN ledger' : ledger'[i].ts \in Nat
  <2>1. ledger' \in Seq(Rows)
    BY <1>1, <1>2, <1>3, RowMore
  <2> QED BY <2>1 DEF Rows
<1> QED BY <1>2, <1>3, <1>4, <1>5, <1>6, <1>7, <1>8

\* The re-read under the lock.
LEMMA RecheckRefires ==
  ASSUME TypeInv, WriterInv, RefireInv, NEW p \in RunDue, Recheck(p)
  PROVE  RefireInv'
<1> DEFINE me == proc[p]
           w == me.cur
           j == w.job
<1>0. me.pc = "recheck" /\ me.pc \in AtWake /\ disk' = disk
  BY DEF Recheck, At, AtWake
<1>1. /\ Alive(p) /\ me \in Locals /\ me.mem \in Stores /\ me.started \in Nat
      /\ w \in Wakes /\ j \in Jobs /\ me.mem[j] \in Records /\ ~Lost(me)
      /\ me.touched = {} /\ me.put = NoJob /\ InLoop(disk, ledger, me)
      /\ ledger \in Seq(Rows) /\ disk \in Stores
  BY <1>0, WakeKnows
<1>2. Running(me) = {} /\ Good(ledger, me.mem[j]) /\ Covers(ledger, me.mem[j], j)
  <2>1. Running(me) = {}
    BY <1>0 DEF Running
  <2> HIDE DEF me
  <2> QED BY <1>1, <2>1, NoJobAssumption DEF InLoop
<1> DEFINE executed == FALSE
           r == Stamp(me.mem[j], w, me.started, "cancelled", executed)
           m == Stamped(me, w, me.started, "cancelled", executed, "unlock")
           k == [me EXCEPT !.pc = "unlock"]
           mem == [me.mem EXCEPT ![j] = disk[j]]
           n == [me EXCEPT !.mem = mem, !.pc = "begin"]
           gone == FinishedRow(w, "cancelled", now)
           woken == FinishedRow(w, "overlap", now)
<1>3. \/ Write(gone) /\ Becomes(p, m)
      \/ Write(woken) /\ Becomes(p, k)
      \/ disk[j] # NoJob /\ ledger' = ledger /\ Becomes(p, n)
  BY DEF Recheck, Goto
<1>4. "cancelled" \in States /\ "overlap" \in States
  BY DEF States, UnstampedStates
<1>5. CASE Write(gone) /\ Becomes(p, m)
  <2> HIDE DEF executed
  <2>1. m.pc = "reload" /\ m.ret = "unlock"
    BY <1>1, StampedFields
  <2>2. m.touched = {j} /\ m.put = NoJob
    BY <1>1, StampedRest
  <2>3. m.mem = [me.mem EXCEPT ![j] = r]
    <3>1. me \in Locals /\ m = Stamped(me, w, me.started, "cancelled", executed, "unlock")
      BY <1>1
    <3>2. w.job = j /\ r = Stamp(me.mem[j], w, me.started, "cancelled", executed)
      OBVIOUS
    <3> HIDE DEF me, m, w, r, j
    <3>3. m.mem = [me.mem EXCEPT ![w.job] = Stamp(me.mem[w.job], w, me.started, "cancelled", executed)]
      BY <3>1, StampedMemory
    <3> QED BY <3>2, <3>3
  <2> HIDE DEF m
  <2>4. /\ gone \in Rows /\ gone.event = "finished" /\ gone.job = gone.wake.job
        /\ FinishedIn(ledger', w) /\ Good(ledger', me.mem[j]) /\ Covers(ledger', me.mem[j], j)
        /\ \A i \in DOMAIN ledger' : ~(ledger'[i].event = "started" /\ ledger'[i].wake = w)
        /\ \A i \in DOMAIN ledger' : ledger'[i].ts \in Nat
    <3>1. gone = FinishedRow(w, "cancelled", now) /\ w = proc[p].cur /\ Write(gone)
      BY <1>5
    <3> HIDE DEF gone, w
    <3> QED BY <1>0, <1>2, <1>4, <3>1, WakeEnds
  <2>5. executed \in BOOLEAN /\ ~executed
    BY DEF executed
  <2>6. "cancelled" \in States \cup {"none"}
    BY <1>4
  <2>7. m.pc = "reload" /\ m.mem = [proc[p].mem EXCEPT ![j] = r] /\ Write(gone) /\ Becomes(p, m)
        /\ Place(m) # "gate" /\ proc[p].pc = "recheck" /\ ~Lost(proc[p])
    BY <1>0, <1>1, <1>5, <2>1, <2>3 DEF Place, Saving
  <2> HIDE DEF me, w, j, gone
  <2>8. r \in Records /\ r.started >= me.mem[j].started
    BY <1>1, <2>5, <2>6, StampMoves
  <2>9. Good(ledger', r)
    BY <1>1, <2>4, <2>5, <2>6, StampGood
  <2>10. Covers(ledger', r, j) /\ r # NoJob
    <3>1. r.started \in Nat /\ me.mem[j].started \in Nat
      BY <1>1, <2>8 DEF Records
    <3> HIDE DEF r
    <3> QED BY <2>4, <2>8, <3>1, NoJobAssumption DEF Covers
  <2> HIDE DEF r
  <2> QED BY <1>0, <1>1, <2>1, <2>2, <2>4, <2>7, <2>9, <2>10, RowRefires
<1>6. CASE Write(woken) /\ Becomes(p, k)
  <2>1. k.pc = "unlock" /\ k.mem = me.mem /\ k.touched = me.touched /\ k.put = me.put
    <3> HIDE DEF me
    <3> QED BY <1>1, LocalsFields
  <2> HIDE DEF k
  <2>2. woken \in Rows /\ woken.event = "finished" /\ woken.job = woken.wake.job
    <3>1. woken = FinishedRow(w, "overlap", now) /\ w = proc[p].cur /\ Write(woken)
      BY <1>6
    <3> HIDE DEF woken, w
    <3> QED BY <1>0, <1>4, <3>1, WakeEnds
  <2>3. k.mem = proc[p].mem /\ k.touched = {} /\ k.put = NoJob /\ Place(k) # "gate"
    BY <1>1, <2>1 DEF Place, Saving
  <2> HIDE DEF woken
  <2> QED BY <1>0, <1>1, <1>6, <2>1, <2>2, <2>3, RowRefires
<1>7. CASE disk[j] # NoJob /\ ledger' = ledger /\ Becomes(p, n)
  <2>1. Good(ledger, disk[j]) /\ Covers(ledger, disk[j], j)
    <3>1. Cached(disk, ledger)
      BY DEF RefireInv
    <3>2. j \in Jobs \ (me.touched \cup Running(me)) /\ me.pc # "save"
      BY <1>0, <1>1, <1>2
    <3> HIDE DEF me, j
    <3> QED BY <1>1, <1>7, <3>1, <3>2 DEF Cached, InLoop
  <2>2. w = me.cur /\ mem = [me.mem EXCEPT ![j] = disk[j]]
    OBVIOUS
  <2>3. \A i \in Jobs : mem[i] = IF i = j THEN disk[j] ELSE me.mem[i]
    <3> HIDE DEF me, j
    <3> QED BY <1>1 DEF Stores
  <2> HIDE DEF me, mem, j, w
  <2>4. /\ n.pc = "begin" /\ n.mem = mem /\ n.touched = me.touched /\ n.put = me.put
        /\ n.at = me.at /\ n.started = me.started /\ n.cur = me.cur /\ n.todo = me.todo
    BY <1>1, LocalsFields
  <2> HIDE DEF n
  <2>5. Place(n) = "begin" /\ Running(n) = {}
    BY <2>4 DEF Place, Saving, Running
  <2>6. \A i \in Jobs : n.mem[i] # NoJob => Good(ledger, n.mem[i]) /\ Covers(ledger, n.mem[i], i)
    BY <1>1, <1>2, <2>1, <2>3, <2>4 DEF InLoop
  <2>7. InLoop(disk, ledger, n)
    BY <1>0, <1>1, <1>2, <2>4, <2>5, <2>6 DEF InLoop
  <2>8. Rule(disk, ledger, n)
    BY <1>1, <2>4, <2>7 DEF Rule, Touching, Ended
  <2> QED BY <1>0, <1>7, <2>8, RefireMoves
<1> QED BY <1>3, <1>5, <1>6, <1>7

\* The lock is taken for a job that is due: its last start, if no clock-skew row
\* took it back, is an interval behind.
LEMMA TakeLockRefires ==
  ASSUME TypeInv, WriterInv, RefireInv, NEW p \in RunDue, Alive(p), TakeLock(p)
  PROVE  RefireInv'
<1> DEFINE me == proc[p]
           wake(j) == [proc |-> p, job |-> j, kind |-> "wake"]
           next(j) == [me EXCEPT !.cur = wake(j), !.started = now, !.todo = @ \ {j}, !.pc = "recheck"]
<1>0. /\ me \in Locals /\ me.mem \in Stores /\ me.at \in Nat /\ Rule(disk, ledger, me)
      /\ now # Never /\ p \in Procs /\ ledger \in Seq(Rows) /\ Kept(ledger)
  <2>1. now # Never /\ ledger \in Seq(Rows)
    BY PassAssumption DEF TypeInv, TypeOK, Never
  <2> QED BY <2>1, PassKnows, LocalsFields DEF RefireInv
<1>1. disk' = disk /\ ledger' = ledger
  BY DEF TakeLock, files
<1>2. PICK j \in Jobs : Executes(p, j) /\ Becomes(p, next(j))
  BY DEF TakeLock
<1>3. me.pc \in {"loop", "judge", "gate"} /\ Place(me) = me.pc /\ j \in me.todo /\ j = Min(me.todo)
  BY <1>2, NextJob
<1>4. Due(p, j) /\ me.mem[j] # NoJob
  BY <1>2, <1>3 DEF Executes, Due, At
<1>5. ~Lost(me) /\ me.touched = {} /\ me.put = NoJob /\ Running(me) = {} /\ InLoop(disk, ledger, me)
  <2>1. ~Lost(me)
    BY <1>4 DEF Lost
  <2> HIDE DEF me
  <2> QED BY <1>0, <1>3, <2>1 DEF Rule, Touching, Running
<1>6. \A i \in DOMAIN ledger : LastStart(ledger, j, i) => me.at >= ledger[i].ts + Interval
  <2>1. CASE me.pc = "gate"
    <3> HIDE DEF me
    <3> QED BY <1>3, <1>5, <2>1 DEF InLoop
  <2>2. CASE me.pc # "gate"
    <3>1. IsDue(me.mem[j], me.at)
      BY <1>4, <2>2 DEF Due, At
    <3>2. me.mem[j] \in Records /\ Covers(ledger, me.mem[j], j)
      <4> HIDE DEF me
      <4> QED BY <1>0, <1>4, <1>5 DEF InLoop, Stores
    <3>3. ASSUME NEW i \in DOMAIN ledger, LastStart(ledger, j, i) PROVE me.at >= ledger[i].ts + Interval
      <4> DEFINE ts == ledger[i].ts
                 r == me.mem[j]
      <4>1. ts \in Nat /\ ts # Never /\ r.started >= ts /\ r.started \in Nat
        <5>1. ledger[i] \in Rows /\ ledger[i].event = "started"
          BY <1>0, <3>3 DEF LastStart
        <5>2. ts \in Nat /\ ts # Never
          BY <1>0, <5>1 DEF Rows, Kept
        <5>3. r.started >= ts /\ r.started \in Nat
          BY <3>2, <3>3 DEF Covers, Records
        <5> QED BY <5>2, <5>3
      <4>2. r.started = Never \/ me.at >= r.started + Interval
        BY <3>1 DEF IsDue
      <4>3. Interval \in Nat
        BY RecordsAssumption
      <4> HIDE DEF ts, r
      <4>4. me.at >= ts + Interval
        <5> DEFINE at == me.at
        <5>1. at \in Nat /\ (r.started = Never \/ at >= r.started + Interval)
          BY <1>0, <4>2
        <5> HIDE DEF at
        <5>2. at >= ts + Interval
          BY <4>1, <4>3, <5>1 DEF Never
        <5> QED BY <5>2 DEF at
      <4> QED BY <4>4 DEF ts
    <3> QED BY <3>3
  <2> QED BY <2>1, <2>2
<1> DEFINE w == wake(j)
           n == [me EXCEPT !.cur = w, !.started = now, !.todo = @ \ {j}, !.pc = "recheck"]
<1>7. w.job = j /\ Becomes(p, n)
  BY <1>2
<1> HIDE DEF me, w
<1>8. /\ n.pc = "recheck" /\ n.mem = me.mem /\ n.touched = me.touched /\ n.put = me.put
      /\ n.at = me.at /\ n.started = now /\ n.cur = w
  BY <1>0, LocalsFields
<1> HIDE DEF n
<1>9. Place(n) = "recheck" /\ Running(n) = {}
  BY <1>8 DEF Place, Saving, Running
<1>10. InLoop(disk, ledger, n)
  BY <1>0, <1>3, <1>5, <1>6, <1>7, <1>8, <1>9 DEF InLoop
<1>11. Rule(disk, ledger, n)
  BY <1>5, <1>8, <1>10 DEF Rule, Touching, Ended
<1> QED BY <1>1, <1>7, <1>11, RefireMoves

\* The started row: from here on the stamp is owed.  And the executor starts.
LEMMA StartRefires ==
  ASSUME TypeInv, WriterInv, RefireInv, NEW p \in RunDue, Begin(p) \/ Spawn(p)
  PROVE  RefireInv'
<1> DEFINE me == proc[p]
           w == me.cur
           j == w.job
<1>0. me.pc \in {"begin", "spawn"} /\ me.pc \in AtWake /\ disk' = disk
  BY DEF Begin, Spawn, At, AtWake, files
<1>1. /\ Alive(p) /\ me \in Locals /\ me.mem \in Stores /\ me.started \in Nat
      /\ w \in Wakes /\ j \in Jobs /\ ~Lost(me)
      /\ me.touched = {} /\ me.put = NoJob /\ InLoop(disk, ledger, me)
      /\ ledger \in Seq(Rows) /\ Kept(ledger) /\ Cached(disk, ledger)
  BY <1>0, WakeKnows DEF RefireInv
<1>2. CASE Spawn(p)
  <2> DEFINE n == [me EXCEPT !.pc = "wait"]
  <2>1. me.pc = "spawn" /\ ledger' = ledger /\ Becomes(p, n)
    BY <1>2 DEF Spawn, files, Goto, At
  <2> HIDE DEF me
  <2>2. /\ n.pc = "wait" /\ n.mem = me.mem /\ n.touched = me.touched /\ n.put = me.put
        /\ n.started = me.started /\ n.cur = me.cur
    BY <1>1, LocalsFields
  <2> HIDE DEF n
  <2>3. Place(n) = "wait" /\ Running(n) = Running(me)
    BY <2>1, <2>2 DEF Place, Saving, Running
  <2>4. InLoop(disk, ledger, n)
    BY <1>0, <1>1, <2>1, <2>2, <2>3 DEF InLoop
  <2>5. Rule(disk, ledger, n)
    BY <1>1, <2>2, <2>4 DEF Rule, Touching, Ended
  <2> QED BY <1>0, <2>1, <2>5, RefireMoves
<1>3. CASE Begin(p)
  <2> DEFINE row == StartedRow(w, me.started)
             n == [me EXCEPT !.pc = "spawn"]
  <2>1. me.pc = "begin" /\ ledger' = Append(ledger, row) /\ Becomes(p, n)
    BY <1>3 DEF Begin, Write, Goto, At
  <2>2. me.started # Never /\ OpenAt(ledger) = {} /\ Running(me) = {}
    <3>1. Running(me) = {}
      BY <2>1 DEF Running
    <3> HIDE DEF me
    <3> QED BY <1>0, <1>1, <2>1, <3>1 DEF InLoop
  <2>3. /\ row \in Rows /\ row.event = "started" /\ row.wake = w /\ row.job = w.job
        /\ row.ts = me.started /\ w.kind = "wake" /\ ~FinishedIn(ledger, w)
    <3>1. w.kind = "wake" /\ ~FinishedIn(ledger, w)
      BY <1>0, <2>1, WakeTaken DEF FinishedIn
    <3> QED BY <1>1, <3>1, RowTypes DEF StartedRow
  <2>4. \A q \in RunDue \ {p} : ~Alive(q)
    BY <1>1, PassKnows
  <2>5. j = w.job /\ w = me.cur /\ row = StartedRow(w, me.started)
    OBVIOUS
  <2> HIDE DEF me, w, j, row
  <2>6. /\ n.pc = "spawn" /\ n.mem = me.mem /\ n.touched = me.touched /\ n.put = me.put
        /\ n.started = me.started /\ n.cur = me.cur
    BY <1>1, LocalsFields
  <2> HIDE DEF n
  <2>7. Place(n) = "spawn" /\ Running(n) = {j}
    BY <2>5, <2>6 DEF Place, Saving, Running
  <2>8. /\ ledger'[Len(ledger')] = row /\ Len(ledger') \in DOMAIN ledger' /\ Len(ledger') # 0
        /\ \A i \in DOMAIN ledger : ledger'[i] = ledger[i] /\ i \in DOMAIN ledger'
        /\ \A i \in DOMAIN ledger' : i \in DOMAIN ledger \/ i = Len(ledger')
    BY <1>1, <2>1, <2>3, RowMore
  <2>9. \A r : Good(ledger, r) => Good(ledger', r)
    BY <1>1, <2>1, <2>3, GoodMore
  <2>10. \A i \in Jobs \ {j} : \A r : Covers(ledger, r, i) => Covers(ledger', r, i)
    BY <1>1, <2>1, <2>3, <2>5, CoversMore
  <2>11. Kept(ledger')
    <3>1. \A x : FinishedIn(ledger, x) => FinishedIn(ledger', x)
      BY <1>1, <2>1, <2>3, FinishedMore
    <3>2. OpenAt(ledger') \subseteq {Len(ledger')}
      BY <2>2, <2>8, <3>1 DEF OpenAt
    <3> QED BY <1>1, <2>2, <2>3, <2>8, <3>2 DEF Kept
  <2>12. Cached(disk', ledger')
    <3>1. ~FinishedIn(ledger', w)
      BY <1>1, <2>1, <2>3, FinishedMore
    <3>2. Owed(ledger', j)
      BY <2>3, <2>5, <2>8, <3>1 DEF Owed, OpenAt
    <3> QED BY <1>0, <1>1, <2>2, <2>9, <2>10, <2>1, <3>2 DEF Cached, InLoop
  <2>13. InLoop(disk, ledger', n)
    <3>1. \A i \in Jobs : n.mem[i] # NoJob =>
            Good(ledger', n.mem[i]) /\ (i # j => Covers(ledger', n.mem[i], i))
      BY <1>1, <2>2, <2>6, <2>9, <2>10 DEF InLoop
    <3>2. \A i \in Jobs \ {j} : disk[i] # NoJob => Covers(ledger', disk[i], i)
      BY <1>1, <2>1, <2>2, <2>10 DEF InLoop
    <3> QED BY <2>2, <2>5, <2>6, <2>7, <2>8, <3>1, <3>2 DEF InLoop
  <2>14. Rule(disk', ledger', n)
    BY <1>0, <1>1, <2>6, <2>13 DEF Rule, Touching, Ended
  <2> QED BY <2>1, <2>4, <2>11, <2>12, <2>14, RefireGoesOn
<1> QED BY <1>2, <1>3

\* The finished row, and the stamp of its wake.
LEMMA FinishRefires ==
  ASSUME TypeInv, WriterInv, RefireInv, NEW p \in RunDue, Finish(p)
  PROVE  RefireInv'
<1> DEFINE me == proc[p]
           w == me.cur
           j == w.job
           executed == TRUE
<1>0. me.pc = "wait" /\ me.pc \in AtWake /\ disk' = disk
  BY DEF Finish, At, AtWake
<1>1. /\ Alive(p) /\ me \in Locals /\ me.mem \in Stores /\ me.started \in Nat
      /\ w \in Wakes /\ j \in Jobs /\ me.mem[j] \in Records /\ ~Lost(me)
      /\ me.touched = {} /\ me.put = NoJob /\ InLoop(disk, ledger, me)
      /\ ledger \in Seq(Rows) /\ Kept(ledger) /\ Cached(disk, ledger) /\ OnceInv(ledger)
      /\ \A q \in RunDue \ {p} : ~Alive(q)
  BY <1>0, WakeKnows, PassKnows DEF RefireInv, WriterInv
<1>2. PICK state \in Outcomes(w) :
        /\ Write(FinishedRow(w, state, now))
        /\ Becomes(p, Stamped(me, w, me.started, state, executed, "unlock"))
  BY DEF Finish
<1>3. state \in States /\ state \notin UnstampedStates
  BY DEF Outcomes, States, BadStates, UnstampedStates
<1> DEFINE row == FinishedRow(w, state, now)
           r == Stamp(me.mem[j], w, me.started, state, executed)
           n == Stamped(me, w, me.started, state, executed, "unlock")
<1>4. /\ n.pc = "reload" /\ n.ret = "unlock" /\ n.touched = {j} /\ n.put = NoJob /\ Becomes(p, n)
  <2> HIDE DEF executed
  <2>1. n.pc = "reload" /\ n.ret = "unlock"
    BY <1>1, StampedFields
  <2>2. n.touched = {w.job} /\ n.put = me.put
    BY <1>1, StampedRest
  <2>3. Becomes(p, n) /\ j = w.job
    BY <1>2
  <2> HIDE DEF n, j
  <2> QED BY <1>1, <2>1, <2>2, <2>3
<1>5. n.mem = [me.mem EXCEPT ![j] = r]
  <2>1. me \in Locals /\ n = Stamped(me, w, me.started, state, executed, "unlock")
    BY <1>1
  <2>2. w.job = j /\ r = Stamp(me.mem[j], w, me.started, state, executed)
    OBVIOUS
  <2> HIDE DEF me, w, j, n, r, executed
  <2>3. n.mem = [me.mem EXCEPT ![w.job] = Stamp(me.mem[w.job], w, me.started, state, executed)]
    BY <2>1, StampedMemory
  <2> QED BY <2>2, <2>3
<1>6. /\ row \in Rows /\ row.event = "finished" /\ row.wake = w /\ row.job = j /\ row.state = state
      /\ w.job = j /\ w.kind = "wake" /\ ledger' = Append(ledger, row) /\ FinishedIn(ledger', w)
      /\ \A x : Good(ledger, x) => Good(ledger', x)
      /\ \A i : \A x : Covers(ledger, x, i) => Covers(ledger', x, i)
  <2>1. row = FinishedRow(w, state, now) /\ w = proc[p].cur /\ Write(row) /\ w.job = j
    BY <1>2
  <2>2. w.kind = "wake"
    BY <1>0, WakeTaken
  <2> HIDE DEF row, w, j
  <2> QED BY <1>0, <1>3, <2>1, <2>2, WakeEnds
\* An executed wake stamps its start as it is.
<1>7. executed \in BOOLEAN /\ (me.started # Never => r.started = me.started)
  <2> DEFINE x == me.mem[j]
             ts == me.started
             fails == IF state \in BadStates THEN x.fails + 1 ELSE IF state = "success" THEN 0 ELSE x.fails
             y == [x EXCEPT !.started = ts, !.wake = w, !.state = state, !.fails = fails]
  <2>1. x \in Records /\ executed \in BOOLEAN
    BY <1>1
  <2>2. ts # Never => r = y
    BY DEF Stamp
  <2> HIDE DEF x, ts, fails, r, executed
  <2>3. y.started = ts
    BY <2>1 DEF Records
  <2> QED BY <2>1, <2>2, <2>3 DEF ts
<1>8. w = me.cur /\ j = w.job
  OBVIOUS
<1> HIDE DEF me, w, j, row, executed, n
\* The last row of the ledger so far is the wake's started row, and its only one.
<1>9. /\ Len(ledger) \in DOMAIN ledger /\ ledger[Len(ledger)] = StartedRow(w, me.started)
      /\ me.started # Never
  <2>1. Len(ledger) # 0 /\ ledger[Len(ledger)] = StartedRow(w, me.started) /\ me.started # Never
    BY <1>0, <1>1, <1>8 DEF InLoop
  <2> QED BY <1>1, <2>1
<1> DEFINE last == Len(ledger)
<1>10. /\ last \in DOMAIN ledger /\ ledger[last].event = "started" /\ ledger[last].wake = w
       /\ ledger[last].job = j /\ ledger[last].ts = me.started
       /\ \A i \in DOMAIN ledger : i = last \/ i < last
  <2>1. ledger[last].event = "started" /\ ledger[last].wake = w
        /\ ledger[last].job = j /\ ledger[last].ts = me.started
    BY <1>8, <1>9 DEF StartedRow
  <2>2. \A i \in DOMAIN ledger : i = last \/ i < last
    BY <1>1
  <2> QED BY <1>9, <2>1, <2>2
<1> HIDE DEF last
<1>11. /\ \A i \in DOMAIN ledger : i \in DOMAIN ledger' /\ ledger'[i] = ledger[i] /\ i < Len(ledger')
       /\ Len(ledger') \in DOMAIN ledger' /\ ledger'[Len(ledger')] = row /\ Len(ledger') # 0
       /\ \A i \in DOMAIN ledger' : i \in DOMAIN ledger \/ i = Len(ledger')
       /\ \A i \in DOMAIN ledger' : ledger'[i].ts \in Nat
  <2>1. ledger' \in Seq(Rows) /\ Len(ledger') # 0
    BY <1>1, <1>6, RowMore
  <2>2. \A i \in DOMAIN ledger' : ledger'[i].ts \in Nat
    BY <2>1 DEF Rows
  <2> QED BY <1>1, <1>6, <2>1, <2>2, RowMore
<1>12. \A i \in DOMAIN ledger' : ledger'[i].event = "started" /\ ledger'[i].wake = w => ledger'[i].ts = me.started
  BY <1>1, <1>6, <1>10, <1>11 DEF OnceInv
<1>13. LastStart(ledger', j, last)
  <2>1. \A k \in DOMAIN ledger' : k > last => k = Len(ledger')
    <3>1. ASSUME NEW k \in DOMAIN ledger, k > last PROVE FALSE
      <4>1. k \in Nat /\ last \in Nat /\ (k = last \/ k < last)
        BY <1>1, <1>10, <3>1
      <4> QED BY <3>1, <4>1
    <3> QED BY <1>11, <3>1
  <2> QED BY <1>6, <1>10, <1>11, <2>1 DEF LastStart
<1>14. OpenAt(ledger') = {} /\ Kept(ledger')
  <2>1. \A x : FinishedIn(ledger, x) => FinishedIn(ledger', x)
    BY <1>1, <1>6, FinishedMore
  <2>2. OpenAt(ledger') = {}
    <3>1. ASSUME NEW i \in OpenAt(ledger') PROVE FALSE
      <4>1. i \in DOMAIN ledger /\ i \in OpenAt(ledger)
        BY <1>6, <1>11, <2>1, <3>1 DEF OpenAt
      <4>2. i = last
        BY <1>1, <4>1 DEF Kept, last
      <4> QED BY <1>6, <1>10, <1>11, <3>1, <4>2 DEF OpenAt
    <3> QED BY <3>1
  <2> QED BY <1>1, <1>6, <1>11, <2>2 DEF Kept
<1>15. Owed(ledger', j)
  BY <1>3, <1>6, <1>10, <1>11, <1>13 DEF Owed
<1>16. \A i \in Jobs \ {j} : disk[i] # NoJob => Covers(ledger', disk[i], i)
  <2>1. Running(me) = {j}
    BY <1>0, <1>8 DEF Running
  <2> QED BY <1>0, <1>1, <1>6, <2>1 DEF InLoop
<1>17. Cached(disk', ledger')
  BY <1>0, <1>1, <1>6, <1>15, <1>16 DEF Cached
<1>18. state \in States \cup {"none"}
  BY <1>3
<1>19. Good(ledger', r) /\ Covers(ledger', r, j) /\ r # NoJob
  <2>1. r \in Records /\ r.started = me.started
    <3>1. r \in Records
      BY <1>1, <1>7, <1>18, StampMoves
    <3> QED BY <1>7, <1>9, <3>1
  <2>2. Good(ledger, me.mem[j])
    BY <1>1, NoJobAssumption DEF InLoop
  <2>3. Good(ledger', me.mem[j])
    BY <1>6, <2>2
  <2>4. Good(ledger', r)
    BY <1>1, <1>6, <1>7, <1>12, <1>18, <2>3, StampGood
  <2>5. \A i \in DOMAIN ledger' : LastStart(ledger', j, i) => i = last
    <3>1. ASSUME NEW i \in DOMAIN ledger', LastStart(ledger', j, i), i # last PROVE FALSE
      <4>1. i \in DOMAIN ledger
        BY <1>6, <1>11, <3>1 DEF LastStart
      <4>2. i < last
        BY <1>10, <3>1, <4>1
      <4>3. last \in DOMAIN ledger' /\ ledger'[last] = ledger[last] /\ last > i
        BY <1>1, <1>10, <1>11, <4>1, <4>2
      <4> QED BY <1>10, <3>1, <4>3 DEF LastStart
    <3> QED BY <3>1
  <2>6. r.started >= ledger'[last].ts
    BY <1>1, <1>10, <1>11, <2>1
  <2> QED BY <2>1, <2>4, <2>5, <2>6, NoJobAssumption DEF Covers
<1> HIDE DEF r
<1>20. \A i \in Jobs : n.mem[i] = IF i = j THEN r ELSE me.mem[i]
  BY <1>1, <1>5 DEF Stores
<1>21. \A i \in Jobs : n.mem[i] # NoJob => Good(ledger', n.mem[i]) /\ Covers(ledger', n.mem[i], i)
  <2>1. Running(me) = {j}
    BY <1>0, <1>8 DEF Running
  <2> QED BY <1>1, <1>6, <1>19, <1>20, <2>1 DEF InLoop
<1>22. Place(n) = "unlock" /\ Running(n) = {}
  BY <1>4 DEF Place, Saving, Running
<1>23. InLoop(disk, ledger', n)
  BY <1>4, <1>14, <1>16, <1>21, <1>22 DEF InLoop, AtWake
<1>24. Touching(n)
  BY <1>1, <1>4, <1>19, <1>20 DEF Touching
<1>25. Rule(disk', ledger', n)
  BY <1>0, <1>4, <1>23, <1>24 DEF Rule, Ended
<1> QED BY <1>1, <1>4, <1>14, <1>17, <1>25, RefireGoesOn

\* What is known of a pass in reconcile.
LEMMA CloseKnows ==
  ASSUME TypeInv, WriterInv, RefireInv, NEW p \in RunDue, proc[p].pc \in {"rows", "close"}
  PROVE  /\ Alive(p) /\ p \in Procs /\ proc[p] \in Locals /\ proc[p].mem \in Stores
         /\ proc[p].rows \in Nat /\ proc[p].rows <= Len(ledger)
         /\ proc[p].touched \in SUBSET Jobs /\ Touching(proc[p]) /\ proc[p].put = NoJob
         /\ InReconcile(disk, ledger, proc[p])
         /\ ledger \in Seq(Rows) /\ OnceInv(ledger) /\ Kept(ledger) /\ Cached(disk, ledger)
         /\ \A q \in RunDue \ {p} : ~Alive(q)
         /\ \A i \in DOMAIN ledger : ledger[i].event \in {"started", "finished"} =>
              ledger[i].wake \in Wakes /\ ledger[i].wake.proc # p
<1> DEFINE me == proc[p]
<1>1. Alive(p)
  BY DEF Alive
<1>2. /\ me \in Locals /\ me.mem \in Stores /\ me.rows \in Nat /\ me.touched \in SUBSET Jobs
      /\ Rule(disk, ledger, me) /\ p \in Procs /\ RowOf(ledger, p, me)
      /\ \A q \in RunDue \ {p} : ~Alive(q)
  BY <1>1, PassKnows, LocalsFields DEF RefireInv
<1>3. me.rows <= Len(ledger)
  BY <1>2 DEF TypeInv, SoundInv
<1>4. Touching(me) /\ me.put = NoJob /\ InReconcile(disk, ledger, me)
  BY <1>2 DEF Rule, Touching
<1>5. ledger \in Seq(Rows) /\ OnceInv(ledger) /\ Kept(ledger) /\ Cached(disk, ledger)
  BY DEF TypeInv, TypeOK, WriterInv, RefireInv
<1>6. \A i \in DOMAIN ledger : ledger[i].event \in {"started", "finished"} =>
        ledger[i].wake \in Wakes /\ ledger[i].wake.proc # p
  <2>1. Place(me) \in Early
    BY DEF Place, Saving, Early
  <2>2. \A i \in DOMAIN ledger : ledger[i].event \in {"started", "finished"} => ledger[i].wake \in Wakes
    BY RowType DEF TypeInv
  <2> QED BY <1>2, <2>1, <2>2 DEF RowOf, Own
<1> QED BY <1>1, <1>2, <1>3, <1>4, <1>5, <1>6

\* reconcile reads the ledger.
LEMMA ReadRowsRefires ==
  ASSUME TypeInv, WriterInv, RefireInv, NEW p \in RunDue, ReadRows(p)
  PROVE  RefireInv'
<1> DEFINE me == proc[p]
           n == [me EXCEPT !.rows = Len(ledger), !.scan = 1, !.pc = "close"]
<1>0. /\ me.pc = "rows" /\ disk' = disk /\ ledger' = ledger /\ Becomes(p, n)
  BY DEF ReadRows, At, files
<1>1. /\ me \in Locals /\ Touching(me) /\ me.put = NoJob /\ InReconcile(disk, ledger, me)
      /\ ledger \in Seq(Rows)
  BY <1>0, CloseKnows
<1> HIDE DEF me
<1>2. /\ n.pc = "close" /\ n.rows = Len(ledger) /\ n.scan = 1 /\ n.mem = me.mem
      /\ n.touched = me.touched /\ n.put = me.put
  BY <1>1, LocalsFields
<1> HIDE DEF n
<1>3. \A i \in OpenAt(ledger) : i \in OpenAt(SubSeq(ledger, 1, n.rows)) /\ i >= n.scan
  <2> DEFINE snapshot == SubSeq(ledger, 1, n.rows)
  <2>1. Len(ledger) \in Nat /\ TypeOK /\ DOMAIN ledger = 1..Len(ledger)
    BY <1>1 DEF TypeInv
  <2>2. DOMAIN snapshot = DOMAIN ledger /\ \A i \in DOMAIN ledger : snapshot[i] = ledger[i] /\ i >= 1
    BY <1>2, <2>1, SnapshotType
  <2> HIDE DEF snapshot
  <2>3. \A i \in OpenAt(ledger) : i \in OpenAt(snapshot) /\ i >= 1
    BY <2>2 DEF OpenAt, FinishedIn
  <2> QED BY <1>2, <2>3 DEF snapshot
<1>4. \A k \in DOMAIN ledger : ~(k > n.rows)
  BY <1>1, <1>2
<1>5. InReconcile(disk, ledger, n)
  BY <1>0, <1>1, <1>2, <1>3, <1>4 DEF InReconcile
<1>6. Rule(disk, ledger, n)
  BY <1>0, <1>1, <1>2, <1>5 DEF Rule, Touching, Ended
<1> QED BY <1>0, <1>2, <1>6, RefireMoves

\* A wake that is open when a reconcile judges it is dead: it is not of this
\* pass, and no other lives.
LEMMA OpenIsDead ==
  ASSUME TypeInv, WriterInv, Alone, RefireInv, NEW p \in RunDue, proc[p].pc = "close",
         NEW i \in DOMAIN ledger, ledger[i].event = "started"
  PROVE  ~WakeLives(ledger[i].wake)
<1> DEFINE q == ledger[i].wake.proc
<1>1. q \in Procs /\ q # p
  BY CloseKnows DEF Wakes
<1>2. CASE q \in RunDue
  BY <1>1, <1>2, CloseKnows DEF WakeLives
<1>3. CASE q \notin RunDue
  <2>1. proc[q].pc = "done"
    BY <1>1, <1>3 DEF Alone, WriterInv, PlaceInv
  <2> QED BY <2>1 DEF WakeLives, Alive
<1> QED BY <1>2, <1>3

\* reconcile closes the one wake that is open, and stamps its job.
LEMMA CloseRefires ==
  ASSUME TypeInv, WriterInv, Alone, RefireInv, NEW p \in RunDue, CloseOrphan(p)
  PROVE  RefireInv'
<1> DEFINE me == proc[p]
           i == Min(ToJudge(me))
           w == ledger[i].wake
           j == w.job
           ts == ledger[i].ts
           executed == FALSE
           row == FinishedRow(w, "orphaned", now)
           r == Stamp(me.mem[j], w, ts, "orphaned", executed)
           mem == [me.mem EXCEPT ![j] = r]
           m == [me EXCEPT !.scan = i + 1]
           n == [m EXCEPT !.mem = mem, !.touched = @ \cup {j}, !.notices = @ \cup {j}]
<1>0. me.pc = "close" /\ disk' = disk /\ ToJudge(me) # {}
  BY DEF CloseOrphan, At
<1>1. /\ me \in Locals /\ me.mem \in Stores /\ me.rows \in Nat /\ me.rows <= Len(ledger)
      /\ me.touched \in SUBSET Jobs /\ Touching(me) /\ me.put = NoJob
      /\ InReconcile(disk, ledger, me) /\ ledger \in Seq(Rows) /\ OnceInv(ledger) /\ Kept(ledger)
      /\ Cached(disk, ledger) /\ \A q \in RunDue \ {p} : ~Alive(q)
      /\ p \in Procs /\ now \in Nat
  BY <1>0, CloseKnows DEF TypeInv, TypeOK
<1>2. /\ i \in DOMAIN ledger /\ ledger[i].event = "started" /\ w \in Wakes /\ j \in Jobs
      /\ ts \in Nat /\ ~FinishedIn(ledger, w)
  <2>1. i \in ToJudge(me)
    BY <1>0, <1>1, ToJudgeType
  <2>2. ~FinishedIn(ledger, w)
    BY <1>0, <2>1 DEF WriterInv, CloseInv
  <2>3. i \in DOMAIN ledger /\ ledger[i].event = "started" /\ w \in Wakes /\ ts \in Nat
    BY <1>1, <2>1, ToJudgeType
  <2> QED BY <2>2, <2>3 DEF Wakes
<1>3. ~WakeLives(w)
  BY <1>0, <1>2, OpenIsDead
<1>4. /\ Write(row)
      /\ me.mem[j] = NoJob => Becomes(p, m)
      /\ me.mem[j] # NoJob => Becomes(p, n)
  <2>1. n = [m EXCEPT !.mem[j] = Stamp(@, w, ts, "orphaned", FALSE),
                      !.touched = @ \cup {j}, !.notices = @ \cup {j}]
    <3>1. m.mem = me.mem /\ m \in Locals
      <4> HIDE DEF i, me
      <4>1. i + 1 \in Nat
        BY <1>1, <1>2
      <4> QED BY <1>1, <4>1, LocalsFields
    <3>2. [m.mem EXCEPT ![j] = Stamp(@, w, ts, "orphaned", FALSE)] = mem
      BY <3>1
    <3> HIDE DEF m, me, mem, j, w, ts
    <3> QED BY <3>2
  <2> HIDE DEF n
  <2> QED BY <1>3, <2>1 DEF CloseOrphan
<1>5. "orphaned" \in States \cup {"none"} /\ "orphaned" \notin UnstampedStates
  BY DEF States, BadStates, UnstampedStates
<1>6. executed \in BOOLEAN /\ ~executed
  OBVIOUS
<1>7. /\ m.pc = "close" /\ m.rows = me.rows /\ m.mem = me.mem /\ m.touched = me.touched
      /\ m.put = me.put /\ n.pc = "close" /\ n.rows = me.rows /\ n.mem = mem
      /\ n.touched = me.touched \cup {j} /\ n.put = me.put
  <2> HIDE DEF me, i, mem, j
  <2>1. /\ m.pc = "close" /\ m.rows = me.rows /\ m.mem = me.mem /\ m.touched = me.touched
        /\ m.put = me.put
    BY <1>0, <1>1, LocalsFields
  <2>2. /\ n.pc = "close" /\ n.rows = me.rows /\ n.mem = mem
        /\ n.touched = me.touched \cup {j} /\ n.put = me.put
    BY <1>0, <1>1, LocalsFields
  <2> QED BY <2>1, <2>2
<1>8. /\ row \in Rows /\ row.event = "finished" /\ row.wake = w /\ row.job = j
      /\ row.state = "orphaned" /\ ledger' = Append(ledger, row)
  <2>1. "orphaned" \in States
    BY DEF States, BadStates
  <2> HIDE DEF w
  <2>2. row \in Rows
    BY <1>1, <1>2, <2>1, RowTypes
  <2> QED BY <1>4, <2>2 DEF Write, FinishedRow
<1>9. w = ledger[i].wake /\ ts = ledger[i].ts /\ j = w.job
  OBVIOUS
<1> HIDE DEF me, i, w, j, ts, row, executed, m, n
<1>10. /\ \A x \in DOMAIN ledger : x \in DOMAIN ledger' /\ ledger'[x] = ledger[x] /\ x < Len(ledger')
       /\ Len(ledger') \in DOMAIN ledger' /\ ledger'[Len(ledger')] = row /\ Len(ledger') # 0
       /\ \A x \in DOMAIN ledger' : x \in DOMAIN ledger \/ x = Len(ledger')
       /\ \A x \in DOMAIN ledger' : ledger'[x].ts \in Nat
  <2>1. ledger' \in Seq(Rows) /\ Len(ledger') # 0
    BY <1>1, <1>8, RowMore
  <2>2. \A x \in DOMAIN ledger' : ledger'[x].ts \in Nat
    BY <2>1 DEF Rows
  <2> QED BY <1>1, <1>8, <2>1, <2>2, RowMore
\* The open wake is that of the last row.
<1>11. /\ i = Len(ledger) /\ ledger[i].job = j /\ w.kind = "wake"
       /\ \A x \in DOMAIN ledger : x = i \/ x < i
  <2>1. i \in OpenAt(ledger) /\ ledger[i].job = j /\ w.kind = "wake"
    BY <1>1, <1>2, <1>9 DEF OpenAt, Kept
  <2>2. i = Len(ledger)
    BY <1>1, <2>1 DEF Kept
  <2>3. \A x \in DOMAIN ledger : x = i \/ x < i
    BY <1>1, <2>2
  <2> QED BY <2>1, <2>2, <2>3
<1>12. FinishedIn(ledger', w) /\ \A x : FinishedIn(ledger, x) => FinishedIn(ledger', x)
  BY <1>1, <1>8, FinishedMore
<1>13. /\ \A x : Good(ledger, x) => Good(ledger', x)
       /\ \A k : \A x : Covers(ledger, x, k) => Covers(ledger', x, k)
  BY <1>1, <1>8, GoodMore, CoversMore
<1>14. OpenAt(ledger') = {} /\ Kept(ledger')
  <2>1. ASSUME NEW x \in OpenAt(ledger') PROVE FALSE
    <3>1. x \in DOMAIN ledger /\ x \in OpenAt(ledger)
      BY <1>8, <1>10, <1>12, <2>1 DEF OpenAt
    <3>2. x = i
      BY <1>1, <1>11, <3>1 DEF Kept
    <3> QED BY <1>2, <1>9, <1>10, <1>12, <2>1, <3>2 DEF OpenAt
  <2> QED BY <1>1, <1>8, <1>9, <1>10, <2>1 DEF Kept
<1>15. LastStart(ledger', j, i) /\ \A x \in DOMAIN ledger' : LastStart(ledger', j, x) => x = i
  <2>1. \A k \in DOMAIN ledger' : k > i => k = Len(ledger')
    <3>1. ASSUME NEW k \in DOMAIN ledger, k > i PROVE FALSE
      <4>1. k \in Nat /\ i \in Nat /\ (k = i \/ k < i)
        BY <1>1, <1>11, <3>1
      <4> QED BY <3>1, <4>1
    <3> QED BY <1>10, <3>1
  <2>2. LastStart(ledger', j, i)
    BY <1>2, <1>8, <1>10, <1>11, <2>1 DEF LastStart
  <2>3. ASSUME NEW x \in DOMAIN ledger', LastStart(ledger', j, x), x # i PROVE FALSE
    <3>1. x \in DOMAIN ledger
      BY <1>8, <1>10, <2>3 DEF LastStart
    <3>2. i \in DOMAIN ledger' /\ i > x
      BY <1>1, <1>2, <1>10, <1>11, <2>3, <3>1
    <3> QED BY <1>2, <1>10, <1>11, <2>3, <3>2 DEF LastStart
  <2> QED BY <2>2, <2>3
\* So nothing was owed to another job, and the stamp of this one is owed now.
<1>16. \A k \in Jobs \ {j} : ~Owed(ledger, k)
  BY <1>11 DEF Owed
<1>17. Owed(ledger', j)
  BY <1>2, <1>5, <1>8, <1>9, <1>10, <1>15 DEF Owed
<1>18. Cached(disk', ledger')
  BY <1>0, <1>1, <1>13, <1>16, <1>17 DEF Cached
<1>19. me.mem[j] # NoJob => r # NoJob /\ Good(ledger', r) /\ Covers(ledger', r, j)
  <2> SUFFICES ASSUME me.mem[j] # NoJob PROVE r # NoJob /\ Good(ledger', r) /\ Covers(ledger', r, j)
    OBVIOUS
  <2>1. me.mem[j] \in Records
    BY <1>1, <1>2 DEF Stores
  <2>2. r \in Records /\ r.started >= ts
    BY <1>2, <1>5, <1>6, <2>1, StampMoves
  <2>3. Good(ledger', me.mem[j])
    BY <1>1, <1>2, <1>13 DEF InReconcile
  <2>4. \A x \in DOMAIN ledger' : ledger'[x].event = "started" /\ ledger'[x].wake = w => ledger'[x].ts = ts
    <3>1. \A x \in DOMAIN ledger : ledger[x].event = "started" /\ ledger[x].wake = w => x = i
      BY <1>1, <1>2, <1>9 DEF OnceInv
    <3> QED BY <1>8, <1>9, <1>10, <3>1
  <2>5. Good(ledger', r)
    BY <1>2, <1>5, <1>6, <1>12, <2>1, <2>3, <2>4, StampGood
  <2>6. r.started >= ledger'[i].ts
    BY <1>2, <1>9, <1>10, <2>2
  <2> QED BY <1>15, <2>2, <2>5, <2>6, NoJobAssumption DEF Covers
<1> HIDE DEF r
<1>20. \A k \in Jobs : mem[k] = IF k = j THEN r ELSE me.mem[k]
  BY <1>1 DEF Stores
<1>21. \A k \in Jobs \ {j} : me.mem[k] # NoJob => Good(ledger', me.mem[k]) /\ Covers(ledger', me.mem[k], k)
  BY <1>1, <1>13, <1>16 DEF InReconcile
<1>22. \A k \in DOMAIN ledger' : k > me.rows => ledger'[k].event = "finished"
  BY <1>0, <1>1, <1>8, <1>10 DEF InReconcile
<1> HIDE DEF mem
<1>23. ASSUME me.mem[j] = NoJob PROVE Rule(disk', ledger', m)
  <2>1. InReconcile(disk, ledger', m)
    BY <1>0, <1>1, <1>7, <1>14, <1>21, <1>22, <1>23 DEF InReconcile
  <2> QED BY <1>0, <1>1, <1>7, <2>1 DEF Rule, Touching, Ended
<1>24. ASSUME me.mem[j] # NoJob PROVE Rule(disk', ledger', n)
  <2>1. \A k \in Jobs : n.mem[k] # NoJob => Good(ledger', n.mem[k]) /\ Covers(ledger', n.mem[k], k)
    BY <1>7, <1>19, <1>20, <1>21, <1>24
  <2>2. \A k \in Jobs \ n.touched : n.mem[k] = disk[k]
    BY <1>1, <1>7, <1>20 DEF InReconcile
  <2>3. InReconcile(disk, ledger', n)
    BY <1>7, <1>14, <1>22, <2>1, <2>2 DEF InReconcile
  <2>4. \A k \in n.touched : n.mem[k] # NoJob
    BY <1>1, <1>2, <1>7, <1>19, <1>20, <1>24 DEF Touching
  <2> QED BY <1>0, <1>1, <1>7, <2>3, <2>4 DEF Rule, Touching, Ended
<1>25. m.pc # "done" /\ n.pc # "done"
  BY <1>7
<1>26. CASE me.mem[j] = NoJob
  BY <1>1, <1>4, <1>14, <1>18, <1>23, <1>26, RefireGoesOn
<1>27. CASE me.mem[j] # NoJob
  BY <1>1, <1>4, <1>14, <1>18, <1>24, <1>27, RefireGoesOn
<1> QED BY <1>26, <1>27

\* The start of a wake is what its started row says.
LEMMA StartOfIs ==
  ASSUME NEW rows, OnceInv(rows), NEW i \in DOMAIN rows, NEW k \in DOMAIN rows,
         rows[k].event = "started", rows[k].wake = rows[i].wake
  PROVE  StartOf(rows, i) = rows[k].ts
<1> DEFINE x == CHOOSE x \in DOMAIN rows : rows[x].event = "started" /\ rows[x].wake = rows[i].wake
<1>1. x \in DOMAIN rows /\ rows[x].event = "started" /\ rows[x].wake = rows[i].wake
  OBVIOUS
<1>2. StartOf(rows, i) = rows[x].ts
  BY DEF StartOf
<1> HIDE DEF x
<1>3. x = k
  BY <1>1 DEF OnceInv
<1> QED BY <1>2, <1>3

\* Recovery: what is owed at the end of reconcile is the stamp of the last row,
\* which the ledger holds (_recover_stamps).
LEMMA RecoverCovers ==
  ASSUME TypeInv, WriterInv, RefireInv, NEW p \in RunDue, proc[p].pc = "close",
         OpenAt(ledger) = {}, NEW j \in Jobs, proc[p].mem[j] # NoJob
  PROVE  LET r == RecoverStamps(proc[p].mem, SnapshotOf(proc[p]))[j]
         IN r \in Records /\ Good(ledger, r) /\ Covers(ledger, r, j)
<1> DEFINE me == proc[p]
           rows == SubSeq(ledger, 1, me.rows)
           was == me.mem[j]
           r == RecoverStamps(me.mem, rows)[j]
           i == Max(StampingAt(rows, j))
           w == rows[i].wake
           ts == StartOf(rows, i)
           state == rows[i].state
           executed == FALSE
           stamped == Stamp(was, w, ts, state, executed)
<1>1. /\ me.mem \in Stores /\ me.rows \in Nat /\ me.rows <= Len(ledger)
      /\ InReconcile(disk, ledger, me) /\ ledger \in Seq(Rows) /\ OnceInv(ledger) /\ Kept(ledger)
      /\ TypeOK
  BY CloseKnows DEF TypeInv
<1>2. /\ rows \in Seq(Rows) /\ DOMAIN rows = 1..me.rows
      /\ \A k \in DOMAIN rows : k \in DOMAIN ledger /\ rows[k] = ledger[k]
  BY <1>1, SnapshotType
<1>3. \A k \in DOMAIN ledger : ledger[k] \in Rows /\ ledger[k].ts \in Nat
  BY <1>1 DEF Rows
<1>4. \A k \in DOMAIN rows : rows[k] \in Rows /\ rows[k].ts \in Nat
  <2> HIDE DEF rows
  <2> QED BY <1>2, <1>3
<1>5. was \in Records /\ Good(ledger, was) /\ was.started \in Nat
      /\ (Covers(ledger, was, j) \/ (Owed(ledger, j) /\ me.rows = Len(ledger)))
  <2>1. was \in Records
    BY <1>1 DEF Stores
  <2> HIDE DEF me
  <2> QED BY <1>1, <2>1 DEF InReconcile, Records, me
<1>6. r = IF StampingAt(rows, j) # {} /\ Behind(was, rows, i) THEN stamped ELSE was
  BY DEF RecoverStamps
<1>7. OnceInv(rows)
  BY <1>1, <1>2 DEF OnceInv
\* Every started row was read.
<1>8. \A k \in DOMAIN ledger : ledger[k].event = "started" => k \in DOMAIN rows
  <2>1. ASSUME NEW k \in DOMAIN ledger, ledger[k].event = "started" PROVE k <= me.rows
    <3>1. ~(k > me.rows)
      BY <1>1, <2>1 DEF InReconcile
    <3> QED BY <1>1, <3>1
  <2> QED BY <1>1, <1>2, <2>1
<1>9. r = RecoverStamps(proc[p].mem, SnapshotOf(proc[p]))[j]
  BY DEF SnapshotOf
<1>10. executed \in BOOLEAN /\ ~executed
  OBVIOUS
<1>11. StampingAt(rows, j) \in SUBSET (1..me.rows)
  BY <1>2 DEF StampingAt
<1>12. StampingAt(rows, j) # {} => i \in StampingAt(rows, j) /\ \A x \in StampingAt(rows, j) : x <= i
  <2> HIDE DEF me, rows
  <2> QED BY <1>1, <1>11, MaxIn
<1> HIDE DEF me, rows, was, r, i, executed
\* A stamp from the row is good.
<1>13. ASSUME StampingAt(rows, j) # {}
       PROVE  /\ stamped \in Records /\ Good(ledger, stamped)
              /\ stamped.started >= ts /\ stamped.started >= was.started
              /\ i \in DOMAIN rows /\ ts \in Nat
  <2>1. /\ i \in DOMAIN rows /\ rows[i].event = "finished" /\ rows[i].job = j
        /\ rows[i] \in Rows /\ i \in DOMAIN ledger /\ rows[i] = ledger[i]
    <3>1. i \in DOMAIN rows /\ rows[i].event = "finished" /\ rows[i].job = j
      BY <1>12, <1>13 DEF StampingAt
    <3> QED BY <1>2, <1>4, <3>1
  <2>2. w \in Wakes /\ state \in States \cup {"none"}
    BY <2>1 DEF Rows
  <2>3. ts \in Nat
    <3>1. CASE \E k \in DOMAIN rows : rows[k].event = "started" /\ rows[k].wake = rows[i].wake
      BY <1>7, <1>4, <2>1, <3>1, StartOfIs
    <3>2. CASE ~\E k \in DOMAIN rows : rows[k].event = "started" /\ rows[k].wake = rows[i].wake
      BY <1>4, <2>1, <3>2 DEF StartOf
    <3> QED BY <3>1, <3>2
  <2>4. FinishedIn(ledger, w)
    BY <2>1 DEF FinishedIn
  <2>5. \A k \in DOMAIN ledger : ledger[k].event = "started" /\ ledger[k].wake = w => ledger[k].ts = ts
    <3>1. ASSUME NEW k \in DOMAIN ledger, ledger[k].event = "started", ledger[k].wake = w
          PROVE  ledger[k].ts = ts
      <4>1. k \in DOMAIN rows /\ rows[k].event = "started" /\ rows[k].wake = rows[i].wake
            /\ rows[k].ts = ledger[k].ts
        BY <1>2, <1>8, <3>1
      <4>2. StartOf(rows, i) = rows[k].ts
        BY <1>7, <2>1, <4>1, StartOfIs
      <4> QED BY <4>1, <4>2
    <3> QED BY <3>1
  <2> HIDE DEF w, ts, state
  <2>6. Good(ledger, stamped)
    BY <1>5, <1>10, <2>2, <2>3, <2>4, <2>5, StampGood
  <2>7. stamped \in Records /\ stamped.started >= ts /\ stamped.started >= was.started
    BY <1>5, <1>10, <2>2, <2>3, StampMoves
  <2> QED BY <2>1, <2>3, <2>6, <2>7
<1>14. r \in Records /\ Good(ledger, r) /\ r.started >= was.started
  <2>1. CASE r = was
    BY <1>5, <2>1
  <2>2. CASE r # was
    BY <1>6, <1>13, <2>2
  <2> QED BY <2>1, <2>2
<1>15. CASE Covers(ledger, was, j)
  <2>1. r.started \in Nat
    BY <1>14 DEF Records
  <2> QED BY <1>5, <1>9, <1>14, <1>3, <1>15, <2>1 DEF Covers
<1>16. CASE Owed(ledger, j) /\ me.rows = Len(ledger)
  <2> DEFINE last == Len(ledger)
  <2>1. /\ last \in DOMAIN ledger /\ last \in DOMAIN rows /\ rows[last] = ledger[last]
        /\ ledger[last].job = j /\ ledger[last].event = "finished"
        /\ ledger[last].state \notin UnstampedStates
    <3>1. last # 0
      BY <1>16 DEF Owed
    <3>2. last \in DOMAIN ledger
      BY <1>1, <3>1
    <3> QED BY <1>1, <1>2, <1>16, <3>2 DEF Owed
  <2>2. PICK x \in DOMAIN ledger : LastStart(ledger, j, x) /\ ledger[x].wake = ledger[last].wake
    BY <1>1, <1>16 DEF Owed
  <2>3. last \in Nat /\ \A k \in DOMAIN rows : k <= last
    BY <1>1, <1>2, <1>16
  <2> HIDE DEF last
  <2>4. last \in StampingAt(rows, j)
    <3>1. \A k \in DOMAIN rows : ~(k > last)
      BY <1>2, <2>3
    <3> QED BY <2>1, <3>1 DEF StampingAt, StillTheJob
  <2>5. i = last
    <3>1. i \in DOMAIN rows /\ last <= i
      BY <1>12, <2>4 DEF StampingAt
    <3>2. i <= last /\ i \in Nat
      BY <1>2, <2>3, <3>1
    <3> QED BY <2>3, <3>1, <3>2
  <2>6. /\ x \in DOMAIN rows /\ rows[x] = ledger[x] /\ ledger[x].event = "started"
        /\ ledger[x].wake = w /\ ts = ledger[x].ts /\ ts \in Nat /\ ts # Never
    <3>1. x \in DOMAIN rows /\ rows[x] = ledger[x] /\ ledger[x].event = "started"
      BY <1>2, <1>8, <2>2 DEF LastStart
    <3>2. ledger[x].wake = w
      BY <2>1, <2>2, <2>5
    <3>3. ts = ledger[x].ts
      BY <1>7, <2>1, <2>5, <3>1, <3>2, StartOfIs
    <3> QED BY <1>1, <1>3, <3>1, <3>2, <3>3 DEF Kept
  <2>7. r.started >= ts
    <3>1. CASE Behind(was, rows, i)
      BY <1>6, <1>13, <2>4, <3>1
    <3>2. CASE ~Behind(was, rows, i)
      <4>1. r = was /\ was.created = 1 /\ Knows(ledger, was)
        BY <1>5, <1>6, <3>2 DEF Good
      <4>2. CASE was.wake = w
        <5>1. w # NoWake
          <6>1. ledger[last] \in Rows /\ ledger[last].wake = w
            BY <1>1, <2>1, <2>5
          <6> QED BY <2>1, <6>1, RecordsAssumption DEF Rows
        <5> QED BY <2>6, <4>1, <4>2, <5>1 DEF Knows
      <4>3. CASE was.wake # w
        <5>1. ts >= 1
          BY <2>6 DEF Never
        <5>2. ~(ts > was.started)
          BY <3>2, <4>1, <4>3, <5>1 DEF Behind
        <5> QED BY <1>5, <2>6, <4>1, <5>2
      <4> QED BY <4>2, <4>3
    <3> QED BY <3>1, <3>2
  <2>8. \A k \in DOMAIN ledger : LastStart(ledger, j, k) => k = x
    <3>1. ASSUME NEW k \in DOMAIN ledger, LastStart(ledger, j, k), k # x PROVE FALSE
      <4>1. ~(k > x) /\ ~(x > k)
        BY <2>2, <3>1 DEF LastStart
      <4> QED BY <1>1, <3>1, <4>1
    <3> QED BY <3>1
  <2> QED BY <1>9, <1>14, <2>6, <2>7, <2>8 DEF Covers
<1> QED BY <1>5, <1>15, <1>16

\* The end of reconcile: nothing is open any more, and what is owed is recovered.
LEMMA RepairRefires ==
  ASSUME TypeInv, WriterInv, RefireInv, NEW p \in RunDue, Repair(p)
  PROVE  RefireInv'
<1> DEFINE me == proc[p]
           recovered == RecoverStamps(me.mem, SnapshotOf(me))
           judged == [j \in Jobs |-> JudgeReceipt(recovered[j], receipt[j])]
           failed == {j \in Jobs : ReceiptJudges(recovered[j], receipt[j]) /\ ~receipt[j].ok}
           touched == me.touched \cup {j \in Jobs : judged[j] # me.mem[j]}
           notices == me.notices \cup failed
           pc == IF touched = {} THEN "enter" ELSE "reload"
           n == [me EXCEPT !.mem = judged, !.touched = touched, !.notices = notices,
                           !.ret = "enter", !.rows = 0, !.scan = 0, !.pc = pc]
<1>0. me.pc = "close" /\ disk' = disk /\ ledger' = ledger /\ ToJudge(me) = {}
  BY DEF Repair, At, files
<1>1. /\ me \in Locals /\ me.mem \in Stores /\ me.touched \in SUBSET Jobs
      /\ Touching(me) /\ me.put = NoJob /\ InReconcile(disk, ledger, me)
      /\ \A j \in Jobs : receipt[j] \in Receipts \cup {NoReceipt}
  BY <1>0, CloseKnows DEF TypeInv, TypeOK
<1>2. Becomes(p, n)
  <2>1. [me EXCEPT !.mem = judged, !.touched = touched, !.notices = @ \cup failed,
                   !.ret = "enter", !.rows = 0, !.scan = 0, !.pc = pc] = n
    <3> HIDE DEF judged, touched, failed, pc
    <3> QED BY <1>1
  <2> HIDE DEF n
  <2> QED BY <2>1 DEF Repair
<1>3. OpenAt(ledger) = {}
  <2>1. \A i \in OpenAt(ledger) : i \in OpenAt(SubSeq(ledger, 1, me.rows)) /\ i >= me.scan
    BY <1>0, <1>1 DEF InReconcile
  <2>2. OpenAt(ledger) \subseteq ToJudge(me)
    BY <2>1 DEF ToJudge, SnapshotOf
  <2> QED BY <1>0, <2>2
<1>4. ASSUME NEW j \in Jobs, me.mem[j] # NoJob
      PROVE  recovered[j] \in Records /\ Good(ledger, recovered[j]) /\ Covers(ledger, recovered[j], j)
  BY <1>0, <1>3, <1>4, RecoverCovers
<1>5. \A j \in Jobs : me.mem[j] = NoJob => recovered[j] = NoJob
  BY DEF RecoverStamps
<1>6. \A j \in Jobs : judged[j] = JudgeReceipt(recovered[j], receipt[j])
  OBVIOUS
<1>7. touched = me.touched \cup {j \in Jobs : judged[j] # me.mem[j]}
  OBVIOUS
<1> HIDE DEF me, recovered, judged, failed, touched
<1>8. \A j \in Jobs : /\ judged[j] = NoJob <=> me.mem[j] = NoJob
                      /\ judged[j] # NoJob => Good(ledger, judged[j]) /\ Covers(ledger, judged[j], j)
  <2>1. ASSUME NEW j \in Jobs, me.mem[j] = NoJob PROVE judged[j] = NoJob
    BY <1>1, <1>5, <1>6, <2>1, JudgeSame
  <2>2. ASSUME NEW j \in Jobs, me.mem[j] # NoJob
        PROVE  judged[j] # NoJob /\ Good(ledger, judged[j]) /\ Covers(ledger, judged[j], j)
    <3> DEFINE r == recovered[j]
               c == receipt[j]
               x == judged[j]
    <3>1. r \in Records /\ r # NoJob /\ Good(ledger, r) /\ Covers(ledger, r, j)
          /\ c \in Receipts \cup {NoReceipt} /\ x = JudgeReceipt(r, c)
      BY <1>1, <1>4, <1>6, <2>2, NoJobAssumption
    <3> HIDE DEF r, c, x
    <3>2. Same(r, x) /\ x # NoJob
      BY <3>1, JudgeSame
    <3>3. Good(ledger, x) /\ Covers(ledger, x, j)
      BY <3>1, <3>2, SameGood
    <3> QED BY <3>2, <3>3 DEF x
  <2> QED BY <2>1, <2>2
<1>9. pc \in {"enter", "reload"} /\ (pc = "enter" <=> touched = {})
  OBVIOUS
<1> HIDE DEF pc, notices
<1>10. /\ n.pc = pc /\ n.mem = judged /\ n.touched = touched /\ n.put = me.put /\ n.ret = "enter"
  BY <1>1, LocalsFields
<1> HIDE DEF n
<1>11. Place(n) = "enter" /\ Running(n) = {} /\ n.pc \notin AtWake \cup Ended \cup {"start", "load"}
  BY <1>9, <1>10 DEF Place, Saving, Running, AtWake, Ended
<1>12. Touching(n)
  <2>1. \A j \in n.touched : j \in Jobs /\ n.mem[j] # NoJob
    BY <1>1, <1>7, <1>8, <1>10 DEF Touching
  <2> QED BY <1>1, <1>9, <1>10, <2>1 DEF Touching
<1>13. InLoop(disk, ledger, n)
  <2>1. \A j \in Jobs \ n.touched : disk[j] = n.mem[j]
    BY <1>1, <1>7, <1>10 DEF InReconcile
  <2> QED BY <1>3, <1>8, <1>9, <1>10, <1>11, <2>1 DEF InLoop, AtWake
<1>14. Rule(disk, ledger, n)
  BY <1>9, <1>10, <1>11, <1>12, <1>13 DEF Rule
<1> QED BY <1>0, <1>2, <1>14, RefireMoves

\* Neither a ledger nor a record of a wake is there at first.
LEMMA InitRefireInv == Init => RefireInv
<1> SUFFICES ASSUME Init PROVE RefireInv
  OBVIOUS
<1>1. ledger = <<>> /\ DOMAIN ledger = {}
  BY DEF Init
<1>2. Kept(ledger)
  BY <1>1 DEF Kept, OpenAt
<1>3. Cached(disk, ledger)
  <2>1. ASSUME NEW j \in Jobs, disk[j] # NoJob PROVE Good(ledger, disk[j]) /\ Covers(ledger, disk[j], j)
    <3>1. disk[j] = NewRecord(1)
      BY <2>1 DEF Init
    <3>2. disk[j].created = 1 /\ disk[j].wake = NoWake
      BY <3>1 DEF NewRecord
    <3> QED BY <1>1, <3>2 DEF Good, Knows, Covers
  <2> QED BY <2>1 DEF Cached
<1>4. ASSUME NEW p \in RunDue PROVE Rule(disk, ledger, proc[p])
  <2>1. p \in Procs
    BY PassAssumption
  <2>2. PICK pc \in {"start", "done"} : proc[p] = Fresh(pc)
    BY <2>1 DEF Init
  <2> DEFINE m == Fresh(pc)
  <2>3. m.pc = pc /\ m.touched = {} /\ m.put = NoJob /\ \A j \in Jobs : m.mem[j] = NoJob
    BY DEF Fresh
  <2> HIDE DEF m
  <2>4. Rule(disk, ledger, m)
    BY <2>3 DEF Rule, Touching, Lost
  <2> QED BY <2>2, <2>4 DEF m
<1> QED BY <1>2, <1>3, <1>4 DEF RefireInv

-----------------------------------------------------------------------------
(* The theorems                                                            *)

\* Every step keeps the invariant.
LEMMA RefireStep ==
  ASSUME TypeInv, WriterInv, Alone, RefireInv, [Next]_vars
  PROVE  RefireInv'
<1>1. ASSUME NEW p \in Procs, Start(p) \/ Step(p) \/ Die(p) PROVE RefireInv'
  <2>1. p \in RunDue /\ proc[p].pc \notin Ended
    <3>1. p \in Given.cast /\ proc[p].pc \notin Ended
      BY <1>1, ActorIs DEF Alone, Quiet, WriterInv
    <3> QED BY <3>1 DEF Alone
  <2>2. p \notin Operator /\ p \notin Run /\ p \notin Reconciler /\ Placed(p, proc[p])
    BY <2>1, PassAssumption DEF WriterInv, PlaceInv
  <2>3. CASE StartPass(p)
    BY <2>1, <2>3, BeginRefires
  <2>4. CASE ~StartPass(p)
    <3>1. Step(p) \/ Die(p)
      BY <1>1, <2>2, <2>4 DEF Start, StartRun, StartReconcile, StartAdd, StartSet, StartRemove
    <3>2. Alive(p)
      <4>1. proc[p].pc # "start"
        BY <3>1 DEF Step, Load, Reload, Save, Notify, CardAnswer, ReadRows, CloseOrphan, Repair,
          EnterLoop, PassOver, SkewRow, SkipRow, EndPass, TakeLock, Overlap, Recheck, Begin, Spawn,
          Finish, Unlock, Fail, CheckRemove, RemovedRowWritten, Turn, Due, Executes, At, Die, Alive
      <4> QED BY <2>1, <4>1 DEF Alive, Ended
    <3>3. ~CheckRemove(p) /\ ~RemovedRowWritten(p)
      BY <2>1, <2>2 DEF Placed, CheckRemove, RemovedRowWritten, At
    <3>4. CASE Load(p)
      BY <2>1, <3>4, BeginRefires
    <3>5. CASE Reload(p) \/ Save(p) \/ Notify(p)
      BY <2>1, <3>2, <3>5, ReloadRefires, SaveRefires, NotifyRefires
    <3>6. CASE ReadRows(p) \/ CloseOrphan(p) \/ Repair(p)
      BY <2>1, <3>6, ReadRowsRefires, CloseRefires, RepairRefires
    <3>7. CASE EnterLoop(p) \/ PassOver(p) \/ CardAnswer(p)
      BY <2>1, <3>2, <3>7, TurnRefires
    <3>8. CASE SkewRow(p) \/ SkipRow(p) \/ Overlap(p)
      BY <2>1, <3>2, <3>8, TurnRowRefires
    <3>9. CASE TakeLock(p) \/ Recheck(p) \/ Begin(p) \/ Spawn(p) \/ Finish(p)
      BY <2>1, <3>2, <3>9, TakeLockRefires, RecheckRefires, StartRefires, FinishRefires
    <3>10. CASE Unlock(p) \/ Fail(p) \/ Die(p) \/ EndPass(p)
      BY <2>1, <3>2, <3>10, EndRefires
    <3> QED BY <3>1, <3>3, <3>4, <3>5, <3>6, <3>7, <3>8, <3>9, <3>10 DEF Step
  <2> QED BY <2>3, <2>4
<1>2. CASE UNCHANGED <<disk, ledger, proc>>
  <2>1. Kept(ledger)' /\ Cached(disk, ledger)'
    BY <1>2 DEF RefireInv, Kept, Cached, Good, Knows, Covers, Owed, FinishedIn
  <2>2. ASSUME NEW p \in RunDue PROVE Rule(disk, ledger, proc[p])'
    <3>1. Rule(disk, ledger, proc[p])
      BY DEF RefireInv
    <3>2. disk' = disk /\ ledger' = ledger /\ proc' = proc
      BY <1>2
    <3> QED BY <3>1, <3>2
  <2> QED BY <2>1, <2>2 DEF RefireInv
<1>3. CASE \/ \E p \in RunDue : AgePass(p)
           \/ \E w \in Wakes : ChildExit(w) \/ Age(w)
           \/ Tick \/ StepBack \/ UNCHANGED vars
  BY <1>2, <1>3 DEF AgePass, ChildExit, Age, Tick, StepBack, vars, files
<1> QED BY <1>1, <1>3 DEF Next

\* Behind its reconcile a pass knows the last start of every job, and so does
\* jobs.json but for a stamp that is owed: in every behaviour of passes.
THEOREM PassRefireInvariant == Spec => [](Alone => RefireInv)
<1> DEFINE Inv == TypeInv /\ (Alone => WriterInv /\ RefireInv)
<1>1. Init => Inv
  BY InitTypeInv, InitWriterInv, InitRefireInv
<1>2. ASSUME Inv, [Next]_vars PROVE Inv'
  <2>1. setting' = setting /\ TypeInv'
    BY <1>2, WorldTypes, TypeStep
  <2>2. Alone' => Alone
    BY <2>1 DEF Alone, Given
  <2>3. Alone => Quiet
    BY DEF Alone, Quiet
  <2> QED BY <1>2, <2>1, <2>2, <2>3, WriterStep, RefireStep
<1>3. Inv => (Alone => RefireInv)
  OBVIOUS
<1> HIDE DEF Inv
<1> QED BY <1>1, <1>2, <1>3, PTL DEF Spec

\* In a behaviour of passes alone no pass starts a job inside the window of its
\* last start, whatever dies or fails between the started row, the finished
\* row, the stamp, the merge and the save, or a file operation is refused (what
\* the self-tests reconcile_closes_orphan_and_does_not_refire and
\* finished_wake_whose_stamp_was_lost_is_not_refired try for one crash each).
THEOREM NoRefireAmongPasses == Spec /\ Alone => NoRefireInWindow
<1> DEFINE Inv == TypeInv /\ Alone /\ WriterInv /\ RefireInv
           Window == \A p \in RunDue : Begin(p) =>
             \A i \in DOMAIN ledger :
               LastStart(ledger, proc[p].cur.job, i) => proc[p].at >= ledger[i].ts + Interval
<1>1. Init /\ Alone => Inv
  BY InitTypeInv, InitWriterInv, InitRefireInv
<1>2. ASSUME Inv, [Next]_vars PROVE Inv'
  <2>1. setting' = setting /\ TypeInv'
    BY <1>2, WorldTypes, TypeStep
  <2>2. Alone'
    BY <1>2, <2>1 DEF Alone, Given
  <2>3. Quiet
    BY <1>2 DEF Alone, Quiet
  <2> QED BY <1>2, <2>1, <2>2, <2>3, WriterStep, RefireStep
<1>3. Inv => Window
  <2> SUFFICES ASSUME Inv, NEW p \in RunDue, Begin(p),
                      NEW i \in DOMAIN ledger, LastStart(ledger, proc[p].cur.job, i)
               PROVE  proc[p].at >= ledger[i].ts + Interval
    OBVIOUS
  <2>1. proc[p].pc = "begin" /\ proc[p].pc \in AtWake
    BY DEF Begin, At, AtWake
  <2>2. InLoop(disk, ledger, proc[p])
    BY <2>1, WakeKnows
  <2> QED BY <2>1, <2>2 DEF InLoop
<1> HIDE DEF Inv
<1>4. Spec /\ Alone => []Inv
  BY <1>1, <1>2, PTL DEF Spec
<1>5. NoRefireInWindow <=> [][Window]_vars
  BY DEF NoRefireInWindow
<1> HIDE DEF Window
<1> QED BY <1>3, <1>4, <1>5, PTL

-----------------------------------------------------------------------------
(* The contract of the passes                                              *)

\* What a row does to what the ledger says.  One that ends a wake that was not
\* begun is told, and a clock-skew row takes back the last start;
LEMMA NoteRow ==
  ASSUME NEW rows \in Seq(Rows), NEW row \in Rows, row.event = "finished",
         row.job = row.wake.job, OpenAt(rows) = {}
  PROVE  LET more == Append(rows, row)
             last == LastStarts(rows)
         IN /\ OpenWakes(more) = {} /\ OpenWakes(rows) = {}
            /\ ToldWakes(more) = ToldWakes(rows) \cup {row.wake}
            /\ LastStarts(more) = IF row.wake.kind = "skew" THEN [last EXCEPT ![row.wake.job] = {}]
                                  ELSE last
<1> DEFINE more == Append(rows, row)
<1>1. /\ \A k \in DOMAIN rows : k \in DOMAIN more /\ more[k] = rows[k] /\ k < Len(more)
      /\ Len(more) \in DOMAIN more /\ more[Len(more)] = row
      /\ \A k \in DOMAIN more : k \in DOMAIN rows \/ k = Len(more)
      /\ \A k \in DOMAIN more : k \in Nat
  BY RowMore
<1>2. \A w : FinishedIn(rows, w) => FinishedIn(more, w)
  BY FinishedMore
<1>3. row.wake.job \in Jobs
  BY DEF Rows, Wakes
<1> HIDE DEF more
<1>4. OpenWakes(more) = {} /\ OpenWakes(rows) = {}
  BY <1>1, <1>2 DEF OpenWakes, OpenAt
<1>5. ToldWakes(more) = ToldWakes(rows) \cup {row.wake}
  BY <1>1 DEF ToldWakes
<1>6. ASSUME NEW j \in Jobs, NEW k \in DOMAIN more
      PROVE  LastStart(more, j, k) <=>
               k \in DOMAIN rows /\ LastStart(rows, j, k) /\ ~(row.wake.kind = "skew" /\ row.wake.job = j)
  <2>1. CASE k = Len(more)
    BY <1>1, <2>1 DEF LastStart
  <2>2. CASE k \in DOMAIN rows
    BY <1>1, <2>2 DEF LastStart
  <2> QED BY <1>1, <2>1, <2>2
<1>7. ASSUME NEW j \in Jobs
      PROVE  LastStarts(more)[j] = IF row.wake.kind = "skew" /\ row.wake.job = j THEN {}
                                   ELSE LastStarts(rows)[j]
  BY <1>1, <1>6 DEF LastStarts
<1>8. LastStarts(more) = [j \in Jobs |-> LastStarts(more)[j]]
      /\ LastStarts(rows) = [j \in Jobs |-> LastStarts(rows)[j]]
  BY DEF LastStarts
<1>9. LastStarts(more) = IF row.wake.kind = "skew" THEN [LastStarts(rows) EXCEPT ![row.wake.job] = {}]
                         ELSE LastStarts(rows)
  <2> DEFINE b == LastStarts(rows)
             a == LastStarts(more)
  <2> HIDE DEF a, b
  <2>1. /\ a = [j \in Jobs |-> a[j]] /\ b = [j \in Jobs |-> b[j]]
        /\ \A j \in Jobs : a[j] = IF row.wake.kind = "skew" /\ row.wake.job = j THEN {} ELSE b[j]
    BY <1>7, <1>8 DEF a, b
  <2>2. a = IF row.wake.kind = "skew" THEN [b EXCEPT ![row.wake.job] = {}] ELSE b
    <3>1. CASE row.wake.kind = "skew"
      BY <1>3, <2>1, <3>1
    <3>2. CASE row.wake.kind # "skew"
      BY <2>1, <3>2
    <3> QED BY <3>1, <3>2
  <2> QED BY <2>2 DEF a, b
<1> QED BY <1>4, <1>5, <1>9 DEF more

\* one that ends an open wake closes it;
LEMMA EndRow ==
  ASSUME NEW rows \in Seq(Rows), NEW row \in Rows, row.event = "finished", row.wake.kind = "wake",
         NEW o \in OpenAt(rows), rows[o].wake = row.wake
  PROVE  LET more == Append(rows, row)
         IN /\ row.wake \in OpenWakes(rows) /\ OpenWakes(more) = OpenWakes(rows) \ {row.wake}
            /\ ToldWakes(more) = ToldWakes(rows) /\ LastStarts(more) = LastStarts(rows)
<1> DEFINE more == Append(rows, row)
<1>1. /\ \A k \in DOMAIN rows : k \in DOMAIN more /\ more[k] = rows[k] /\ k < Len(more)
      /\ Len(more) \in DOMAIN more /\ more[Len(more)] = row
      /\ \A k \in DOMAIN more : k \in DOMAIN rows \/ k = Len(more)
  BY RowMore
<1>2. \A w : FinishedIn(more, w) <=> FinishedIn(rows, w) \/ row.wake = w
  BY FinishedMore
<1> HIDE DEF more
<1>3. OpenWakes(more) = OpenWakes(rows) \ {row.wake}
  <2>1. \A k : k \in OpenAt(more) <=> k \in OpenAt(rows) /\ rows[k].wake # row.wake
    BY <1>1, <1>2 DEF OpenAt
  <2>2. \A k \in OpenAt(rows) : more[k] = rows[k]
    BY <1>1 DEF OpenAt
  <2> QED BY <2>1, <2>2 DEF OpenWakes
<1>4. ToldWakes(more) = ToldWakes(rows)
  BY <1>1 DEF ToldWakes, OpenAt
<1>5. ASSUME NEW j \in Jobs, NEW k \in DOMAIN more
      PROVE  LastStart(more, j, k) <=> k \in DOMAIN rows /\ LastStart(rows, j, k)
  BY <1>1 DEF LastStart
<1>6. LastStarts(more) = LastStarts(rows)
  <2>1. ASSUME NEW j \in Jobs
        PROVE  {more[i].ts : i \in {k \in DOMAIN more : LastStart(more, j, k)}}
               = {rows[i].ts : i \in {k \in DOMAIN rows : LastStart(rows, j, k)}}
    BY <1>1, <1>5
  <2> QED BY <2>1 DEF LastStarts
<1> QED BY <1>3, <1>4, <1>6 DEF more, OpenWakes

\* and one that begins a wake opens it, and is the last start of its job.
LEMMA BeginRow ==
  ASSUME NEW rows \in Seq(Rows), NEW row \in Rows, row.event = "started", row.job = row.wake.job,
         OpenAt(rows) = {}, row.wake \notin ToldWakes(rows)
  PROVE  LET more == Append(rows, row)
             last == LastStarts(rows)
         IN /\ OpenWakes(more) = {row.wake} /\ OpenWakes(rows) = {}
            /\ ToldWakes(more) = ToldWakes(rows) \cup {row.wake}
            /\ LastStarts(more) = [last EXCEPT ![row.wake.job] = {row.ts}]
<1> DEFINE more == Append(rows, row)
<1>1. /\ \A k \in DOMAIN rows : k \in DOMAIN more /\ more[k] = rows[k] /\ k < Len(more)
      /\ Len(more) \in DOMAIN more /\ more[Len(more)] = row
      /\ \A k \in DOMAIN more : k \in DOMAIN rows \/ k = Len(more)
      /\ \A k \in DOMAIN more : ~(k > Len(more))
  BY RowMore
<1>2. \A w : FinishedIn(more, w) <=> FinishedIn(rows, w)
  BY FinishedMore
<1>3. row.wake.job \in Jobs
  BY DEF Rows, Wakes
<1> HIDE DEF more
<1>4. OpenWakes(more) = {row.wake} /\ OpenWakes(rows) = {}
  <2>1. ~FinishedIn(rows, row.wake)
    BY DEF FinishedIn, ToldWakes
  <2>2. OpenAt(more) = {Len(more)}
    BY <1>1, <1>2, <2>1 DEF OpenAt
  <2> QED BY <1>1, <2>2 DEF OpenWakes
<1>5. ToldWakes(more) = ToldWakes(rows) \cup {row.wake}
  BY <1>1 DEF ToldWakes
<1>6. ASSUME NEW j \in Jobs, NEW k \in DOMAIN more
      PROVE  LastStart(more, j, k) <=>
               IF row.wake.job = j THEN k = Len(more) ELSE k \in DOMAIN rows /\ LastStart(rows, j, k)
  <2>1. CASE k = Len(more)
    BY <1>1, <2>1 DEF LastStart
  <2>2. CASE k \in DOMAIN rows
    BY <1>1, <2>2 DEF LastStart
  <2> QED BY <1>1, <2>1, <2>2
<1>7. ASSUME NEW j \in Jobs
      PROVE  {more[i].ts : i \in {k \in DOMAIN more : LastStart(more, j, k)}}
             = IF row.wake.job = j THEN {row.ts}
               ELSE {rows[i].ts : i \in {k \in DOMAIN rows : LastStart(rows, j, k)}}
  BY <1>1, <1>6
<1>8. LastStarts(more) = [LastStarts(rows) EXCEPT ![row.wake.job] = {row.ts}]
  BY <1>3, <1>7 DEF LastStarts
<1> QED BY <1>4, <1>5, <1>8 DEF more

\* Of rows of wakes nothing is removed.
LEMMA NoRemovals ==
  ASSUME NEW rows \in Seq(Rows), NEW more \in Seq(Rows), Kept(rows), Kept(more)
  PROVE  Removals(more) = Removals(rows)
<1>1. ASSUME NEW s, Kept(s), NEW j
      PROVE  {i \in DOMAIN s : s[i].event = "removed" /\ s[i].job = j} = {}
  BY <1>1 DEF Kept
<1> QED BY <1>1 DEF Removals

\* A row that the contract allows now: it begins a wake, ends one, or tells of
\* one that is not begun.
Allowed(row) ==
  /\ row \in Rows /\ Write(row) /\ row.job = row.wake.job
  /\ \/ /\ row.event = "started" /\ OpenAt(ledger) = {} /\ row.wake \notin ToldWakes(ledger)
        /\ \A i \in DOMAIN ledger :
             LastStart(ledger, row.job, i) => proc[row.wake.proc].at >= ledger[i].ts + Interval
     \/ /\ row.event = "finished" /\ row.wake.kind = "wake"
        /\ \E o \in OpenAt(ledger) : ledger[o].wake = row.wake
     \/ /\ row.event = "finished" /\ OpenAt(ledger) = {} /\ row.wake \notin ToldWakes(ledger)

\* The rows of a turn.
LEMMA TurnWrites ==
  ASSUME TypeInv, WriterInv, RefireInv, NEW p \in RunDue, Alive(p),
         SkewRow(p) \/ SkipRow(p) \/ Overlap(p)
  PROVE  \E row : Allowed(row)
<1> DEFINE me == proc[p]
<1>0. /\ p \in Procs /\ p \notin Operator /\ me \in Locals /\ now \in Nat
      /\ Rule(disk, ledger, me) /\ RowOf(ledger, p, me)
  BY PassKnows DEF TypeInv, TypeOK, RefireInv
<1>1. ASSUME NEW j \in Jobs, Turn(p, j) \/ Due(p, j), me.mem[j] # NoJob,
             NEW kind \in {"skew", "wake"}, NEW state \in States, kind = "skew" => Turn(p, j),
             Write(FinishedRow([proc |-> p, job |-> j, kind |-> kind], state, now))
      PROVE  \E row : Allowed(row)
  <2> DEFINE w == [proc |-> p, job |-> j, kind |-> kind]
             row == FinishedRow(w, state, now)
  <2>1. w \in Wakes /\ w.job = j /\ w.kind = kind /\ w.proc = p /\ Write(row)
    BY <1>0, <1>1, WakeType
  <2> HIDE DEF w
  <2>2. row \in Rows /\ row.event = "finished" /\ row.wake = w /\ row.job = j
    BY <1>0, <2>1, RowTypes DEF FinishedRow
  <2>3. /\ me.pc \in {"loop", "judge", "gate"} /\ Place(me) = me.pc
        /\ j \in me.todo /\ (Turn(p, j) => me.pc # "gate")
    BY <1>1, NextJob
  <2>4. OpenAt(ledger) = {}
    <3>1. ~Lost(me)
      BY <1>1 DEF Lost
    <3> QED BY <1>0, <2>3, <3>1 DEF Rule, InLoop
  <2>5. w \notin ToldWakes(ledger)
    <3> SUFFICES ASSUME NEW i \in DOMAIN ledger, ledger[i].event # "removed", ledger[i].wake = w
                 PROVE  FALSE
      BY DEF ToldWakes
    <3>1. Own(ledger, p, i)
      BY <2>1 DEF Own, RefireInv, Kept
    <3> HIDE DEF me
    <3> QED BY <1>0, <1>1, <2>1, <2>3, <3>1 DEF RowOf
  <2> HIDE DEF row
  <2>6. Allowed(row)
    BY <2>1, <2>2, <2>4, <2>5 DEF Allowed
  <2> QED BY <2>6
<1>2. {"error", "skipped", "overlap"} \subseteq States
  BY DEF States, BadStates, UnstampedStates
<1>3. CASE SkewRow(p)
  <2>1. PICK j \in Jobs :
          /\ Turn(p, j) /\ me.mem[j] # NoJob
          /\ Write(FinishedRow([proc |-> p, job |-> j, kind |-> "skew"], "error", now))
    BY <1>3 DEF SkewRow
  <2> QED BY <1>1, <1>2, <2>1
<1>4. CASE SkipRow(p)
  <2>1. PICK j \in Jobs :
          /\ Due(p, j)
          /\ Write(FinishedRow([proc |-> p, job |-> j, kind |-> "wake"], "skipped", now))
    BY <1>4 DEF SkipRow
  <2>2. me.mem[j] # NoJob
    BY <2>1 DEF Due
  <2> QED BY <1>1, <1>2, <2>1, <2>2
<1>5. CASE Overlap(p)
  <2>1. PICK j \in Jobs :
          /\ Executes(p, j)
          /\ Write(FinishedRow([proc |-> p, job |-> j, kind |-> "wake"], "overlap", now))
    BY <1>5 DEF Overlap
  <2>2. Due(p, j) /\ me.mem[j] # NoJob
    <3>1. me.pc # "lock"
      BY <2>1, NextJob
    <3> QED BY <2>1, <3>1 DEF Executes, Due, At
  <2> QED BY <1>1, <1>2, <2>1, <2>2
<1> QED BY <1>3, <1>4, <1>5

\* The rows of a wake whose lock was taken.
LEMMA WakeWrites ==
  ASSUME TypeInv, WriterInv, RefireInv, NEW p \in RunDue, Recheck(p) \/ Begin(p) \/ Finish(p)
  PROVE  ledger' = ledger \/ \E row : Allowed(row)
<1> DEFINE me == proc[p]
           w == me.cur
<1>0. me.pc \in {"recheck", "begin", "wait"} /\ me.pc \in AtWake
  BY DEF Recheck, Begin, Finish, At, AtWake
<1>1. /\ Alive(p) /\ me.started \in Nat /\ w \in Wakes /\ w.job \in Jobs
      /\ InLoop(disk, ledger, me) /\ ledger \in Seq(Rows) /\ now \in Nat
  BY <1>0, WakeKnows
<1>2. w.proc = p /\ w.kind = "wake" /\ RowOf(ledger, p, me)
  BY <1>0, <1>1, PassKnows DEF Placed
\* Before it is begun nothing is on record of it.
<1>3. ASSUME me.pc \in {"recheck", "begin"} PROVE OpenAt(ledger) = {} /\ w \notin ToldWakes(ledger)
  <2>1. OpenAt(ledger) = {}
    BY <1>1, <1>3 DEF InLoop
  <2>2. ASSUME NEW i \in DOMAIN ledger, ledger[i].wake = w PROVE FALSE
    <3>1. Own(ledger, p, i)
      BY <1>2, <2>2 DEF Own, RefireInv, Kept
    <3> HIDE DEF me
    <3> QED BY <1>2, <1>3, <2>2, <3>1 DEF RowOf
  <2> QED BY <2>1, <2>2 DEF ToldWakes
<1>4. ASSUME NEW state \in States, Write(FinishedRow(w, state, now)), me.pc \in {"recheck", "wait"}
      PROVE  \E row : Allowed(row)
  <2> DEFINE row == FinishedRow(w, state, now)
  <2>1. row \in Rows /\ row.event = "finished" /\ row.wake = w /\ row.job = w.job /\ Write(row)
    BY <1>1, <1>4, RowTypes DEF FinishedRow
  <2> HIDE DEF row
  <2>2. CASE me.pc = "recheck"
    <3>1. Allowed(row)
      BY <1>3, <2>1, <2>2 DEF Allowed
    <3> QED BY <3>1
  <2>3. CASE me.pc = "wait"
    <3> DEFINE o == Len(ledger)
    <3>1. o \in DOMAIN ledger /\ ledger[o] = StartedRow(w, me.started)
      BY <1>1, <2>3 DEF InLoop
    <3>2. ledger[o].event = "started" /\ ledger[o].wake = w
      BY <3>1 DEF StartedRow
    <3> HIDE DEF o
    <3>3. ~FinishedIn(ledger, w)
      <4> SUFFICES ASSUME NEW i \in DOMAIN ledger, ledger[i].event = "finished", ledger[i].wake = w
                   PROVE  FALSE
        BY DEF FinishedIn
      <4>1. Own(ledger, p, i)
        BY <1>2 DEF Own
      <4> HIDE DEF me
      <4> QED BY <1>2, <2>3, <4>1 DEF RowOf
    <3>4. o \in OpenAt(ledger)
      BY <3>1, <3>2, <3>3 DEF OpenAt
    <3>5. Allowed(row)
      BY <1>2, <2>1, <3>2, <3>4 DEF Allowed
    <3> QED BY <3>5
  <2> QED BY <1>4, <2>2, <2>3
<1>5. CASE Recheck(p)
  <2>1. \/ Write(FinishedRow(w, "cancelled", now))
        \/ Write(FinishedRow(w, "overlap", now))
        \/ ledger' = ledger
    BY <1>5 DEF Recheck
  <2>2. {"cancelled", "overlap"} \subseteq States /\ me.pc = "recheck"
    BY <1>5 DEF States, UnstampedStates, Recheck, At
  <2> QED BY <1>4, <2>1, <2>2
<1>6. CASE Begin(p)
  <2> DEFINE row == StartedRow(w, me.started)
  <2>1. row \in Rows /\ row.event = "started" /\ row.wake = w /\ row.job = w.job /\ Write(row)
    BY <1>1, <1>6, RowTypes DEF StartedRow, Begin
  <2>2. me.pc = "begin"
    BY <1>6 DEF Begin, At
  <2>3. \A i \in DOMAIN ledger : LastStart(ledger, w.job, i) => me.at >= ledger[i].ts + Interval
    BY <1>1, <2>2 DEF InLoop
  <2> HIDE DEF row
  <2>4. Allowed(row)
    BY <1>2, <1>3, <2>1, <2>2, <2>3 DEF Allowed
  <2> QED BY <2>4
<1>7. CASE Finish(p)
  <2>1. PICK state \in Outcomes(w) : Write(FinishedRow(w, state, now))
    BY <1>7 DEF Finish
  <2>2. state \in States /\ me.pc = "wait"
    BY <1>7 DEF Outcomes, States, BadStates, Finish, At
  <2> QED BY <1>4, <2>1, <2>2
<1> QED BY <1>5, <1>6, <1>7

\* The rows of reconcile.
LEMMA CloseWrites ==
  ASSUME TypeInv, WriterInv, RefireInv, NEW p \in RunDue, CloseOrphan(p)
  PROVE  ledger' = ledger \/ \E row : Allowed(row)
<1> DEFINE me == proc[p]
           i == Min(ToJudge(me))
           w == ledger[i].wake
           row == FinishedRow(w, "orphaned", now)
<1>0. me.pc = "close" /\ ToJudge(me) # {}
  BY DEF CloseOrphan, At
<1>1. /\ me.rows \in Nat /\ me.rows <= Len(ledger) /\ ledger \in Seq(Rows) /\ Kept(ledger)
      /\ now \in Nat /\ p \in Procs
  BY <1>0, CloseKnows DEF TypeInv, TypeOK, RefireInv
<1>2. /\ i \in DOMAIN ledger /\ ledger[i].event = "started" /\ w \in Wakes /\ ~FinishedIn(ledger, w)
  <2>1. i \in ToJudge(me)
    BY <1>0, <1>1, ToJudgeType
  <2>2. ~FinishedIn(ledger, w)
    BY <1>0, <2>1 DEF WriterInv, CloseInv
  <2>3. i \in DOMAIN ledger /\ ledger[i].event = "started" /\ w \in Wakes
    BY <1>1, <2>1, ToJudgeType
  <2> QED BY <2>2, <2>3
<1>3. ledger' = ledger \/ Write(row)
  BY DEF CloseOrphan
<1> HIDE DEF i
<1>4. w.kind = "wake" /\ i \in OpenAt(ledger)
  BY <1>1, <1>2 DEF Kept, OpenAt
<1>5. row \in Rows /\ row.event = "finished" /\ row.wake = w /\ row.job = w.job
  <2>1. "orphaned" \in States
    BY DEF States, BadStates
  <2> QED BY <1>1, <1>2, <2>1, RowTypes DEF FinishedRow
<1> HIDE DEF row
<1>6. Write(row) => Allowed(row)
  BY <1>4, <1>5 DEF Allowed
<1> QED BY <1>3, <1>6

\* So it is with every step.
LEMMA StepWrites ==
  ASSUME TypeInv, WriterInv, Alone, RefireInv, [Next]_vars
  PROVE  ledger' = ledger \/ \E row : Allowed(row)
<1>1. ASSUME NEW p \in Procs, Start(p) \/ Step(p) \/ Die(p)
      PROVE  ledger' = ledger \/ \E row : Allowed(row)
  <2>1. p \in RunDue /\ proc[p].pc \notin Ended
    <3>1. p \in Given.cast /\ proc[p].pc \notin Ended
      BY <1>1, ActorIs DEF Alone, Quiet, WriterInv
    <3> QED BY <3>1 DEF Alone
  <2>2. CASE SkewRow(p) \/ SkipRow(p) \/ Overlap(p)
    <3>1. Alive(p)
      <4>1. proc[p].pc # "start"
        BY <2>2 DEF SkewRow, SkipRow, Overlap, Turn, Due, Executes, At
      <4> QED BY <2>1, <4>1 DEF Alive, Ended
    <3> QED BY <2>1, <2>2, <3>1, TurnWrites
  <2>3. CASE Recheck(p) \/ Begin(p) \/ Finish(p)
    BY <2>1, <2>3, WakeWrites
  <2>4. CASE CloseOrphan(p)
    BY <2>1, <2>4, CloseWrites
  <2>5. CASE RemovedRowWritten(p)
    BY <1>1, <2>1, <2>5, PassAssumption DEF WriterInv, PlaceInv, Placed, RemovedRowWritten, At
  <2>6. CASE ~(\/ SkewRow(p) \/ SkipRow(p) \/ Overlap(p) \/ Recheck(p) \/ Begin(p) \/ Finish(p)
               \/ CloseOrphan(p) \/ RemovedRowWritten(p))
    <3>1. ASSUME Start(p) PROVE ledger' = ledger
      BY <3>1 DEF Start, StartPass, StartRun, StartReconcile, StartAdd, StartSet, StartRemove, files
    <3>2. ASSUME Load(p) \/ Reload(p) \/ Save(p) \/ Notify(p) \/ CardAnswer(p) \/ ReadRows(p)
                 \/ Repair(p)
          PROVE  ledger' = ledger
      BY <3>2 DEF Load, Reload, Save, Notify, CardAnswer, ReadRows, Repair, files
    <3>3. ASSUME EnterLoop(p) \/ PassOver(p) \/ EndPass(p) \/ TakeLock(p) \/ Spawn(p) \/ Unlock(p)
                 \/ Fail(p) \/ CheckRemove(p) \/ Die(p)
          PROVE  ledger' = ledger
      BY <3>3 DEF EnterLoop, PassOver, EndPass, TakeLock, Spawn, Unlock, Fail, CheckRemove, Die, files
    <3> QED BY <1>1, <2>6, <3>1, <3>2, <3>3 DEF Step
  <2> QED BY <2>2, <2>3, <2>4, <2>5, <2>6
<1>2. CASE \/ \E p \in RunDue : AgePass(p)
           \/ \E w \in Wakes : ChildExit(w) \/ Age(w)
           \/ Tick \/ StepBack \/ UNCHANGED vars
  BY <1>2 DEF AgePass, ChildExit, Age, Tick, StepBack, vars, files
<1> QED BY <1>1, <1>2 DEF Next

\* A row that is allowed is a step of the contract.
LEMMA AllowedStep ==
  ASSUME TypeInv, TypeInv', Kept(ledger), Kept(ledger'), NEW row, Allowed(row)
  PROVE  \E w \in Wakes : Contract!Begin(w) \/ Contract!End(w) \/ Contract!Note(w)
<1> DEFINE w == row.wake
           last == LastStarts(ledger)
<1>1. row \in Rows /\ ledger \in Seq(Rows) /\ ledger' = Append(ledger, row) /\ ledger' \in Seq(Rows)
      /\ row.job = w.job
  BY DEF Allowed, Write, TypeInv, TypeOK
<1>2. Removals(ledger') = Removals(ledger)
  BY <1>1, NoRemovals
<1>3. CASE /\ row.event = "started" /\ OpenAt(ledger) = {} /\ w \notin ToldWakes(ledger)
           /\ \A i \in DOMAIN ledger :
                LastStart(ledger, row.job, i) => proc[w.proc].at >= ledger[i].ts + Interval
  <2>1. w \in Wakes /\ w.proc \in Procs /\ w.job \in Jobs /\ row.ts \in Nat
    BY <1>1, <1>3 DEF Rows, Wakes
  <2>2. /\ OpenWakes(ledger') = {w} /\ OpenWakes(ledger) = {}
        /\ ToldWakes(ledger') = ToldWakes(ledger) \cup {w}
        /\ LastStarts(ledger') = [last EXCEPT ![w.job] = {row.ts}]
    BY <1>1, <1>3, BeginRow
  <2>3. \A t \in last[w.job] : [q \in Procs |-> proc[q].at][w.proc] >= t + Interval
    BY <1>1, <1>3, <2>1 DEF LastStarts
  <2>4. row.ts \in LastStarts(ledger')[w.job]
    BY <2>1, <2>2 DEF LastStarts
  <2>5. Contract!Begin(w)
    BY <1>2, <1>3, <2>1, <2>2, <2>3, <2>4 DEF Contract!Begin
  <2> QED BY <2>1, <2>5
<1>4. CASE /\ row.event = "finished" /\ w.kind = "wake"
           /\ \E o \in OpenAt(ledger) : ledger[o].wake = w
  <2>1. w \in Wakes
    BY <1>1, <1>4 DEF Rows
  <2>2. /\ w \in OpenWakes(ledger) /\ OpenWakes(ledger') = OpenWakes(ledger) \ {w}
        /\ ToldWakes(ledger') = ToldWakes(ledger) /\ LastStarts(ledger') = LastStarts(ledger)
    BY <1>1, <1>4, EndRow
  <2>3. Contract!End(w)
    BY <1>2, <2>2 DEF Contract!End
  <2> QED BY <2>1, <2>3
<1>5. CASE row.event = "finished" /\ OpenAt(ledger) = {} /\ w \notin ToldWakes(ledger)
  <2>1. w \in Wakes
    BY <1>1, <1>5 DEF Rows
  <2>2. /\ OpenWakes(ledger') = {} /\ OpenWakes(ledger) = {}
        /\ ToldWakes(ledger') = ToldWakes(ledger) \cup {w}
        /\ LastStarts(ledger') = IF w.kind = "skew" THEN [last EXCEPT ![w.job] = {}] ELSE last
    BY <1>1, <1>5, NoteRow
  <2>3. Contract!Note(w)
    BY <1>2, <1>5, <2>2 DEF Contract!Note
  <2> QED BY <2>1, <2>3
<1> QED BY <1>3, <1>4, <1>5 DEF Allowed

\* Passes implement their contract, whatever dies or fails and whatever the
\* clock does: of all their wakes one is open at a time, none is begun or ended
\* twice, and a job is begun again an interval after its last start.
THEOREM PassesKeepTheContract == Spec /\ Alone => KeepsTheContract
<1> DEFINE Inv == TypeInv /\ Alone /\ WriterInv /\ RefireInv
<1>1. Init /\ Alone => Inv
  BY InitTypeInv, InitWriterInv, InitRefireInv
<1>2. ASSUME Inv, [Next]_vars PROVE Inv'
  <2>1. setting' = setting /\ TypeInv'
    BY <1>2, WorldTypes, TypeStep
  <2>2. Alone'
    BY <1>2, <2>1 DEF Alone, Given
  <2>3. Quiet
    BY <1>2 DEF Alone, Quiet
  <2> QED BY <1>2, <2>1, <2>2, <2>3, WriterStep, RefireStep
<1>3. Init => Contract!Init
  <2> SUFFICES ASSUME Init PROVE Contract!Init
    OBVIOUS
  <2>1. ledger = <<>> /\ DOMAIN ledger = {}
    BY DEF Init
  <2>2. OpenWakes(ledger) = {} /\ ToldWakes(ledger) = {}
    BY <2>1 DEF OpenWakes, ToldWakes, OpenAt
  <2>3. LastStarts(ledger) = [j \in Jobs |-> {}]
    BY <2>1 DEF LastStarts
  <2>4. Removals(ledger) = [j \in Jobs |-> 0]
    <3>1. ASSUME NEW j
          PROVE  {i \in DOMAIN ledger : ledger[i].event = "removed" /\ ledger[i].job = j} = {}
      BY <2>1
    <3>2. Cardinality({}) = 0
      BY FS_EmptySet
    <3> QED BY <3>1, <3>2 DEF Removals
  <2>5. [p \in Procs |-> proc[p].at] = [p \in Procs |-> 0]
    BY DEF Init, Fresh
  <2> QED BY <2>2, <2>3, <2>4, <2>5 DEF Contract!Init
<1>4. Inv /\ Inv' /\ [Next]_vars =>
        [Contract!Next]_<<OpenWakes(ledger), ToldWakes(ledger), LastStarts(ledger), Removals(ledger),
                          [p \in Procs |-> proc[p].at]>>
  <2> SUFFICES ASSUME Inv, Inv', [Next]_vars PROVE Contract!Next
    OBVIOUS
  <2>1. [p \in Procs |-> proc[p].at]' \in [Procs -> Nat]
    <3>1. \A p \in Procs : proc'[p] \in Locals
      BY DEF TypeInv, TypeOK
    <3>2. \A p \in Procs : proc'[p].at \in Nat
      BY <3>1 DEF Locals
    <3> QED BY <3>2
  <2>2. CASE ledger' = ledger
    BY <2>1, <2>2 DEF Contract!Next
  <2>3. CASE \E row : Allowed(row)
    <3>1. PICK row : Allowed(row)
      BY <2>3
    <3>2. \E w \in Wakes : Contract!Begin(w) \/ Contract!End(w) \/ Contract!Note(w)
      BY <3>1, AllowedStep DEF RefireInv
    <3> QED BY <2>1, <3>2 DEF Contract!Next
  <2> QED BY <2>2, <2>3, StepWrites
<1> HIDE DEF Inv
<1> QED BY <1>1, <1>2, <1>3, <1>4, PTL DEF Spec, KeepsTheContract, Contract!Spec

-----------------------------------------------------------------------------
(* What a pass goes on with                                                *)

\* The ledger has no row of wake w; the wake an invocation gives a job.
Untold(rows, w) == \A i \in DOMAIN rows : rows[i].wake # w
WakeOf(p, j) == [proc |-> p, job |-> j, kind |-> "wake"]

\* A wake is begun at most once, by the first of its rows.
BegunOnce(rows) ==
  \A i \in DOMAIN rows : rows[i].event = "started" =>
    /\ rows[i].ts # Never /\ rows[i].wake.kind = "wake"
    /\ \A k \in DOMAIN rows : rows[k].wake = rows[i].wake =>
         k >= i /\ (rows[k].event = "started" => k = i)

\* Every record of a store knows the start of the wake it names.
Known(rows, store) == \A j \in Jobs : store[j] # NoJob => Knows(rows, store[j])

\* The wakes an invocation may yet begin have no row ...
YetToRun(rows, p, m) ==
  \A j \in Jobs : Place(m) \in Early \/ j \in m.todo => Untold(rows, WakeOf(p, j))

\* ... nor has the one it has the lock for, until it begins it when it says.
AtItsWake(rows, p, m) ==
  /\ m.pc \in AtWake =>
       m.cur.proc = p /\ m.cur.kind = "wake" /\ m.cur.job \notin m.todo /\ m.started # Never
  /\ m.pc \in {"recheck", "begin"} => Untold(rows, m.cur)
  /\ m.pc \in {"spawn", "wait"} =>
       \A i \in DOMAIN rows :
         rows[i].event = "started" /\ rows[i].wake = m.cur => rows[i].ts = m.started

\* The record names a clock-skew row.
Healed(r) == r.wake \in Wakes /\ r.wake.kind = "skew"

\* Whom a pass wakes was due by its clock, or healed by a clock-skew row; and is
\* so still when that row is saved and told about.
Chosen(m) ==
  m.pc = "recheck" => Healed(m.mem[m.cur.job]) \/ IsDue(m.mem[m.cur.job], m.at)

AtGate(m) ==
  Place(m) = "gate" =>
    /\ m.todo # {} /\ m.notices \subseteq {Min(m.todo)}
    /\ m.pc = "reload" => m.touched = {Min(m.todo)} /\ m.mem[Min(m.todo)] # NoJob
    /\ m.mem[Min(m.todo)] # NoJob => Healed(m.mem[Min(m.todo)])

Seen(rows, p, m) ==
  /\ p \in RunDue => m.pc # "lock"
  /\ Known(rows, m.mem) /\ YetToRun(rows, p, m) /\ AtItsWake(rows, p, m)
  /\ Chosen(m) /\ AtGate(m)

\* The inductive invariant, of any cast: all that jobs.json and the memory of an
\* invocation say of a wake is in the ledger.
SeenInv ==
  /\ BegunOnce(ledger)
  /\ Known(ledger, disk)
  /\ \A p \in Procs : Seen(ledger, p, proc[p])

\* A row an invocation may write: of a wake of its own, or that ends one the
\* ledger has.
Adds(p, row) ==
  \/ row.event = "removed"
  \/ /\ row.event = "finished"
     /\ row.wake.proc = p \/ \E k \in DOMAIN ledger : ledger[k].wake = row.wake
  \/ /\ row.event = "started" /\ row.ts # Never
     /\ row.wake.proc = p /\ row.wake.kind = "wake" /\ Untold(ledger, row.wake)

\* What a record knew it knows.
LEMMA KnowsMore ==
  ASSUME NEW p, NEW row \in Rows, Adds(p, row), ledger \in Seq(Rows), NEW r, Knows(ledger, r)
  PROVE  Knows(Append(ledger, row), r)
<1> DEFINE more == Append(ledger, row)
<1>1. /\ \A k \in DOMAIN ledger : k \in DOMAIN more /\ more[k] = ledger[k]
      /\ more[Len(more)] = row
      /\ \A k \in DOMAIN more : k \in DOMAIN ledger \/ k = Len(more)
  BY RowMore
<1>2. FinishedIn(ledger, r.wake) => FinishedIn(more, r.wake)
  BY FinishedMore
<1>3. row.event = "started" => ~FinishedIn(ledger, row.wake)
  BY DEF Adds, Untold, FinishedIn
<1> HIDE DEF more
<1>4. Knows(more, r)
  BY <1>1, <1>2, <1>3 DEF Knows
<1> QED BY <1>4 DEF more

\* A wake is begun once still.
LEMMA BegunMore ==
  ASSUME NEW p, NEW row \in Rows, Adds(p, row), ledger \in Seq(Rows), BegunOnce(ledger)
  PROVE  BegunOnce(Append(ledger, row))
<1> DEFINE more == Append(ledger, row)
           last == Len(more)
<1>1. /\ \A k \in DOMAIN ledger : k \in DOMAIN more /\ more[k] = ledger[k] /\ k < last
      /\ more[last] = row /\ last \in Nat
      /\ \A k \in DOMAIN more : k \in DOMAIN ledger \/ k = last
      /\ DOMAIN ledger \subseteq Nat
  BY RowMore
<1> HIDE DEF more, last
<1> SUFFICES ASSUME NEW i \in DOMAIN more, more[i].event = "started"
             PROVE  /\ more[i].ts # Never /\ more[i].wake.kind = "wake"
                    /\ \A k \in DOMAIN more : more[k].wake = more[i].wake =>
                         k >= i /\ (more[k].event = "started" => k = i)
  BY DEF BegunOnce, more
<1>2. CASE i \in DOMAIN ledger
  <2>1. /\ more[i].ts # Never /\ more[i].wake.kind = "wake"
        /\ \A k \in DOMAIN ledger : ledger[k].wake = more[i].wake =>
             k >= i /\ (ledger[k].event = "started" => k = i)
    BY <1>1, <1>2 DEF BegunOnce
  <2>2. row.wake = more[i].wake => row.event # "started"
    BY <1>1, <1>2 DEF Adds, Untold
  <2>3. last >= i /\ i \in Nat
    BY <1>1, <1>2
  <2> QED BY <1>1, <2>1, <2>2, <2>3
<1>3. CASE i = last
  <2>1. row.ts # Never /\ row.wake.kind = "wake" /\ Untold(ledger, row.wake)
    BY <1>1, <1>3 DEF Adds
  <2> QED BY <1>1, <1>3, <2>1 DEF Untold
<1> QED BY <1>1, <1>2, <1>3

\* To the others it is no row of a wake of theirs that they may yet begin, nor
\* does it begin one they have.
LEMMA OthersSee ==
  ASSUME NEW p \in Procs, NEW q \in Procs \ {p}, NEW row \in Rows, Adds(p, row),
         ledger \in Seq(Rows), NEW m, Sound(m), Seen(ledger, q, m)
  PROVE  Seen(Append(ledger, row), q, m)
<1> DEFINE more == Append(ledger, row)
<1>1. /\ more[Len(more)] = row
      /\ \A k \in DOMAIN ledger : more[k] = ledger[k]
      /\ \A k \in DOMAIN more : k \in DOMAIN ledger \/ k = Len(more)
  BY RowMore
<1>2. Known(more, m.mem)
  BY KnowsMore DEF Seen, Known
<1>3. ASSUME NEW w \in Wakes, w.proc = q, Untold(ledger, w) PROVE Untold(more, w)
  <2>1. row.wake # w
    BY <1>3, RecordsAssumption DEF Adds, Rows, Untold
  <2> HIDE DEF more
  <2> QED BY <1>1, <1>3, <2>1 DEF Untold
<1>4. YetToRun(more, q, m)
  <2>1. \A j \in Jobs : WakeOf(q, j) \in Wakes /\ WakeOf(q, j).proc = q
    BY DEF WakeOf, Wakes
  <2> HIDE DEF more
  <2> QED BY <1>3, <2>1 DEF Seen, YetToRun
<1>5. AtItsWake(more, q, m)
  <2>1. m.pc \in AtWake => m.cur \in Wakes /\ m.cur.proc = q
    BY Mine DEF Sound, Seen, AtItsWake, AtWake
  <2>2. {"recheck", "begin"} \subseteq AtWake /\ {"spawn", "wait"} \subseteq AtWake
    BY DEF AtWake
  <2>3. m.pc \in {"recheck", "begin"} => Untold(more, m.cur)
    BY <1>3, <2>1, <2>2 DEF Seen, AtItsWake
  <2>4. m.pc \in AtWake => ~(row.event = "started" /\ row.wake = m.cur)
    BY <2>1 DEF Adds
  <2> HIDE DEF more
  <2>5. ASSUME m.pc \in {"spawn", "wait"}, NEW i \in DOMAIN more,
               more[i].event = "started", more[i].wake = m.cur
        PROVE  more[i].ts = m.started
    <3>1. i \in DOMAIN ledger
      BY <1>1, <2>2, <2>4, <2>5
    <3> QED BY <1>1, <2>5, <3>1 DEF Seen, AtItsWake
  <2> QED BY <2>3, <2>5 DEF Seen, AtItsWake
<1> QED BY <1>2, <1>4, <1>5 DEF Seen, more

-----------------------------------------------------------------------------
(* What a step must do                                                     *)

\* What a step of an invocation must do to keep the invariant.
LEMMA SeenGoesOn ==
  ASSUME TypeInv, SeenInv, NEW p \in Procs, NEW m, Becomes(p, m),
         ledger' = ledger \/ \E row \in Rows : Write(row) /\ Adds(p, row),
         \A j \in Jobs : disk'[j] \in {disk[j], proc[p].mem[j], NoJob},
         \A j \in Jobs : m.mem[j] \in {proc[p].mem[j], disk[j], NoJob} \/ Knows(ledger', m.mem[j]),
         m.pc # "done" => /\ p \in RunDue => m.pc # "lock"
                          /\ YetToRun(ledger', p, m) /\ AtItsWake(ledger', p, m)
                          /\ Chosen(m) /\ AtGate(m)
  PROVE  SeenInv'
<1>0. ledger \in Seq(Rows) /\ \A q \in Procs : Sound(proc[q]) /\ Seen(ledger, q, proc[q])
  BY DEF TypeInv, TypeOK, SoundInv, SeenInv
<1>1. ASSUME NEW r, Knows(ledger, r) PROVE Knows(ledger', r)
  BY <1>0, <1>1, KnowsMore DEF Write
<1>2. BegunOnce(ledger')
  BY <1>0, BegunMore DEF Write, SeenInv
<1>3. Known(ledger', proc[p].mem) /\ Known(ledger', disk)
  BY <1>0, <1>1 DEF Seen, SeenInv, Known
<1>4. Known(ledger', disk') /\ Known(ledger', m.mem)
  BY <1>3 DEF Known
<1>5. ASSUME NEW q \in Procs \ {p} PROVE Seen(ledger', q, proc'[q])
  <2>1. proc'[q] = proc[q] /\ Sound(proc[q]) /\ Seen(ledger, q, proc[q])
    BY <1>0, OthersStay
  <2> QED BY <1>0, <2>1, OthersSee DEF Write
<1>6. Seen(ledger', p, proc'[p])
  <2>1. CASE m.pc # "done"
    BY <1>4, <2>1, OthersStay DEF Seen
  <2>2. CASE m.pc = "done"
    <3> DEFINE n == Fresh("done")
    <3>1. proc'[p] = n
      BY <2>2, OthersStay
    <3>2. n.pc = "done" /\ n.todo = {} /\ \A j \in Jobs : n.mem[j] = NoJob
      BY DEF Fresh
    <3> HIDE DEF n
    <3>3. Seen(ledger', p, n)
      BY <3>2 DEF Seen, Known, YetToRun, AtItsWake, Chosen, AtGate, Place, Saving, Early, AtWake
    <3> QED BY <3>1, <3>3
  <2> QED BY <2>1, <2>2
<1> QED BY <1>2, <1>4, <1>5, <1>6 DEF SeenInv

\* The wakes it may yet begin are those it might, and have no row.
LEMMA YetMore ==
  ASSUME ledger \in Seq(Rows), NEW p \in Procs, YetToRun(ledger, p, proc[p]), NEW m,
         \/ ledger' = ledger
         \/ \E row \in Rows :
              /\ Write(row)
              /\ \A j \in Jobs : Place(m) \in Early \/ j \in m.todo => row.wake # WakeOf(p, j),
         Place(m) \in Early => Place(proc[p]) \in Early,
         Place(proc[p]) \in Early \/ \A j \in Jobs : j \in m.todo => j \in proc[p].todo
  PROVE  YetToRun(ledger', p, m)
<1> SUFFICES ASSUME NEW j \in Jobs, Place(m) \in Early \/ j \in m.todo
             PROVE  Untold(ledger', WakeOf(p, j))
  BY DEF YetToRun
<1>1. Untold(ledger, WakeOf(p, j))
  BY DEF YetToRun
<1>2. ASSUME NEW row \in Rows, Write(row), row.wake # WakeOf(p, j)
      PROVE  Untold(ledger', WakeOf(p, j))
  <2>1. /\ ledger'[Len(ledger')] = row
        /\ \A k \in DOMAIN ledger : ledger'[k] = ledger[k]
        /\ \A k \in DOMAIN ledger' : k \in DOMAIN ledger \/ k = Len(ledger')
    BY <1>2, RowMore DEF Write
  <2> QED BY <1>1, <1>2, <2>1 DEF Untold
<1> QED BY <1>1, <1>2

\* A step that takes no lock and writes no clock-skew row.
LEMMA SeenRests ==
  ASSUME TypeInv, SeenInv, NEW p \in Procs, NEW m, Becomes(p, m),
         \/ ledger' = ledger
         \/ \E row \in Rows :
              /\ Write(row) /\ Adds(p, row)
              /\ \A j \in Jobs : Place(m) \in Early \/ j \in m.todo => row.wake # WakeOf(p, j),
         \A j \in Jobs : disk'[j] \in {disk[j], proc[p].mem[j], NoJob},
         \A j \in Jobs : m.mem[j] \in {proc[p].mem[j], disk[j], NoJob} \/ Knows(ledger', m.mem[j]),
         Place(m) \in Early => Place(proc[p]) \in Early,
         Place(proc[p]) \in Early \/ \A j \in Jobs : j \in m.todo => j \in proc[p].todo,
         m.pc \notin AtWake, p \in RunDue => m.pc # "lock", Place(m) # "gate"
  PROVE  SeenInv'
<1>1. YetToRun(ledger', p, m)
  <2>1. ledger \in Seq(Rows) /\ YetToRun(ledger, p, proc[p])
    BY DEF TypeInv, TypeOK, SeenInv, Seen
  <2> QED BY <2>1, YetMore
<1>2. AtItsWake(ledger', p, m) /\ Chosen(m) /\ AtGate(m)
  BY DEF AtItsWake, Chosen, AtGate, AtWake
<1>3. ledger' = ledger \/ \E row \in Rows : Write(row) /\ Adds(p, row)
  OBVIOUS
<1> QED BY <1>1, <1>2, <1>3, SeenGoesOn

\* A step that moves on and leaves jobs.json, the ledger and the memory alone.
LEMMA SeenMoves ==
  ASSUME TypeInv, SeenInv, NEW p \in Procs, NEW m, Becomes(p, m), disk' = disk, ledger' = ledger,
         \A j \in Jobs : m.mem[j] \in {proc[p].mem[j], disk[j], NoJob},
         Place(m) \in Early => Place(proc[p]) \in Early,
         Place(proc[p]) \in Early \/ \A j \in Jobs : j \in m.todo => j \in proc[p].todo,
         m.pc \notin AtWake, p \in RunDue => m.pc # "lock", Place(m) # "gate"
  PROVE  SeenInv'
<1>1. \A j \in Jobs : disk'[j] \in {disk[j], proc[p].mem[j], NoJob}
  OBVIOUS
<1> QED BY <1>1, SeenRests

-----------------------------------------------------------------------------
(* The steps, whoever takes them                                           *)

\* An invocation begins, ends, fails or dies.
LEMMA FreshSeen ==
  ASSUME TypeInv, SeenInv, NEW p \in Procs, disk' = disk, ledger' = ledger,
         NEW pc \in {"unlock", "end", "done", "gone"}, NEW cur,
         Becomes(p, Fresh(pc)) \/ Becomes(p, [Fresh(pc) EXCEPT !.cur = cur])
  PROVE  SeenInv'
<1> DEFINE m == Fresh(pc)
           n == [Fresh(pc) EXCEPT !.cur = cur]
<1>1. m.pc = pc /\ n.pc = pc /\ m.todo = {} /\ n.todo = {}
      /\ \A j \in Jobs : m.mem[j] = NoJob /\ n.mem[j] = NoJob
  BY DEF Fresh
<1>2. Becomes(p, m) \/ Becomes(p, n)
  OBVIOUS
<1> HIDE DEF m, n
<1>3. Place(m) = pc /\ Place(n) = pc
  BY <1>1 DEF Place, Saving
<1> QED BY <1>1, <1>2, <1>3, SeenMoves DEF Early, AtWake

LEMMA EndSeen ==
  ASSUME TypeInv, SeenInv, NEW p \in Procs,
         StartPass(p) \/ StartReconcile(p) \/ Fail(p) \/ Die(p) \/ EndPass(p)
  PROVE  SeenInv'
<1> DEFINE me == proc[p]
<1>0. me \in Locals /\ disk' = disk /\ ledger' = ledger
  BY DEF StartPass, StartReconcile, Fail, Die, EndPass, files, TypeInv, TypeOK
<1>1. CASE StartPass(p) \/ StartReconcile(p)
  <2>1. PICK pc \in {"done", "load"} : Becomes(p, [me EXCEPT !.pc = pc])
    BY <1>1 DEF StartPass, StartReconcile, Goto
  <2> DEFINE n == [me EXCEPT !.pc = pc]
  <2>2. Becomes(p, n) /\ me.pc = "start"
    BY <1>1, <2>1 DEF StartPass, StartReconcile, At
  <2> HIDE DEF me
  <2>3. n.pc = pc /\ n.mem = me.mem
    BY <1>0, LocalsFields
  <2> HIDE DEF n
  <2>4. Place(n) = pc /\ Place(me) = "start"
    BY <2>2, <2>3 DEF Place, Saving
  <2> QED BY <1>0, <2>2, <2>3, <2>4, SeenMoves DEF me, Early, AtWake
<1>2. CASE Fail(p)
  <2>1. PICK pc \in {"unlock", "end", "done"} : Becomes(p, [Fresh(pc) EXCEPT !.cur = me.cur])
    BY <1>2 DEF Fail
  <2> QED BY <1>0, <2>1, FreshSeen
<1>3. CASE Die(p) \/ EndPass(p)
  <2>1. Becomes(p, Fresh("gone")) \/ Becomes(p, Fresh("done"))
    BY <1>3 DEF Die, EndPass
  <2> QED BY <1>0, <2>1, FreshSeen
<1> QED BY <1>1, <1>2, <1>3

\* It reads the store and the ledger, and goes through its jobs.
LEMMA TurnSeen ==
  ASSUME TypeInv, SeenInv, NEW p \in Procs,
         \/ Load(p) \/ ReadRows(p) \/ EnterLoop(p) \/ PassOver(p) \/ CardAnswer(p) \/ Unlock(p)
  PROVE  SeenInv'
<1> DEFINE me == proc[p]
<1>0. me \in Locals /\ disk' = disk /\ ledger' = ledger
  BY DEF Load, ReadRows, EnterLoop, PassOver, CardAnswer, Unlock, files, TypeInv, TypeOK
\* Where a step is enough.
<1>1. ASSUME NEW n, Becomes(p, n), n.mem = me.mem \/ n.mem = disk,
             n.pc \in {"rows", "close", "loop", "judge"} \/ (n.pc = "reload" /\ n.ret = "judge"),
             n.pc \in {"rows", "close"} => me.pc \in {"load", "rows"},
             me.pc = "enter" \/ n.todo \subseteq me.todo
      PROVE  SeenInv'
  <2>1. Place(n) = IF n.pc = "reload" THEN "judge" ELSE n.pc
    BY <1>1 DEF Place, Saving
  <2>2. me.pc \in {"load", "rows", "enter"} => Place(me) \in Early
    BY DEF Place, Saving, Early
  <2>3. n.pc \notin AtWake /\ Place(n) # "gate" /\ n.pc # "lock"
    BY <1>1, <2>1 DEF AtWake
  <2>4. Place(n) \in Early => Place(me) \in Early
    BY <1>1, <2>1, <2>2 DEF Early
  <2>5. Place(me) \in Early \/ \A j \in Jobs : j \in n.todo => j \in me.todo
    BY <1>1, <2>2
  <2> QED BY <1>0, <1>1, <2>3, <2>4, <2>5, SeenMoves
<1>2. CASE Load(p)
  <2> DEFINE n == [me EXCEPT !.mem = disk, !.pc = "rows"]
  <2>1. Becomes(p, n) /\ me.pc = "load"
    BY <1>2 DEF Load, At
  <2> HIDE DEF me
  <2>2. n.pc = "rows" /\ n.mem = disk /\ n.todo = me.todo
    BY <1>0, LocalsFields
  <2> HIDE DEF n
  <2> QED BY <1>1, <2>1, <2>2
<1>3. CASE ReadRows(p)
  <2> DEFINE n == [me EXCEPT !.rows = Len(ledger), !.scan = 1, !.pc = "close"]
  <2>1. Becomes(p, n) /\ me.pc = "rows"
    BY <1>3 DEF ReadRows, At
  <2> HIDE DEF me
  <2>2. n.pc = "close" /\ n.mem = me.mem /\ n.todo = me.todo
    BY <1>0, LocalsFields
  <2> HIDE DEF n
  <2> QED BY <1>1, <2>1, <2>2
<1>4. CASE EnterLoop(p)
  <2> DEFINE todo == {j \in Jobs : me.mem[j] # NoJob}
             n == [me EXCEPT !.todo = todo, !.at = now, !.pc = "loop"]
  <2>1. Becomes(p, n) /\ me.pc = "enter"
    BY <1>4 DEF EnterLoop, At
  <2> HIDE DEF me, todo
  <2>2. n.pc = "loop" /\ n.mem = me.mem
    BY <1>0, LocalsFields
  <2> HIDE DEF n
  <2> QED BY <1>1, <2>1, <2>2
<1>5. CASE PassOver(p)
  <2>1. PICK j \in Jobs : Becomes(p, [me EXCEPT !.todo = @ \ {j}, !.pc = "loop"])
    BY <1>5 DEF PassOver
  <2> DEFINE n == [me EXCEPT !.todo = @ \ {j}, !.pc = "loop"]
  <2>2. Becomes(p, n)
    BY <2>1
  <2> HIDE DEF me
  <2>3. n.pc = "loop" /\ n.mem = me.mem /\ n.todo = me.todo \ {j}
    BY <1>0, LocalsFields
  <2> HIDE DEF n
  <2> QED BY <1>1, <2>2, <2>3
<1>6. CASE CardAnswer(p)
  <2> DEFINE j == Min(me.todo)
  <2>1. \/ Becomes(p, [me EXCEPT !.pc = "judge"])
        \/ \E disable \in BOOLEAN :
             Becomes(p, [me EXCEPT
               !.put = [job |-> j, report |-> [me.mem[j].report EXCEPT !.card = "spent"],
                        disable |-> disable],
               !.touched = {j}, !.pc = "reload", !.ret = "judge"])
    BY <1>6 DEF CardAnswer, Goto
  <2>2. CASE Becomes(p, [me EXCEPT !.pc = "judge"])
    <3> DEFINE n == [me EXCEPT !.pc = "judge"]
    <3>1. Becomes(p, n)
      BY <2>2
    <3> HIDE DEF me
    <3>2. n.pc = "judge" /\ n.mem = me.mem /\ n.todo = me.todo
      BY <1>0, LocalsFields
    <3> HIDE DEF n
    <3> QED BY <1>1, <3>1, <3>2
  <2>3. ASSUME NEW put,
               Becomes(p, [me EXCEPT !.put = put, !.touched = {j}, !.pc = "reload", !.ret = "judge"])
        PROVE  SeenInv'
    <3> DEFINE n == [me EXCEPT !.put = put, !.touched = {j}, !.pc = "reload", !.ret = "judge"]
    <3>1. Becomes(p, n)
      BY <2>3
    <3> HIDE DEF me, j
    <3>2. n.pc = "reload" /\ n.ret = "judge" /\ n.mem = me.mem /\ n.todo = me.todo
      BY <1>0, LocalsFields
    <3> HIDE DEF n
    <3> QED BY <1>1, <3>1, <3>2
  <2> HIDE DEF me, j
  <2> QED BY <2>1, <2>2, <2>3
<1>7. CASE Unlock(p)
  <2> DEFINE n == [me EXCEPT !.cur = NoWake, !.started = 0, !.pc = "loop"]
  <2>1. Becomes(p, n) \/ Becomes(p, Fresh("done"))
    BY <1>7 DEF Unlock
  <2>2. CASE Becomes(p, Fresh("done"))
    BY <1>0, <2>2, FreshSeen
  <2>3. CASE Becomes(p, n)
    <3> HIDE DEF me
    <3>1. n.pc = "loop" /\ n.mem = me.mem /\ n.todo = me.todo
      BY <1>0, LocalsFields
    <3> HIDE DEF n
    <3> QED BY <1>1, <2>3, <3>1
  <2> QED BY <2>1, <2>2, <2>3
<1> QED BY <1>2, <1>3, <1>4, <1>5, <1>6, <1>7

\* It merges, saves and tells: it stays in the turn it is in.
LEMMA SaverSeen ==
  ASSUME TypeInv, SeenInv, NEW p \in Procs, NEW m, Becomes(p, m), ledger' = ledger,
         \A j \in Jobs : disk'[j] \in {disk[j], proc[p].mem[j], NoJob},
         \A j \in Jobs : m.mem[j] \in {proc[p].mem[j], disk[j], NoJob} \/ Knows(ledger, m.mem[j]),
         Place(m) = Place(proc[p]), m.todo = proc[p].todo, m.pc \notin AtWake, m.pc # "lock",
         AtGate(m)
  PROVE  SeenInv'
<1>1. YetToRun(ledger', p, m)
  BY DEF SeenInv, Seen, YetToRun
<1>2. AtItsWake(ledger', p, m) /\ Chosen(m)
  BY DEF AtItsWake, Chosen, AtWake
<1>3. \A j \in Jobs : m.mem[j] \in {proc[p].mem[j], disk[j], NoJob} \/ Knows(ledger', m.mem[j])
  OBVIOUS
<1> QED BY <1>1, <1>2, <1>3, SeenGoesOn

\* Where it is when a save is done.
LEMMA SaveReturns ==
  ASSUME NEW m, Sound(m), m.pc \in Saving, NEW n, n.ret = m.ret,
         n.pc \in {"save", "notify", "reload", m.ret}
  PROVE  Place(n) = Place(m) /\ n.pc \notin AtWake /\ n.pc # "lock" /\ Place(n) = m.ret
BY DEF Sound, Returns, Place, Saving, AtWake

LEMMA SaveSeen ==
  ASSUME TypeInv, SeenInv, NEW p \in Procs, Save(p)
  PROVE  SeenInv'
<1> DEFINE me == proc[p]
           pc == AfterSave(me)
           n == [me EXCEPT !.pc = pc]
<1>1. Sound(me) /\ me \in Locals /\ me.pc = "save" /\ disk' = me.mem /\ ledger' = ledger /\ Becomes(p, n)
      /\ pc \in {"notify", me.ret} /\ AtGate(me)
  BY DEF Save, Goto, At, AfterSave, TypeInv, TypeOK, SoundInv, SeenInv, Seen
<1> HIDE DEF me, pc
<1>2. n.pc = pc /\ n.ret = me.ret /\ n.mem = me.mem /\ n.todo = me.todo /\ n.notices = me.notices
  BY <1>1, LocalsFields
<1> HIDE DEF n
<1>3. Place(n) = Place(me) /\ n.pc \notin AtWake /\ n.pc # "lock" /\ n.pc # "reload"
  <2>1. Place(n) = Place(me) /\ n.pc \notin AtWake /\ n.pc # "lock"
    BY <1>1, <1>2, SaveReturns DEF Saving
  <2> QED BY <1>1, <1>2, <2>1 DEF Sound, Returns
<1>4. AtGate(n)
  BY <1>1, <1>2, <1>3 DEF AtGate
<1> QED BY <1>1, <1>2, <1>3, <1>4, SaverSeen DEF me

LEMMA NotifySeen ==
  ASSUME TypeInv, SeenInv, NEW p \in Procs, Notify(p)
  PROVE  SeenInv'
<1> DEFINE me == proc[p]
           j == Min(me.notices)
           m == [me EXCEPT !.notices = @ \ {j}]
           pc == AfterSave(m)
<1>1. Sound(me) /\ me \in Locals /\ me.pc = "notify" /\ disk' = disk /\ ledger' = ledger /\ AtGate(me)
  BY DEF Notify, At, TypeInv, TypeOK, SoundInv, SeenInv, Seen, files
<1>2. \/ /\ me.mem[j] # NoJob
         /\ \E card \in {"none", "open", "spent"} :
              Becomes(p, [m EXCEPT
                !.put = [job |-> j, report |-> [me.mem[j].report EXCEPT !.card = card],
                         disable |-> FALSE],
                !.touched = {j}, !.pc = "reload"])
      \/ Becomes(p, [m EXCEPT !.pc = pc])
  BY DEF Notify
<1>3. m.mem = me.mem /\ m.ret = me.ret /\ m.todo = me.todo /\ m.notices = me.notices \ {j} /\ m \in Locals
  <2> HIDE DEF me, j
  <2> QED BY <1>1, LocalsFields
<1>4. pc \in {"notify", me.ret}
  BY <1>3 DEF AfterSave
<1>5. Place(me) = "gate" => j = Min(me.todo)
  <2>1. me.notices # {} /\ me.notices \in SUBSET Nat
    BY <1>1, Mine DEF Sound, Jobs
  <2> HIDE DEF me
  <2>2. j \in me.notices
    BY <2>1, MinIn
  <2> QED BY <1>1, <2>2 DEF AtGate
<1>6. ASSUME NEW n, Becomes(p, n), n.pc \in {"reload", "notify", me.ret}, n.ret = me.ret, n.mem = me.mem,
             n.todo = me.todo, n.notices = me.notices \ {j},
             n.pc = "reload" => n.touched = {j} /\ me.mem[j] # NoJob
      PROVE  SeenInv'
  <2>1. Place(n) = Place(me) /\ n.pc \notin AtWake /\ n.pc # "lock"
    BY <1>1, <1>6, SaveReturns DEF Saving
  <2> HIDE DEF me, j
  <2>2. AtGate(n)
    BY <1>1, <1>5, <1>6, <2>1 DEF AtGate
  <2> QED BY <1>1, <1>6, <2>1, <2>2, SaverSeen DEF me
<1>7. CASE Becomes(p, [m EXCEPT !.pc = pc])
  <2> DEFINE n == [m EXCEPT !.pc = pc]
  <2>1. Becomes(p, n)
    BY <1>7
  <2> HIDE DEF me, m, pc, j
  <2>2. n.pc = pc /\ n.mem = m.mem /\ n.ret = m.ret /\ n.todo = m.todo /\ n.notices = m.notices
    BY <1>3, LocalsFields
  <2>3. pc # "reload"
    BY <1>1, <1>4 DEF Sound, Returns
  <2> HIDE DEF n
  <2> QED BY <1>3, <1>4, <1>6, <2>1, <2>2, <2>3
<1>8. ASSUME me.mem[j] # NoJob, NEW put,
             Becomes(p, [m EXCEPT !.put = put, !.touched = {j}, !.pc = "reload"])
      PROVE  SeenInv'
  <2> DEFINE n == [m EXCEPT !.put = put, !.touched = {j}, !.pc = "reload"]
  <2>1. Becomes(p, n)
    BY <1>8
  <2> HIDE DEF me, m, j
  <2>2. /\ n.pc = "reload" /\ n.mem = m.mem /\ n.ret = m.ret /\ n.todo = m.todo
        /\ n.notices = m.notices /\ n.touched = {j}
    BY <1>3, LocalsFields
  <2> HIDE DEF n
  <2> QED BY <1>3, <1>6, <1>8, <2>1, <2>2
<1> HIDE DEF me, j, m, pc
<1> QED BY <1>2, <1>7, <1>8

\* What is merged is the record of one or the start of the other, and what it
\* names; card code writes over neither.
LEMMA MergeKnows ==
  ASSUME NEW rows, NEW fresh \in Stores, NEW mine \in Stores, NEW touched \in SUBSET Jobs,
         NEW put \in Puts, Known(rows, fresh), Known(rows, mine), NEW j \in Jobs,
         WithPut(Merge(fresh, mine, touched), put)[j] # NoJob
  PROVE  /\ Knows(rows, WithPut(Merge(fresh, mine, touched), put)[j])
         /\ j \in touched /\ mine[j] # NoJob =>
              WithPut(Merge(fresh, mine, touched), put)[j].wake = mine[j].wake
<1> DEFINE merged == Merge(fresh, mine, touched)
           r == WithPut(merged, put)[j]
<1>1. merged \in Stores
  BY MergeType
<1>2. merged[j] = IF j \in touched /\ fresh[j] # NoJob /\ mine[j] # NoJob
                    THEN Overlay(fresh[j], mine[j]) ELSE fresh[j]
  BY DEF Merge
<1>3. merged[j] # NoJob /\ Same(merged[j], r)
  <2>1. r # NoJob
    OBVIOUS
  <2> HIDE DEF merged
  <2> QED BY <1>1, <2>1, PutSame
<1>4. fresh[j] # NoJob /\ fresh[j] \in Records
  BY <1>2, <1>3 DEF Stores
<1> HIDE DEF r, merged
<1>5. CASE j \in touched /\ mine[j] # NoJob
  <2>1. mine[j] \in Records
    BY <1>5 DEF Stores
  <2> DEFINE was == mine[j]
             is == fresh[j]
             x == Overlay(is, was)
  <2>2. merged[j] = x /\ is \in Records /\ was \in Records /\ Knows(rows, was)
    BY <1>2, <1>4, <1>5, <2>1 DEF Known
  <2> HIDE DEF was, is
  <2>3. x.wake = was.wake /\ x.started = was.started
    BY <2>2 DEF Overlay, Records
  <2> HIDE DEF x
  <2>4. r.wake = was.wake /\ r.started = was.started
    BY <1>3, <2>2, <2>3 DEF Same
  <2>5. Knows(rows, r)
    BY <2>2, <2>4 DEF Knows
  <2>6. r.wake = mine[j].wake
    BY <2>4 DEF was
  <2> QED BY <2>5, <2>6 DEF r, merged
<1>6. CASE ~(j \in touched /\ mine[j] # NoJob)
  <2>1. merged[j] = fresh[j] /\ Knows(rows, fresh[j])
    BY <1>2, <1>4, <1>6 DEF Known
  <2>2. Knows(rows, r)
    BY <1>3, <2>1 DEF Same, Knows
  <2> QED BY <1>6, <2>2 DEF r, merged
<1> QED BY <1>5, <1>6

LEMMA ReloadSeen ==
  ASSUME TypeInv, SeenInv, NEW p \in Procs, Reload(p)
  PROVE  SeenInv'
<1> DEFINE me == proc[p]
           mem == WithPut(Merge(disk, me.mem, me.touched), me.put)
           m == [me EXCEPT !.mem = mem, !.touched = {}, !.put = NoJob]
<1>1. /\ Sound(me) /\ me \in Locals /\ me.pc = "reload" /\ disk' = disk /\ ledger' = ledger
      /\ AtGate(me) /\ Known(ledger, disk) /\ Known(ledger, me.mem)
  BY DEF Reload, At, TypeInv, TypeOK, SoundInv, SeenInv, Seen, files
<1>2. /\ disk \in Stores /\ me.mem \in Stores /\ me.touched \in SUBSET Jobs /\ me.put \in Puts
      /\ me.todo \in SUBSET Jobs /\ me.todo \in SUBSET Nat
  <2> HIDE DEF me
  <2> QED BY <1>1, Mine DEF TypeInv, TypeOK, Stores, Jobs
<1>3. PICK pc \in {"save", AfterSave(m)} : Becomes(p, [m EXCEPT !.pc = pc])
  BY DEF Reload
<1> DEFINE n == [m EXCEPT !.pc = pc]
<1>4. Becomes(p, n)
  BY <1>3
<1>5. ASSUME NEW j \in Jobs, mem[j] # NoJob
      PROVE  /\ Knows(ledger, mem[j])
             /\ j \in me.touched /\ me.mem[j] # NoJob => mem[j].wake = me.mem[j].wake
  <2> HIDE DEF me
  <2> QED BY <1>1, <1>2, <1>5, MergeKnows
<1>6. pc \in {"save", "notify", me.ret}
  <2>1. m.ret = me.ret
    <3> HIDE DEF me, mem
    <3> QED BY <1>1, LocalsFields
  <2> QED BY <1>3, <2>1 DEF AfterSave
<1> HIDE DEF me, mem
<1>7. n.pc = pc /\ n.mem = mem /\ n.ret = me.ret /\ n.todo = me.todo /\ n.notices = me.notices
  BY <1>1, LocalsFields
<1> HIDE DEF n
<1>8. Place(n) = Place(me) /\ n.pc \notin AtWake /\ n.pc # "lock" /\ n.pc # "reload"
  <2>1. Place(n) = Place(me) /\ n.pc \notin AtWake /\ n.pc # "lock"
    BY <1>1, <1>6, <1>7, SaveReturns DEF Saving
  <2> QED BY <1>1, <1>6, <1>7, <2>1 DEF Sound, Returns
<1>9. AtGate(n)
  <2> DEFINE j == Min(me.todo)
  <2> SUFFICES ASSUME Place(n) = "gate"
               PROVE  /\ n.todo # {} /\ n.notices \subseteq {Min(n.todo)}
                      /\ n.mem[Min(n.todo)] # NoJob => Healed(n.mem[Min(n.todo)])
    BY <1>8 DEF AtGate
  <2>1. /\ me.todo # {} /\ me.notices \subseteq {j} /\ me.touched = {j} /\ me.mem[j] # NoJob
        /\ Healed(me.mem[j])
    BY <1>1, <1>8 DEF AtGate
  <2>2. j \in Jobs
    BY <1>2, <2>1, MinIn
  <2>3. mem[j] # NoJob => mem[j].wake = me.mem[j].wake
    BY <1>5, <2>1, <2>2
  <2> HIDE DEF j
  <2>4. mem[j] # NoJob => Healed(mem[j])
    BY <2>1, <2>3 DEF Healed
  <2> QED BY <1>7, <2>1, <2>4 DEF j
<1> QED BY <1>1, <1>4, <1>5, <1>7, <1>8, <1>9, SaverSeen DEF me

-----------------------------------------------------------------------------
(* Rows and stamps                                                         *)

\* The wake began at ts at the latest.
BeganBy(rows, w, ts) ==
  \A i \in DOMAIN rows : rows[i].event = "started" /\ rows[i].wake = w => ts >= rows[i].ts

\* A stamp by a wake that is over, at its start or later, names what it knows.
LEMMA StampKnows ==
  ASSUME NEW rows \in Seq(Rows), NEW r \in Records, NEW w \in Wakes, NEW ts \in Nat,
         NEW state \in States \cup {"none"}, NEW executed \in BOOLEAN, FinishedIn(rows, w),
         BeganBy(rows, w, ts)
  PROVE  LET n == Stamp(r, w, ts, state, executed)
         IN n \in Records /\ n.wake = w /\ Knows(rows, n)
<1> DEFINE n == Stamp(r, w, ts, state, executed)
<1>1. n \in Records /\ n.wake = w /\ n.started >= ts
  BY StampMoves
<1>2. \A i \in DOMAIN rows : rows[i].ts \in Nat
  BY DEF Rows
<1> HIDE DEF n
<1>3. n.started \in Nat
  BY <1>1 DEF Records
<1>4. \A i \in DOMAIN rows : rows[i].event = "started" /\ rows[i].wake = w => n.started >= rows[i].ts
  BY <1>1, <1>2, <1>3 DEF BeganBy
<1>5. Knows(rows, n)
  BY <1>1, <1>4 DEF Knows
<1> QED BY <1>1, <1>5 DEF n

\* An invocation writes the row that ends a wake and stamps its job in memory.
LEMMA StampSeen ==
  ASSUME TypeInv, NEW p \in Procs, NEW row \in Rows, Write(row), row.event = "finished",
         proc[p].mem[row.job] # NoJob, NEW ts \in Nat, NEW executed \in BOOLEAN,
         BeganBy(ledger, row.wake, ts),
         NEW mem, mem = [proc[p].mem EXCEPT ![row.job] =
                           Stamp(proc[p].mem[row.job], row.wake, ts, row.state, executed)]
  PROVE  \A j \in Jobs : mem[j] = proc[p].mem[j] \/ Knows(ledger', mem[j])
<1> DEFINE was == proc[p].mem[row.job]
           r == Stamp(was, row.wake, ts, row.state, executed)
<1>1. /\ ledger \in Seq(Rows) /\ ledger' = Append(ledger, row) /\ proc[p].mem \in Stores
      /\ row.wake \in Wakes /\ row.job \in Jobs /\ row.state \in States \cup {"none"}
  <2>1. proc[p].mem \in Stores /\ ledger \in Seq(Rows)
    BY LocalsFields DEF TypeInv, TypeOK
  <2> QED BY <2>1 DEF Write, Rows
<1>2. was \in Records
  BY <1>1 DEF Stores
<1>3. /\ ledger'[Len(ledger')] = row /\ ledger' \in Seq(Rows)
      /\ \A k \in DOMAIN ledger : ledger'[k] = ledger[k]
      /\ \A k \in DOMAIN ledger' : k \in DOMAIN ledger \/ k = Len(ledger')
  BY <1>1, RowMore
<1>4. FinishedIn(ledger', row.wake)
  BY <1>1, FinishedMore
<1>5. BeganBy(ledger', row.wake, ts)
  BY <1>3 DEF BeganBy
<1> HIDE DEF was
<1>6. r \in Records /\ r.wake = row.wake /\ Knows(ledger', r)
  <2> DEFINE w == row.wake
             state == row.state
             e == executed
  <2>1. w \in Wakes /\ state \in States \cup {"none"} /\ e \in BOOLEAN
    BY <1>1
  <2>2. FinishedIn(ledger', w) /\ BeganBy(ledger', w, ts) /\ ledger' \in Seq(Rows)
    BY <1>3, <1>4, <1>5
  <2>3. r = Stamp(was, w, ts, state, e)
    OBVIOUS
  <2> HIDE DEF w, state, e, r
  <2>4. r \in Records /\ r.wake = w
    BY <1>2, <2>1, <2>3, StampMoves
  <2>5. Knows(ledger', r)
    BY <1>2, <2>1, <2>2, <2>3, StampKnows
  <2> QED BY <2>4, <2>5 DEF w
<1>7. mem = [proc[p].mem EXCEPT ![row.job] = r]
  BY DEF was
<1> HIDE DEF r
<1>8. \A j \in Jobs : mem[j] = IF j = row.job THEN r ELSE proc[p].mem[j]
  BY <1>1, <1>7 DEF Stores
<1> QED BY <1>6, <1>8

\* An orphan is closed, and its job stamped at its start.
LEMMA CloseSeen ==
  ASSUME TypeInv, SeenInv, NEW p \in Procs, CloseOrphan(p)
  PROVE  SeenInv'
<1> DEFINE me == proc[p]
           i == Min(ToJudge(me))
           w == ledger[i].wake
           j == w.job
           ts == ledger[i].ts
           executed == FALSE
           row == FinishedRow(w, "orphaned", now)
           was == me.mem[j]
           r == Stamp(was, w, ts, "orphaned", executed)
           mem == [me.mem EXCEPT ![j] = r]
           m == [me EXCEPT !.scan = i + 1]
           n == [m EXCEPT !.mem = mem, !.touched = m.touched \cup {j}, !.notices = m.notices \cup {j}]
<1>0. me.pc = "close" /\ disk' = disk /\ ToJudge(me) # {}
  BY DEF CloseOrphan, At
<1>1. me \in Locals /\ me.mem \in Stores /\ ledger \in Seq(Rows) /\ now \in Nat /\ BegunOnce(ledger)
  BY LocalsFields DEF TypeInv, TypeOK, SeenInv
<1>2. /\ i \in DOMAIN ledger /\ ledger[i].event = "started" /\ w \in Wakes /\ ts \in Nat /\ j \in Jobs
  <2>1. i \in DOMAIN ledger /\ ledger[i].event = "started" /\ w \in Wakes /\ ts \in Nat
    BY <1>0, ToJudgeType
  <2> HIDE DEF w
  <2> QED BY <2>1 DEF Wakes
<1>3. \/ Becomes(p, m) /\ ledger' = ledger
      \/ Write(row) /\ Becomes(p, m) /\ was = NoJob
      \/ Write(row) /\ Becomes(p, n) /\ was # NoJob
  <2>1. [m EXCEPT !.mem[j] = Stamp(@, w, ts, "orphaned", executed),
                  !.touched = @ \cup {j}, !.notices = @ \cup {j}] = n
    <3>1. m \in Locals /\ m.mem = me.mem
      <4>1. i + 1 \in Nat
        BY <1>1, <1>2
      <4> HIDE DEF me, i
      <4> QED BY <1>1, <4>1, LocalsFields
    <3>2. m.mem \in Stores
      BY <1>1, <3>1
    <3>3. [m EXCEPT !.mem[j] = Stamp(@, w, ts, "orphaned", executed),
                    !.touched = @ \cup {j}, !.notices = @ \cup {j}] =
          [m EXCEPT !.mem = [m.mem EXCEPT ![j] = Stamp(m.mem[j], w, ts, "orphaned", executed)],
                    !.touched = m.touched \cup {j}, !.notices = m.notices \cup {j}]
      <4> HIDE DEF m, w, ts, j, executed
      <4> QED BY <3>1, LocalsFields
    <3> HIDE DEF m, w, ts, j, executed
    <3> QED BY <3>1, <3>3
  <2>2. \/ Becomes(p, m) /\ ledger' = ledger
        \/ Write(row) /\ Becomes(p, IF was = NoJob THEN m
             ELSE [m EXCEPT !.mem[j] = Stamp(@, w, ts, "orphaned", executed),
                            !.touched = @ \cup {j}, !.notices = @ \cup {j}])
    BY DEF CloseOrphan
  <2> HIDE DEF m, n, w, ts, j, executed, row, was
  <2> QED BY <2>1, <2>2
<1>4. executed \in BOOLEAN /\ "orphaned" \in States
  BY DEF States, UnstampedStates, BadStates
<1>5. row \in Rows /\ row.event = "finished" /\ row.job = j /\ row.wake = w /\ row.state = "orphaned"
  BY <1>1, <1>2, <1>4, RowTypes DEF FinishedRow
<1>6. BeganBy(ledger, w, ts)
  <2>1. \A k \in DOMAIN ledger : ledger[k].event = "started" /\ ledger[k].wake = w => k = i
    BY <1>1, <1>2 DEF BegunOnce
  <2> QED BY <1>2, <2>1 DEF BeganBy
<1>7. Adds(p, row) /\ \A x \in Jobs : YetToRun(ledger, p, me) => row.wake # WakeOf(p, x)
  <2>1. Place(me) \in Early
    BY <1>0 DEF Place, Saving, Early
  <2> HIDE DEF me, i, w
  <2> QED BY <1>2, <1>5, <2>1 DEF Adds, YetToRun, Untold, w
<1>8. YetToRun(ledger, p, me)
  BY DEF SeenInv, Seen
<1>9. was # NoJob /\ Write(row) => \A x \in Jobs : mem[x] = proc[p].mem[x] \/ Knows(ledger', mem[x])
  <2> SUFFICES ASSUME was # NoJob, Write(row)
               PROVE  \A x \in Jobs : mem[x] = proc[p].mem[x] \/ Knows(ledger', mem[x])
    OBVIOUS
  <2>1. mem = [proc[p].mem EXCEPT ![row.job] =
                 Stamp(proc[p].mem[row.job], row.wake, ts, row.state, executed)]
    BY <1>5
  <2>2. proc[p].mem[row.job] # NoJob
    BY <1>5
  <2> HIDE DEF mem, row, executed, ts, w, i
  <2> QED BY <1>2, <1>4, <1>5, <1>6, <2>1, <2>2, StampSeen
<1> HIDE DEF executed, i, w, ts, row, j
<1>10. m.pc = "close" /\ m.mem = me.mem /\ m.todo = me.todo
  <2> HIDE DEF me
  <2> QED BY <1>0, <1>1, LocalsFields
<1>11. n.pc = "close" /\ n.mem = mem /\ n.todo = me.todo
  <2>1. m.pc = "close" /\ m.todo = me.todo /\ DOMAIN m = DOMAIN me
    BY <1>10
  <2> HIDE DEF mem, me
  <2> QED BY <1>0, <1>1, <2>1, LocalsFields
<1> HIDE DEF m, n, mem
<1>12. Place(me) \in Early
  BY <1>0 DEF Place, Saving, Early
<1>13. ASSUME NEW k, k \in {m, n}
       PROVE  k.pc \notin AtWake /\ k.pc # "lock" /\ Place(k) # "gate"
  BY <1>10, <1>11, <1>13 DEF Place, Saving, AtWake
<1>14. ledger' = ledger \/ \E x \in Rows : Write(x) /\ Adds(p, x) /\ \A y \in Jobs : x.wake # WakeOf(p, y)
  BY <1>3, <1>5, <1>7, <1>8
<1>15. CASE Becomes(p, m)
  BY <1>0, <1>10, <1>12, <1>13, <1>14, <1>15, SeenRests DEF me
<1>16. CASE Becomes(p, n) /\ Write(row) /\ was # NoJob
  BY <1>0, <1>9, <1>11, <1>12, <1>13, <1>14, <1>16, SeenRests DEF me
<1> QED BY <1>3, <1>15, <1>16

\* Recovery names a wake that is over, and whose started row it has read.
LEMMA RecoverKnows ==
  ASSUME NEW rows \in Seq(Rows), BegunOnce(rows), NEW all \in Nat, NEW read \in Seq(Rows),
         DOMAIN read = 1..all, \A i \in DOMAIN read : i \in DOMAIN rows /\ read[i] = rows[i],
         NEW mem \in Stores, Known(rows, mem)
  PROVE  \A j \in Jobs : /\ mem[j] = NoJob <=> RecoverStamps(mem, read)[j] = NoJob
                         /\ mem[j] # NoJob => Knows(rows, RecoverStamps(mem, read)[j])
<1> SUFFICES ASSUME NEW j \in Jobs
             PROVE  /\ mem[j] = NoJob <=> RecoverStamps(mem, read)[j] = NoJob
                    /\ mem[j] # NoJob => Knows(rows, RecoverStamps(mem, read)[j])
  OBVIOUS
<1> DEFINE was == mem[j]
           r == RecoverStamps(mem, read)[j]
           i == Max(StampingAt(read, j))
           w == read[i].wake
           ts == StartOf(read, i)
           executed == FALSE
           stamped == Stamp(was, w, ts, read[i].state, executed)
<1>1. r = IF was # NoJob /\ StampingAt(read, j) # {} /\ Behind(was, read, i) THEN stamped ELSE was
  BY DEF RecoverStamps
<1>2. executed \in BOOLEAN
  OBVIOUS
<1> HIDE DEF r, executed
<1>3. CASE was # NoJob /\ StampingAt(read, j) # {}
  <2>1. i \in StampingAt(read, j)
    <3>1. StampingAt(read, j) \in SUBSET (1..Len(read)) /\ Len(read) \in Nat
      BY DEF StampingAt
    <3> QED BY <1>3, <3>1, MaxIn
  <2> HIDE DEF i
  <2>2. /\ i \in DOMAIN read /\ read[i].event = "finished" /\ read[i] \in Rows /\ i \in 1..all
        /\ i \in DOMAIN rows /\ rows[i] = read[i]
    BY <2>1 DEF StampingAt
  <2>3. w \in Wakes /\ read[i].state \in States \cup {"none"} /\ was \in Records
    BY <1>3, <2>2 DEF Rows, Stores
  <2>4. FinishedIn(rows, w)
    BY <2>2 DEF FinishedIn
  <2>5. ASSUME NEW k \in DOMAIN rows, rows[k].event = "started", rows[k].wake = w
        PROVE  k \in DOMAIN read /\ read[k] = rows[k]
               /\ \A x \in DOMAIN read : read[x].event = "started" /\ read[x].wake = w => x = k
    <3>1. i >= k /\ k \in Nat
      BY <2>2, <2>5 DEF BegunOnce
    <3>2. k \in 1..all
      BY <2>2, <2>5, <3>1
    <3> HIDE DEF w
    <3>3. \A x \in DOMAIN read : read[x].event = "started" /\ read[x].wake = w => x = k
      BY <2>5 DEF BegunOnce
    <3> QED BY <3>2, <3>3
  <2>6. \A k \in DOMAIN rows : rows[k].event = "started" /\ rows[k].wake = w => ts = rows[k].ts
    <3> SUFFICES ASSUME NEW k \in DOMAIN rows, rows[k].event = "started", rows[k].wake = w
                 PROVE  ts = rows[k].ts
      OBVIOUS
    <3>1. k \in DOMAIN read /\ read[k] = rows[k]
      BY <2>5
    <3> DEFINE x == CHOOSE x \in DOMAIN read : read[x].event = "started" /\ read[x].wake = read[i].wake
    <3>2. x \in DOMAIN read /\ read[x].event = "started" /\ read[x].wake = w
      BY <3>1
    <3>3. ts = read[x].ts
      BY <3>1 DEF StartOf
    <3> HIDE DEF x, ts
    <3>4. x = k
      BY <2>5, <3>2
    <3> QED BY <3>1, <3>3, <3>4
  <2>7. ts \in Nat
    <3>1. \A k \in DOMAIN read : read[k].ts \in Nat
      BY DEF Rows
    <3> QED BY <2>2, <3>1 DEF StartOf
  <2>8. BeganBy(rows, w, ts)
    BY <2>6, <2>7 DEF BeganBy
  <2> HIDE DEF was, w, ts
  <2>9. stamped \in Records /\ Knows(rows, stamped)
    BY <1>2, <2>3, <2>4, <2>7, <2>8, StampKnows
  <2> HIDE DEF stamped
  <2>10. Knows(rows, was)
    BY <1>3 DEF Known, was
  <2>11. r # NoJob /\ was # NoJob /\ Knows(rows, r)
    BY <1>1, <1>3, <2>9, <2>10, NoJobAssumption
  <2> QED BY <2>11 DEF r, was
<1>4. CASE ~(was # NoJob /\ StampingAt(read, j) # {})
  <2>1. r = was
    BY <1>1, <1>4
  <2> QED BY <2>1 DEF r, Known
<1> QED BY <1>3, <1>4

\* The end of reconcile.
LEMMA RepairSeen ==
  ASSUME TypeInv, SeenInv, NEW p \in Procs, Repair(p)
  PROVE  SeenInv'
<1> DEFINE me == proc[p]
           read == SubSeq(ledger, 1, me.rows)
           recovered == RecoverStamps(me.mem, read)
           judged == [j \in Jobs |-> JudgeReceipt(recovered[j], receipt[j])]
           failed == {j \in Jobs : ReceiptJudges(recovered[j], receipt[j]) /\ ~receipt[j].ok}
           touched == me.touched \cup {j \in Jobs : judged[j] # me.mem[j]}
           notices == me.notices \cup failed
           ret == IF p \in RunDue THEN "enter" ELSE "done"
           pc == IF touched = {} THEN ret ELSE "reload"
           n == [me EXCEPT !.mem = judged, !.touched = touched, !.notices = notices,
                           !.ret = ret, !.rows = 0, !.scan = 0, !.pc = pc]
<1>0. me.pc = "close" /\ disk' = disk /\ ledger' = ledger
  BY DEF Repair, At, files
<1>1. /\ me \in Locals /\ me.mem \in Stores /\ me.rows \in Nat /\ me.rows <= Len(ledger)
      /\ ledger \in Seq(Rows) /\ BegunOnce(ledger) /\ Known(ledger, me.mem)
      /\ \A j \in Jobs : receipt[j] \in Receipts \cup {NoReceipt}
  <2>1. me.rows <= Len(ledger) /\ me \in Locals
    BY DEF TypeInv, TypeOK, SoundInv
  <2> QED BY <2>1, LocalsFields DEF TypeInv, TypeOK, SeenInv, Seen
<1>2. /\ read \in Seq(Rows) /\ DOMAIN read = 1..me.rows
      /\ \A k \in DOMAIN read : k \in DOMAIN ledger /\ read[k] = ledger[k]
  BY <1>1, SnapshotType DEF TypeInv
<1>3. Becomes(p, n)
  <2>1. [me EXCEPT !.mem = judged, !.touched = touched, !.notices = @ \cup failed,
                   !.ret = ret, !.rows = 0, !.scan = 0, !.pc = pc] = n
    <3> HIDE DEF judged, touched, failed, pc, ret
    <3> QED BY <1>1
  <2> HIDE DEF n
  <2> QED BY <2>1 DEF Repair, SnapshotOf
<1>4. \A j \in Jobs : /\ me.mem[j] = NoJob <=> recovered[j] = NoJob
                      /\ me.mem[j] # NoJob => Knows(ledger, recovered[j])
  <2> HIDE DEF read
  <2> QED BY <1>1, <1>2, RecoverKnows
<1>5. recovered \in Stores
  <2> HIDE DEF read
  <2> QED BY <1>1, <1>2, RecoverType
<1>6. \A j \in Jobs : judged[j] = JudgeReceipt(recovered[j], receipt[j])
  OBVIOUS
<1> HIDE DEF recovered, judged, failed, touched, read
<1>7. ASSUME NEW j \in Jobs PROVE judged[j] = NoJob \/ Knows(ledger, judged[j])
  <2>1. recovered[j] \in Records \cup {NoJob}
    BY <1>5 DEF Stores
  <2> DEFINE c == receipt[j]
             x == recovered[j]
  <2>2. c \in Receipts \cup {NoReceipt} /\ x \in Records \cup {NoJob} /\ judged[j] = JudgeReceipt(x, c)
    BY <1>1, <1>6, <2>1
  <2>3. x # NoJob => Knows(ledger, x)
    BY <1>4
  <2> HIDE DEF x, c
  <2>4. CASE x = NoJob
    BY <2>2, <2>4, JudgeSame
  <2>5. CASE x # NoJob
    BY <2>2, <2>3, <2>5, JudgeSame DEF Same, Knows
  <2> QED BY <2>4, <2>5
<1>8. ret \in {"enter", "done"} /\ pc \in {ret, "reload"}
  OBVIOUS
<1>9. Place(me) \in Early
  BY <1>0 DEF Place, Saving, Early
<1> HIDE DEF pc, notices, ret, me
<1>10. n.pc = pc /\ n.ret = ret /\ n.mem = judged
  BY <1>1, LocalsFields
<1> HIDE DEF n
<1>11. n.pc \notin AtWake /\ n.pc # "lock" /\ Place(n) # "gate"
  BY <1>8, <1>10 DEF Place, Saving, AtWake
<1> QED BY <1>0, <1>3, <1>7, <1>9, <1>10, <1>11, SeenRests DEF me

-----------------------------------------------------------------------------
(* The turns of a pass, and the lock                                       *)

\* The job whose turn it is has no row of this wake yet; and when it is due it
\* is so by the clock of the pass, or by its clock-skew row.
LEMMA TurnJob ==
  ASSUME TypeInv, SeenInv, NEW p \in Procs, NEW j \in Jobs, Turn(p, j) \/ Due(p, j) \/ Executes(p, j)
  PROVE  LET me == proc[p]
         IN /\ me.pc \in {"loop", "judge", "gate", "lock"} /\ Place(me) = me.pc
            /\ p \in RunDue => me.pc # "lock"
            /\ j \in me.todo /\ (me.pc # "lock" => j = Min(me.todo))
            /\ Untold(ledger, WakeOf(p, j))
            /\ ~Turn(p, j) /\ me.pc # "lock" => Healed(me.mem[j]) \/ IsDue(me.mem[j], me.at)
            /\ Due(p, j) => Healed(me.mem[j]) \/ IsDue(me.mem[j], me.at)
<1> DEFINE me == proc[p]
<1>1. Sound(me) /\ Seen(ledger, p, me)
  BY DEF TypeInv, SoundInv, SeenInv
<1>2. \/ me.pc = "lock" /\ me.todo = {j}
      \/ me.pc \in {"loop", "judge"} /\ me.todo # {} /\ j = Min(me.todo)
      \/ me.pc = "gate" /\ j = Min(me.todo) /\ me.mem[j] # NoJob
  BY DEF Turn, Due, Executes, At
<1>3. me.pc = "gate" => me.todo # {} /\ Healed(me.mem[j])
  <2>1. AtGate(me)
    BY <1>1 DEF Seen
  <2> HIDE DEF me
  <2> QED BY <1>2, <2>1 DEF AtGate, Place, Saving
<1>4. Place(me) = me.pc
  BY <1>2 DEF Place, Saving
<1>5. j \in me.todo
  <2>1. me.todo \in SUBSET Nat
    BY <1>1, Mine DEF Jobs
  <2> HIDE DEF me
  <2> QED BY <1>2, <1>3, <2>1, MinIn
<1>6. Untold(ledger, WakeOf(p, j))
  BY <1>1, <1>5 DEF Seen, YetToRun
<1>7. Due(p, j) => Healed(me.mem[j]) \/ IsDue(me.mem[j], me.at)
  BY <1>3 DEF Due, At
<1>8. ~Turn(p, j) /\ me.pc # "lock" => Healed(me.mem[j]) \/ IsDue(me.mem[j], me.at)
  BY <1>7 DEF Executes, At
<1>9. p \in RunDue => me.pc # "lock"
  BY <1>1 DEF Seen
<1> HIDE DEF me
<1> QED BY <1>2, <1>4, <1>5, <1>6, <1>7, <1>8, <1>9 DEF me

\* A clock-skew row is stamped, and named by the record until the gate.
LEMMA SkewSeen ==
  ASSUME TypeInv, SeenInv, NEW p \in Procs, SkewRow(p)
  PROVE  SeenInv'
<1> DEFINE me == proc[p]
           executed == TRUE
           w(j) == [proc |-> p, job |-> j, kind |-> "skew"]
<1>1. PICK j \in Jobs :
        /\ Turn(p, j) /\ me.mem[j] # NoJob
        /\ Write(FinishedRow(w(j), "error", now))
        /\ Becomes(p, Stamped(me, w(j), now, "error", executed, "gate"))
  BY DEF SkewRow
<1> DEFINE v == w(j)
           row == FinishedRow(v, "error", now)
           n == Stamped(me, v, now, "error", executed, "gate")
<1>2. /\ Sound(me) /\ me \in Locals /\ ledger \in Seq(Rows) /\ now \in Nat /\ disk' = disk
      /\ BegunOnce(ledger) /\ YetToRun(ledger, p, me)
  BY DEF SkewRow, TypeInv, TypeOK, SoundInv, SeenInv, Seen
<1>me. me \in Locals
  BY <1>2
<1>3. /\ v \in Wakes /\ v.proc = p /\ v.job = j /\ v.kind = "skew" /\ executed \in BOOLEAN
      /\ "error" \in States /\ "gate" \in Returns \ {"removed"}
      /\ \A x \in Jobs : v # WakeOf(p, x)
  <2>1. v \in Wakes /\ v.proc = p /\ v.job = j /\ v.kind = "skew"
    BY DEF Wakes
  <2>2. \A x \in Jobs : v # WakeOf(p, x)
    BY <2>1 DEF WakeOf
  <2> QED BY <2>1, <2>2 DEF States, BadStates, Returns
<1>4. Write(row) /\ Becomes(p, n) /\ Turn(p, j) /\ me.mem[j] # NoJob
  BY <1>1
<1>5. /\ row \in Rows /\ row.event = "finished" /\ row.job = j /\ row.wake = v /\ row.state = "error"
  BY <1>2, <1>3, RowTypes DEF FinishedRow
<1>6. j = Min(me.todo) /\ j \in me.todo /\ Place(me) \notin Early
  <2>1. me.pc \in {"loop", "judge"} /\ Place(me) = me.pc /\ j \in me.todo
    BY <1>4, TurnJob DEF Turn, At
  <2>2. j = Min(me.todo)
    BY <1>4 DEF Turn
  <2> QED BY <2>1, <2>2 DEF Early
<1> HIDE DEF executed, v, row
<1>7. /\ n.pc = "reload" /\ n.ret = "gate" /\ n.todo = me.todo /\ n.notices = {j} /\ n.touched = {j}
      /\ n.mem = [me.mem EXCEPT ![j] = Stamp(me.mem[j], v, now, "error", executed)]
  <2> HIDE DEF me
  <2>1. n.pc = "reload" /\ n.ret = "gate" /\ n.todo = me.todo /\ n.notices = {v.job}
    BY <1>2, <1>3, <1>4, StampedSound
  <2>2. n.touched = {v.job}
    BY <1>2, StampedRest
  <2>3. n.mem = [me.mem EXCEPT ![v.job] = Stamp(me.mem[v.job], v, now, "error", executed)]
    BY <1>me, StampedMemory
  <2> HIDE DEF n
  <2> QED BY <1>3, <2>1, <2>2, <2>3
<1> HIDE DEF n
<1>8. BeganBy(ledger, v, now)
  BY <1>2, <1>3 DEF BegunOnce, BeganBy
<1>9. \A x \in Jobs : n.mem[x] = me.mem[x] \/ Knows(ledger', n.mem[x])
  <2>1. row \in Rows /\ row.event = "finished" /\ Write(row) /\ now \in Nat /\ executed \in BOOLEAN
    BY <1>2, <1>3, <1>4, <1>5
  <2> DEFINE mem == n.mem
  <2>2. /\ proc[p].mem[row.job] # NoJob /\ BeganBy(ledger, row.wake, now)
        /\ mem = [proc[p].mem EXCEPT ![row.job] =
                   Stamp(proc[p].mem[row.job], row.wake, now, row.state, executed)]
    BY <1>4, <1>5, <1>7, <1>8
  <2> HIDE DEF me, mem
  <2>3. \A x \in Jobs : mem[x] = proc[p].mem[x] \/ Knows(ledger', mem[x])
    BY <2>1, <2>2, StampSeen
  <2> QED BY <2>3 DEF me, mem
<1>names. n.mem[j] # NoJob /\ n.mem[j].wake = v
  <2> DEFINE was == me.mem[j]
             r == Stamp(was, v, now, "error", executed)
  <2>1. was \in Records /\ me.mem \in Stores
    <3>1. me.mem \in Stores
      <4> HIDE DEF me
      <4> QED BY <1>me, LocalsFields
    <3> QED BY <1>4, <3>1 DEF Stores
  <2>2. n.mem[j] = r
    <3> HIDE DEF me
    <3> QED BY <1>7, <2>1 DEF Stores
  <2> HIDE DEF was
  <2>3. r \in Records /\ r.wake = v
    BY <1>2, <1>3, <2>1, StampMoves
  <2> HIDE DEF r
  <2> QED BY <2>2, <2>3, NoJobAssumption
<1>10. Adds(p, row)
  BY <1>3, <1>5 DEF Adds
<1>11. Place(n) = "gate" /\ n.pc \notin AtWake /\ n.pc # "lock"
  BY <1>7 DEF Place, Saving, AtWake
<1>12. YetToRun(ledger', p, n)
  <2>1. \A x \in Jobs : row.wake # WakeOf(p, x)
    BY <1>3, <1>5
  <2>2. Place(n) \notin Early /\ \A x \in Jobs : x \in n.todo => x \in proc[p].todo
    BY <1>7, <1>11 DEF Early
  <2> QED BY <1>2, <1>4, <1>5, <2>1, <2>2, YetMore
<1>13. AtItsWake(ledger', p, n) /\ Chosen(n)
  BY <1>11 DEF AtItsWake, Chosen, AtWake
<1>14. AtGate(n)
  BY <1>3, <1>6, <1>7, <1>names DEF AtGate, Healed
<1>15. \A x \in Jobs : n.mem[x] \in {proc[p].mem[x], disk[x], NoJob} \/ Knows(ledger', n.mem[x])
  BY <1>9
<1> HIDE DEF me
<1> QED BY <1>2, <1>4, <1>5, <1>10, <1>11, <1>12, <1>13, <1>14, <1>15, SeenGoesOn

\* A turn that a policy holds back, or a lock that is held, ends in a row.
LEMMA PassedSeen ==
  ASSUME TypeInv, SeenInv, NEW p \in Procs, SkipRow(p) \/ Overlap(p)
  PROVE  SeenInv'
<1> DEFINE me == proc[p]
<1>0. /\ Sound(me) /\ me \in Locals /\ ledger \in Seq(Rows) /\ now \in Nat /\ disk' = disk
  <2>1. Sound(me) /\ me \in Locals /\ ledger \in Seq(Rows) /\ now \in Nat
    BY DEF TypeInv, TypeOK, SoundInv
  <2>2. disk' = disk
    BY DEF SkipRow, Overlap
  <2> QED BY <2>1, <2>2
<1>me. me \in Locals
  BY <1>0
\* A row of the wake the job might have had, and the turn is over.
<1>1. ASSUME NEW j \in Jobs, Due(p, j) \/ Executes(p, j), NEW state \in States,
             Write(FinishedRow(WakeOf(p, j), state, now)),
             NEW n, Becomes(p, n), n.todo = me.todo \ {j}, Place(n) \in {"loop", "done"},
             n.pc \in {"reload", "loop", "done"},
             \/ n.mem = me.mem
             \/ \E executed \in BOOLEAN : me.mem[j] # NoJob /\
                  n.mem = [me.mem EXCEPT ![j] = Stamp(me.mem[j], WakeOf(p, j), now, state, executed)]
      PROVE  SeenInv'
  <2> DEFINE v == WakeOf(p, j)
             row == FinishedRow(v, state, now)
  <2>1. v \in Wakes /\ v.proc = p /\ v.job = j /\ \A x \in Jobs : x # j => v # WakeOf(p, x)
    BY DEF WakeOf, Wakes
  <2>2. Untold(ledger, v)
    BY <1>1, TurnJob
  <2>3. /\ row \in Rows /\ row.event = "finished" /\ row.job = j /\ row.wake = v /\ row.state = state
    BY <1>0, <2>1, RowTypes DEF FinishedRow
  <2>4. Write(row)
    BY <1>1
  <2> HIDE DEF v, row
  <2>5. BeganBy(ledger, v, now)
    BY <2>2 DEF BeganBy, Untold
  <2>6. \A x \in Jobs : n.mem[x] \in {proc[p].mem[x], disk[x], NoJob} \/ Knows(ledger', n.mem[x])
    <3>1. CASE n.mem = me.mem
      BY <3>1
    <3>2. ASSUME NEW executed \in BOOLEAN, me.mem[j] # NoJob,
                 n.mem = [me.mem EXCEPT ![j] = Stamp(me.mem[j], WakeOf(p, j), now, state, executed)]
          PROVE  \A x \in Jobs : n.mem[x] \in {proc[p].mem[x], disk[x], NoJob} \/ Knows(ledger', n.mem[x])
      <4>1. /\ proc[p].mem[row.job] # NoJob /\ BeganBy(ledger, row.wake, now)
            /\ n.mem = [proc[p].mem EXCEPT ![row.job] =
                          Stamp(proc[p].mem[row.job], row.wake, now, row.state, executed)]
        BY <2>3, <2>5, <3>2 DEF v
      <4>2. \A x \in Jobs : n.mem[x] = proc[p].mem[x] \/ Knows(ledger', n.mem[x])
        <5> HIDE DEF me
        <5> QED BY <1>0, <2>3, <2>4, <4>1, StampSeen
      <4> QED BY <4>2
    <3> QED BY <1>1, <3>1, <3>2
  <2>7. Adds(p, row) /\ Place(n) \notin Early /\ n.pc \notin AtWake /\ n.pc # "lock" /\ Place(n) # "gate"
    BY <1>1, <2>1, <2>3 DEF Adds, Early, AtWake
  <2>8. \A x \in Jobs : Place(n) \in Early \/ x \in n.todo => row.wake # WakeOf(p, x)
    BY <1>1, <2>1, <2>3, <2>7
  <2>9. \A x \in Jobs : x \in n.todo => x \in proc[p].todo
    BY <1>1
  <2>10. \E x \in Rows : Write(x) /\ Adds(p, x)
           /\ \A y \in Jobs : Place(n) \in Early \/ y \in n.todo => x.wake # WakeOf(p, y)
    BY <2>3, <2>4, <2>7, <2>8
  <2> HIDE DEF me
  <2> QED BY <1>0, <1>1, <2>6, <2>7, <2>9, <2>10, SeenRests
<1>2. CASE SkipRow(p)
  <2> DEFINE executed == FALSE
  <2>1. PICK j \in Jobs :
          /\ Due(p, j)
          /\ Write(FinishedRow(WakeOf(p, j), "skipped", now))
          /\ Becomes(p, [Stamped(me, WakeOf(p, j), now, "skipped", executed, "loop") EXCEPT !.todo = @ \ {j}])
    BY <1>2 DEF SkipRow, WakeOf
  <2> DEFINE v == WakeOf(p, j)
             m == Stamped(me, v, now, "skipped", executed, "loop")
             todo == m.todo \ {j}
             n == [m EXCEPT !.todo = todo]
  <2>2. /\ Due(p, j) /\ Write(FinishedRow(v, "skipped", now)) /\ "skipped" \in States
        /\ executed \in BOOLEAN /\ v.job = j /\ me.mem[j] # NoJob
    BY <2>1 DEF States, WakeOf, Due
  <2>3. Becomes(p, n)
    <3>1. Becomes(p, [m EXCEPT !.todo = @ \ {j}])
      BY <2>1
    <3> HIDE DEF m
    <3> QED BY <3>1
  <2> HIDE DEF executed, v, me
  <2>4. m.todo = me.todo
    BY <1>0, StampedFields
  <2>5. todo = me.todo \ {j}
    <3> HIDE DEF m
    <3> QED BY <2>4
  <2> HIDE DEF todo
  <2>6. n.pc = "reload" /\ n.ret = "loop" /\ n.todo = todo /\ n.mem = m.mem
    BY <1>0, StampedFields, StampedRest
  <2>7. m.mem = [me.mem EXCEPT ![v.job] = Stamp(me.mem[v.job], v, now, "skipped", executed)]
    BY <1>me, StampedMemory
  <2> HIDE DEF m, n
  <2>8. n.mem = [me.mem EXCEPT ![j] = Stamp(me.mem[j], v, now, "skipped", executed)]
    BY <2>2, <2>6, <2>7
  <2>9. Place(n) = "loop"
    BY <2>6 DEF Place, Saving
  <2>10. /\ Write(FinishedRow(WakeOf(p, j), "skipped", now)) /\ n.todo = me.todo \ {j}
         /\ \E e \in BOOLEAN : me.mem[j] # NoJob /\
              n.mem = [me.mem EXCEPT ![j] = Stamp(me.mem[j], WakeOf(p, j), now, "skipped", e)]
    BY <2>2, <2>5, <2>6, <2>8 DEF v
  <2> QED BY <1>1, <2>2, <2>3, <2>6, <2>9, <2>10
<1>3. CASE Overlap(p)
  <2> DEFINE pc == AfterWake(p)
  <2>1. PICK j \in Jobs :
          /\ Executes(p, j)
          /\ Write(FinishedRow(WakeOf(p, j), "overlap", now))
          /\ Becomes(p, [me EXCEPT !.todo = @ \ {j}, !.pc = pc])
    BY <1>3 DEF Overlap, WakeOf
  <2> DEFINE todo == me.todo \ {j}
             n == [me EXCEPT !.todo = todo, !.pc = pc]
  <2>2. Becomes(p, n) /\ pc \in {"loop", "done"} /\ "overlap" \in States
    BY <2>1 DEF AfterWake, States, UnstampedStates
  <2> HIDE DEF me, pc, todo
  <2>3. n.pc = pc /\ n.todo = todo /\ n.mem = me.mem
    BY <1>0, LocalsFields
  <2> HIDE DEF n
  <2>4. Place(n) = pc /\ n.todo = me.todo \ {j}
    BY <2>2, <2>3 DEF Place, Saving, todo
  <2> QED BY <1>1, <2>1, <2>2, <2>3, <2>4
<1> QED BY <1>2, <1>3

\* The lock of the job is taken.
LEMMA LockSeen ==
  ASSUME TypeInv, SeenInv, NEW p \in Procs, TakeLock(p)
  PROVE  SeenInv'
<1> DEFINE me == proc[p]
           pc == IF p \in RunDue THEN "recheck" ELSE "begin"
<1>1. PICK j \in Jobs :
        /\ Executes(p, j)
        /\ Becomes(p, [me EXCEPT !.cur = WakeOf(p, j), !.started = now, !.todo = @ \ {j}, !.pc = pc])
  BY DEF TakeLock, WakeOf
<1> DEFINE v == WakeOf(p, j)
           todo == me.todo \ {j}
           n == [me EXCEPT !.cur = v, !.started = now, !.todo = todo, !.pc = pc]
<1>2. Becomes(p, n) /\ pc \in {"recheck", "begin"} /\ (pc = "recheck" => p \in RunDue)
  BY <1>1
<1>3. /\ me \in Locals /\ ledger \in Seq(Rows) /\ now # Never /\ disk' = disk /\ ledger' = ledger
      /\ YetToRun(ledger, p, me)
  BY DEF TakeLock, files, TypeInv, TypeOK, SeenInv, Seen, Never
<1>4. v.proc = p /\ v.kind = "wake" /\ v.job = j /\ Untold(ledger, v)
  BY <1>1, TurnJob DEF WakeOf
<1>5. p \in RunDue => Healed(me.mem[j]) \/ IsDue(me.mem[j], me.at)
  <2>1. p \in RunDue => Due(p, j)
    BY <1>1, TurnJob DEF Executes, At
  <2> QED BY <1>1, <2>1, TurnJob
<1> HIDE DEF me, pc, v, todo
<1>6. /\ n.pc = pc /\ n.cur = v /\ n.started = now /\ n.todo = todo /\ n.mem = me.mem /\ n.at = me.at
  BY <1>3, LocalsFields
<1> HIDE DEF n
<1>7. Place(n) = pc
  BY <1>2, <1>6 DEF Place, Saving
<1>8. todo = me.todo \ {j}
  BY DEF todo
<1>9. YetToRun(ledger', p, n)
  <2>1. Place(n) \notin Early /\ \A x \in Jobs : x \in n.todo => x \in me.todo
    BY <1>2, <1>6, <1>7, <1>8 DEF Early
  <2> QED BY <1>3, <2>1, YetMore DEF me
<1>10. AtItsWake(ledger', p, n)
  BY <1>2, <1>3, <1>4, <1>6, <1>8 DEF AtItsWake, AtWake
<1>11. Chosen(n) /\ AtGate(n)
  BY <1>2, <1>4, <1>5, <1>6, <1>7 DEF Chosen, AtGate
<1>12. /\ \A x \in Jobs : disk'[x] \in {disk[x], proc[p].mem[x], NoJob}
       /\ \A x \in Jobs : n.mem[x] \in {proc[p].mem[x], disk[x], NoJob} \/ Knows(ledger', n.mem[x])
  BY <1>3, <1>6 DEF me
<1>13. n.pc # "lock"
  BY <1>2, <1>6
<1> QED BY <1>2, <1>3, <1>9, <1>10, <1>11, <1>12, <1>13, SeenGoesOn

-----------------------------------------------------------------------------
(* The wake                                                                *)

\* The job is re-read under the lock, begun and ended.
LEMMA WakeSeen ==
  ASSUME TypeInv, SeenInv, NEW p \in Procs, Recheck(p) \/ Begin(p) \/ Spawn(p) \/ Finish(p)
  PROVE  SeenInv'
<1> DEFINE me == proc[p]
           w == me.cur
           j == w.job
<1>0. me.pc \in AtWake /\ disk' = disk
  <2>1. disk' = disk
    BY DEF Recheck, Begin, Spawn, Finish, files
  <2> QED BY <2>1 DEF Recheck, Begin, Spawn, Finish, At, AtWake
<1>1. /\ Sound(me) /\ me \in Locals /\ me.mem \in Stores /\ me.started \in Nat
      /\ ledger \in Seq(Rows) /\ now \in Nat /\ disk \in Stores /\ Seen(ledger, p, me)
  <2>1. Sound(me) /\ ledger \in Seq(Rows) /\ now \in Nat /\ disk \in Stores /\ Seen(ledger, p, me)
    BY DEF TypeInv, TypeOK, SoundInv, SeenInv, Stores
  <2> HIDE DEF me
  <2> QED BY <2>1, Mine
<1>me. me \in Locals
  BY <1>1
<1>2. /\ w \in Wakes /\ j \in Jobs /\ me.mem[j] # NoJob /\ w.proc = p /\ w.kind = "wake"
      /\ j \notin me.todo /\ me.started # Never
  <2>1. w # NoWake /\ me.mem[w.job] # NoJob /\ w \in Wakes \cup {NoWake}
    BY <1>0, <1>1, Mine DEF Sound, AtWake
  <2>2. w.proc = p /\ w.kind = "wake" /\ w.job \notin me.todo /\ me.started # Never
    BY <1>0, <1>1 DEF Seen, AtItsWake
  <2>3. w.job \in Jobs
    BY <2>1 DEF Wakes
  <2> QED BY <2>1, <2>2, <2>3
<1>3. AtItsWake(ledger, p, me) /\ YetToRun(ledger, p, me)
  BY <1>1 DEF Seen
<1>4. \A x \in Jobs : x \in me.todo => w # WakeOf(p, x)
  BY <1>2 DEF WakeOf
<1>5. BeganBy(ledger, w, me.started) /\ (me.pc \in {"recheck", "begin"} => Untold(ledger, w))
  <2>1. CASE me.pc \in {"recheck", "begin"}
    <3>1. Untold(ledger, w)
      BY <1>3, <2>1 DEF AtItsWake
    <3> QED BY <3>1 DEF Untold, BeganBy
  <2>2. CASE me.pc \in {"spawn", "wait"}
    <3>1. \A i \in DOMAIN ledger : ledger[i].event = "started" /\ ledger[i].wake = w => ledger[i].ts = me.started
      BY <1>3, <2>2 DEF AtItsWake
    <3> QED BY <1>1, <2>2, <3>1 DEF BeganBy
  <2> QED BY <1>0, <2>1, <2>2 DEF AtWake
\* The row that ends it, with its stamp or with none.
<1>6. ASSUME NEW state \in States, Write(FinishedRow(w, state, now)),
             NEW n, Becomes(p, n), n.todo = me.todo, Place(n) = "unlock", n.pc \in {"reload", "unlock"},
             \/ n.mem = me.mem
             \/ \E executed \in BOOLEAN :
                  n.mem = [me.mem EXCEPT ![j] = Stamp(me.mem[j], w, me.started, state, executed)]
      PROVE  SeenInv'
  <2> DEFINE row == FinishedRow(w, state, now)
  <2>1. row \in Rows /\ row.event = "finished" /\ row.job = j /\ row.wake = w /\ row.state = state
    BY <1>1, <1>2, RowTypes DEF FinishedRow
  <2>2. Write(row)
    BY <1>6
  <2> HIDE DEF row
  <2>3. Adds(p, row)
    BY <1>2, <2>1 DEF Adds
  <2>4. \A x \in Jobs : n.mem[x] \in {proc[p].mem[x], disk[x], NoJob} \/ Knows(ledger', n.mem[x])
    <3>1. CASE n.mem = me.mem
      BY <3>1
    <3>2. ASSUME NEW executed \in BOOLEAN,
                 n.mem = [me.mem EXCEPT ![j] = Stamp(me.mem[j], w, me.started, state, executed)]
          PROVE  \A x \in Jobs : n.mem[x] \in {proc[p].mem[x], disk[x], NoJob} \/ Knows(ledger', n.mem[x])
      <4> DEFINE mem == n.mem
                 ts == me.started
      <4>1. /\ proc[p].mem[row.job] # NoJob /\ BeganBy(ledger, row.wake, ts) /\ ts \in Nat
            /\ mem = [proc[p].mem EXCEPT ![row.job] =
                       Stamp(proc[p].mem[row.job], row.wake, ts, row.state, executed)]
        BY <1>1, <1>2, <1>5, <2>1, <3>2
      <4> HIDE DEF me, mem, ts
      <4>2. \A x \in Jobs : mem[x] = proc[p].mem[x] \/ Knows(ledger', mem[x])
        BY <2>1, <2>2, <4>1, StampSeen
      <4> QED BY <4>2 DEF mem
    <3> QED BY <1>6, <3>1, <3>2
  <2>5. Place(n) \notin Early /\ n.pc \notin AtWake /\ n.pc # "lock" /\ Place(n) # "gate"
    BY <1>6 DEF Early, AtWake
  <2>6. \E x \in Rows : Write(x) /\ Adds(p, x)
          /\ \A y \in Jobs : Place(n) \in Early \/ y \in n.todo => x.wake # WakeOf(p, y)
    BY <1>4, <1>6, <2>1, <2>2, <2>3, <2>5
  <2>7. \A x \in Jobs : x \in n.todo => x \in proc[p].todo
    BY <1>6
  <2> HIDE DEF me
  <2> QED BY <1>0, <1>6, <2>4, <2>5, <2>6, <2>7, SeenRests
<1>7. ASSUME NEW state \in States, NEW executed \in BOOLEAN, Write(FinishedRow(w, state, now)),
             Becomes(p, Stamped(me, w, me.started, state, executed, "unlock"))
      PROVE  SeenInv'
  <2> DEFINE n == Stamped(me, w, me.started, state, executed, "unlock")
  <2>1. Becomes(p, n)
    BY <1>7
  <2> HIDE DEF me, w
  <2>2. n.pc = "reload" /\ n.ret = "unlock" /\ n.todo = me.todo
    BY <1>me, StampedFields
  <2>3. n.mem = [me.mem EXCEPT ![j] = Stamp(me.mem[j], w, me.started, state, executed)]
    BY <1>me, StampedMemory
  <2> HIDE DEF n
  <2>4. Place(n) = "unlock"
    BY <2>2 DEF Place, Saving
  <2> HIDE DEF j
  <2> QED BY <1>6, <1>7, <2>1, <2>2, <2>3, <2>4
\* It goes on with the wake.
<1>8. ASSUME NEW n, Becomes(p, n), n.pc \in AtWake,
             ledger' = ledger \/ \E row \in Rows : Write(row) /\ Adds(p, row) /\ row.wake = w,
             n.cur = w, n.started = me.started, n.todo = me.todo,
             n.pc \in {"recheck", "begin"} => me.pc \in {"recheck", "begin"} /\ ledger' = ledger,
             n.pc \in {"spawn", "wait"} =>
               \A i \in DOMAIN ledger' :
                 ledger'[i].event = "started" /\ ledger'[i].wake = w => ledger'[i].ts = me.started,
             \A x \in Jobs : n.mem[x] \in {me.mem[x], disk[x]}, n.pc # "recheck"
      PROVE  SeenInv'
  <2>1. Place(n) = n.pc
    BY <1>8 DEF Place, Saving, AtWake
  <2>2. YetToRun(ledger', p, n)
    <3>1. Place(n) \notin Early
      BY <1>8, <2>1 DEF Early, AtWake
    <3>2. \/ ledger' = ledger
          \/ \E row \in Rows : Write(row)
               /\ \A x \in Jobs : Place(n) \in Early \/ x \in n.todo => row.wake # WakeOf(p, x)
      BY <1>4, <1>8, <3>1
    <3>3. \A x \in Jobs : x \in n.todo => x \in proc[p].todo
      BY <1>8
    <3> QED BY <1>1, <1>3, <3>1, <3>2, <3>3, YetMore
  <2>3. AtItsWake(ledger', p, n)
    <3>1. n.pc \in {"recheck", "begin"} => Untold(ledger', n.cur)
      BY <1>5, <1>8
    <3> QED BY <1>2, <1>8, <3>1 DEF AtItsWake
  <2>4. Chosen(n) /\ AtGate(n)
    BY <1>8, <2>1 DEF Chosen, AtGate, AtWake
  <2>5. ledger' = ledger \/ \E row \in Rows : Write(row) /\ Adds(p, row)
    BY <1>8
  <2>6. \A x \in Jobs : n.mem[x] \in {proc[p].mem[x], disk[x], NoJob} \/ Knows(ledger', n.mem[x])
    BY <1>8
  <2>7. n.pc # "lock"
    BY <1>8 DEF AtWake
  <2>8. \A x \in Jobs : disk'[x] \in {disk[x], proc[p].mem[x], NoJob}
    BY <1>0
  <2> HIDE DEF me
  <2> QED BY <1>8, <2>2, <2>3, <2>4, <2>5, <2>6, <2>7, <2>8, SeenGoesOn
<1>9. CASE Recheck(p)
  <2> DEFINE executed == FALSE
             k == [me EXCEPT !.pc = "unlock"]
             mem == [me.mem EXCEPT ![j] = disk[j]]
             n == [me EXCEPT !.mem = mem, !.pc = "begin"]
  <2>1. \/ /\ Write(FinishedRow(w, "cancelled", now))
           /\ Becomes(p, Stamped(me, w, me.started, "cancelled", executed, "unlock"))
        \/ Write(FinishedRow(w, "overlap", now)) /\ Becomes(p, k)
        \/ ledger' = ledger /\ Becomes(p, n)
    BY <1>9 DEF Recheck, Goto
  <2>2. executed \in BOOLEAN /\ "cancelled" \in States /\ "overlap" \in States /\ me.pc = "recheck"
    BY <1>9 DEF States, UnstampedStates, Recheck, At
  <2> HIDE DEF executed
  <2>3. CASE /\ Write(FinishedRow(w, "cancelled", now))
             /\ Becomes(p, Stamped(me, w, me.started, "cancelled", executed, "unlock"))
    BY <1>7, <2>2, <2>3
  <2>4. CASE Write(FinishedRow(w, "overlap", now)) /\ Becomes(p, k)
    <3>1. k.pc = "unlock" /\ k.mem = me.mem /\ k.todo = me.todo
      <4> HIDE DEF me
      <4> QED BY <1>1, LocalsFields
    <3> HIDE DEF k
    <3>2. Place(k) = "unlock"
      BY <3>1 DEF Place, Saving
    <3> HIDE DEF me, w, j
    <3> QED BY <1>6, <2>2, <2>4, <3>1, <3>2
  <2>5. CASE ledger' = ledger /\ Becomes(p, n)
    <3>1. \A x \in Jobs : mem[x] \in {me.mem[x], disk[x]}
      <4> HIDE DEF me, j
      <4> QED BY <1>1 DEF Stores
    <3>2. n.pc = "begin" /\ n.mem = mem /\ n.cur = me.cur /\ n.started = me.started /\ n.todo = me.todo
      <4> HIDE DEF me, mem
      <4> QED BY <1>1, LocalsFields
    <3> HIDE DEF mem, n
    <3>3. n.pc \in AtWake /\ n.pc # "recheck" /\ n.cur = w /\ \A x \in Jobs : n.mem[x] \in {me.mem[x], disk[x]}
      BY <3>1, <3>2 DEF AtWake
    <3> HIDE DEF me, w, j
    <3> QED BY <1>8, <2>2, <2>5, <3>2, <3>3
  <2> QED BY <2>1, <2>3, <2>4, <2>5
<1>10. CASE Begin(p)
  <2> DEFINE row == StartedRow(w, me.started)
             n == [me EXCEPT !.pc = "spawn"]
  <2>1. Write(row) /\ Becomes(p, n) /\ me.pc = "begin"
    BY <1>10 DEF Begin, Goto, At
  <2>2. row \in Rows /\ row.event = "started" /\ row.wake = w /\ row.ts = me.started
    BY <1>1, <1>2, RowTypes DEF StartedRow
  <2>3. Untold(ledger, w)
    BY <1>5, <2>1
  <2>4. Adds(p, row)
    BY <1>2, <2>2, <2>3 DEF Adds
  <2> HIDE DEF row
  <2>5. /\ n.pc = "spawn" /\ n.mem = me.mem /\ n.cur = me.cur /\ n.started = me.started
        /\ n.todo = me.todo
    <3> HIDE DEF me
    <3> QED BY <1>1, LocalsFields
  <2> HIDE DEF n
  <2>6. \A i \in DOMAIN ledger' :
          ledger'[i].event = "started" /\ ledger'[i].wake = w => ledger'[i].ts = me.started
    <3>1. /\ ledger'[Len(ledger')] = row
          /\ \A k \in DOMAIN ledger : ledger'[k] = ledger[k]
          /\ \A k \in DOMAIN ledger' : k \in DOMAIN ledger \/ k = Len(ledger')
      BY <1>1, <2>1, <2>2, RowMore DEF Write
    <3> HIDE DEF me, w
    <3> QED BY <2>2, <2>3, <3>1 DEF Untold
  <2>7. n.pc \in AtWake /\ n.pc # "recheck" /\ n.cur = w
    BY <2>5 DEF AtWake
  <2> HIDE DEF me, w, j
  <2> QED BY <1>8, <2>1, <2>2, <2>4, <2>5, <2>6, <2>7
<1>11. CASE Spawn(p)
  <2> DEFINE n == [me EXCEPT !.pc = "wait"]
  <2>1. ledger' = ledger /\ Becomes(p, n) /\ me.pc = "spawn"
    BY <1>11 DEF Spawn, Goto, At, files
  <2>2. /\ n.pc = "wait" /\ n.mem = me.mem /\ n.cur = me.cur /\ n.started = me.started
        /\ n.todo = me.todo
    <3> HIDE DEF me
    <3> QED BY <1>1, LocalsFields
  <2> HIDE DEF n
  <2>3. \A i \in DOMAIN ledger' :
          ledger'[i].event = "started" /\ ledger'[i].wake = w => ledger'[i].ts = me.started
    BY <1>3, <2>1 DEF AtItsWake
  <2>4. n.pc \in AtWake /\ n.pc # "recheck" /\ n.cur = w
    BY <2>2 DEF AtWake
  <2> HIDE DEF me, w, j
  <2> QED BY <1>8, <2>1, <2>2, <2>3, <2>4
<1>12. CASE Finish(p)
  <2> DEFINE executed == TRUE
  <2>1. PICK state \in Outcomes(w) :
          /\ Write(FinishedRow(w, state, now))
          /\ Becomes(p, Stamped(me, w, me.started, state, executed, "unlock"))
    BY <1>12 DEF Finish
  <2>2. state \in States /\ executed \in BOOLEAN
    BY DEF Outcomes, States, BadStates, UnstampedStates
  <2> HIDE DEF executed
  <2> QED BY <1>7, <2>1, <2>2
<1> QED BY <1>9, <1>10, <1>11, <1>12

-----------------------------------------------------------------------------
(* What is begun by hand                                                   *)

\* A run by hand loads the store, and the verbs of an operator save what they
\* loaded, but for the one record they add, edit or remove.
LEMMA HandSeen ==
  ASSUME TypeInv, SeenInv, NEW p \in Procs,
         StartRun(p) \/ StartAdd(p) \/ StartSet(p) \/ StartRemove(p) \/ CheckRemove(p)
  PROVE  SeenInv'
<1> DEFINE me == proc[p]
<1>0. /\ me \in Locals /\ me.mem \in Stores /\ disk \in Stores /\ Known(ledger, disk)
      /\ disk' = disk /\ ledger' = ledger
  <2>1. me \in Locals /\ disk \in Stores /\ Known(ledger, disk)
    BY DEF TypeInv, TypeOK, SeenInv, Stores
  <2>2. disk' = disk /\ ledger' = ledger
    BY DEF StartRun, StartAdd, StartSet, StartRemove, CheckRemove, files
  <2>3. me.mem \in Stores
    <3> HIDE DEF me
    <3> QED BY <2>1, LocalsFields
  <2> QED BY <2>1, <2>2, <2>3
<1>me. me \in Locals
  BY <1>0
\* Where a step is enough.
<1>1. ASSUME NEW n, Becomes(p, n), n.pc \in {"lock", "save", "check"}, n.pc = "lock" => p \notin RunDue,
             n.pc = "save" => n.ret \in {"done", "removed"},
             me.pc = "start" \/ n.todo = me.todo,
             \A j \in Jobs : n.mem[j] \in {me.mem[j], disk[j], NoJob} \/ Knows(ledger, n.mem[j])
      PROVE  SeenInv'
  <2>1. Place(n) \in {"lock", "check", "done", "removed"} /\ n.pc \notin AtWake
    BY <1>1 DEF Place, Saving, AtWake
  <2>2. me.pc = "start" => Place(me) \in Early
    BY DEF Place, Saving, Early
  <2>3. Place(n) \notin Early /\ Place(n) # "gate"
    BY <2>1 DEF Early
  <2>4. Place(me) \in Early \/ \A j \in Jobs : j \in n.todo => j \in me.todo
    BY <1>1, <2>2
  <2>5. /\ \A j \in Jobs : disk'[j] \in {disk[j], proc[p].mem[j], NoJob}
        /\ \A j \in Jobs : n.mem[j] \in {proc[p].mem[j], disk[j], NoJob} \/ Knows(ledger', n.mem[j])
    BY <1>0, <1>1
  <2> QED BY <1>0, <1>1, <2>1, <2>3, <2>4, <2>5, SeenRests
<1>2. CASE StartRun(p)
  <2>1. /\ p \in Run /\ me.pc = "start"
        /\ \E j \in Jobs : \/ Becomes(p, [me EXCEPT !.mem = disk, !.todo = {j}, !.pc = "lock"])
                           \/ Becomes(p, [me EXCEPT !.pc = "done"])
    BY <1>2 DEF StartRun, Goto, At
  <2>2. p \notin RunDue
    BY <2>1, PassAssumption
  <2>3. PICK j \in Jobs : \/ Becomes(p, [me EXCEPT !.mem = disk, !.todo = {j}, !.pc = "lock"])
                          \/ Becomes(p, [me EXCEPT !.pc = "done"])
    BY <2>1
  <2> DEFINE n == [me EXCEPT !.mem = disk, !.todo = {j}, !.pc = "lock"]
             k == [me EXCEPT !.pc = "done"]
  <2>4. CASE Becomes(p, n)
    <3> HIDE DEF me
    <3>1. n.pc = "lock" /\ n.mem = disk
      BY <1>me, LocalsFields
    <3> HIDE DEF n
    <3> QED BY <1>1, <2>1, <2>2, <2>4, <3>1
  <2>5. CASE Becomes(p, k)
    <3>1. k.pc = "done"
      <4> HIDE DEF me
      <4> QED BY <1>me, LocalsFields
    <3>2. Becomes(p, Fresh("done"))
      <4> HIDE DEF me, k
      <4>1. Fresh("done").pc = "done"
        BY DEF Fresh
      <4> QED BY <2>5, <3>1, <4>1 DEF Becomes
    <3> QED BY <1>0, <3>2, FreshSeen
  <2> QED BY <2>3, <2>4, <2>5
<1>3. CASE StartAdd(p)
  <2>1. PICK j \in Jobs :
          Becomes(p, [me EXCEPT !.mem = [disk EXCEPT ![j] = NewRecord(now)],
                                !.pc = "save", !.ret = "done"])
    BY <1>3 DEF StartAdd
  <2> DEFINE r == NewRecord(now)
             mem == [disk EXCEPT ![j] = r]
             n == [me EXCEPT !.mem = mem, !.pc = "save", !.ret = "done"]
  <2>2. Becomes(p, n) /\ me.pc = "start"
    BY <1>3, <2>1 DEF StartAdd, At
  <2>3. Knows(ledger, r)
    BY DEF NewRecord, Knows
  <2> HIDE DEF r
  <2>4. \A i \in Jobs : mem[i] = IF i = j THEN r ELSE disk[i]
    BY <1>0 DEF Stores
  <2> HIDE DEF me, mem
  <2>5. n.pc = "save" /\ n.ret = "done" /\ n.mem = mem
    BY <1>me, LocalsFields
  <2> HIDE DEF n
  <2>6. \A i \in Jobs : n.mem[i] = disk[i] \/ Knows(ledger, n.mem[i])
    BY <2>3, <2>4, <2>5
  <2> QED BY <1>1, <2>2, <2>5, <2>6
<1>4. CASE StartSet(p)
  <2>1. PICK j \in Jobs : disk[j] # NoJob /\
          \E changed \in {[disk[j] EXCEPT !.enabled = ~@], [disk[j] EXCEPT !.report.edited = TRUE]} :
            Becomes(p, [me EXCEPT !.mem = [disk EXCEPT ![j] = changed],
                                  !.pc = "save", !.ret = "done"])
    BY <1>4 DEF StartSet
  <2>2. PICK changed \in {[disk[j] EXCEPT !.enabled = ~@], [disk[j] EXCEPT !.report.edited = TRUE]} :
          Becomes(p, [me EXCEPT !.mem = [disk EXCEPT ![j] = changed], !.pc = "save", !.ret = "done"])
    BY <2>1
  <2> DEFINE was == disk[j]
             mem == [disk EXCEPT ![j] = changed]
             n == [me EXCEPT !.mem = mem, !.pc = "save", !.ret = "done"]
  <2>3. Becomes(p, n) /\ me.pc = "start"
    BY <1>4, <2>2 DEF StartSet, At
  <2>4. was \in Records /\ Knows(ledger, was)
    BY <1>0, <2>1 DEF Stores, Known
  <2>5. changed \in {[was EXCEPT !.enabled = ~@], [was EXCEPT !.report.edited = TRUE]}
    OBVIOUS
  <2> HIDE DEF was
  <2>6. Same(was, changed)
    BY <2>4, <2>5 DEF Same, Records
  <2>7. Knows(ledger, changed)
    BY <2>4, <2>6 DEF Same, Knows
  <2>8. \A i \in Jobs : mem[i] = IF i = j THEN changed ELSE disk[i]
    BY <1>0 DEF Stores
  <2> HIDE DEF me, mem
  <2>9. n.pc = "save" /\ n.ret = "done" /\ n.mem = mem
    BY <1>me, LocalsFields
  <2> HIDE DEF n
  <2>10. \A i \in Jobs : n.mem[i] = disk[i] \/ Knows(ledger, n.mem[i])
    BY <2>7, <2>8, <2>9
  <2> QED BY <1>1, <2>3, <2>9, <2>10
<1>5. CASE StartRemove(p)
  <2>1. PICK j \in Jobs : Becomes(p, [me EXCEPT !.mem = disk, !.job = j, !.pc = "check"])
    BY <1>5 DEF StartRemove
  <2> DEFINE n == [me EXCEPT !.mem = disk, !.job = j, !.pc = "check"]
  <2>2. Becomes(p, n) /\ me.pc = "start"
    BY <1>5, <2>1 DEF StartRemove, At
  <2> HIDE DEF me
  <2>3. n.pc = "check" /\ n.mem = disk
    BY <1>me, LocalsFields
  <2> HIDE DEF n
  <2> QED BY <1>1, <2>2, <2>3
<1>6. CASE CheckRemove(p)
  <2> DEFINE j == me.job
             mem == [me.mem EXCEPT ![j] = NoJob]
             n == [me EXCEPT !.mem[j] = NoJob, !.pc = "save", !.ret = "removed"]
  <2>1. Becomes(p, Fresh("done")) \/ Becomes(p, n)
    BY <1>6 DEF CheckRemove
  <2>2. CASE Becomes(p, Fresh("done"))
    BY <1>0, <2>2, FreshSeen
  <2>3. CASE Becomes(p, n)
    <3>1. \A i \in Jobs : mem[i] \in {me.mem[i], NoJob}
      <4> HIDE DEF me, j
      <4> QED BY <1>0 DEF Stores
    <3>2. n.pc = "save" /\ n.ret = "removed" /\ n.todo = me.todo /\ n.mem = mem
      <4> HIDE DEF me, j
      <4> QED BY <1>me, LocalsFields
    <3> HIDE DEF n, mem
    <3>3. \A i \in Jobs : n.mem[i] \in {me.mem[i], NoJob}
      BY <3>1, <3>2
    <3> HIDE DEF me
    <3> QED BY <1>1, <2>3, <3>2, <3>3
  <2> QED BY <2>1, <2>2, <2>3
<1> QED BY <1>2, <1>3, <1>4, <1>5, <1>6

\* A job removed leaves a row.
LEMMA RemovedSeen ==
  ASSUME TypeInv, SeenInv, NEW p \in Procs, RemovedRowWritten(p)
  PROVE  SeenInv'
<1> DEFINE row == RemovedRow(proc[p].job, now)
           n == Fresh("done")
<1>1. disk' = disk /\ Write(row) /\ Becomes(p, n)
  BY DEF RemovedRowWritten
<1>2. row \in Rows /\ row.event = "removed"
  <2>1. proc[p].pc = "removed" /\ now \in Nat /\ Sound(proc[p])
    BY DEF RemovedRowWritten, At, TypeInv, TypeOK, SoundInv
  <2>2. proc[p].job \in Jobs
    BY <2>1, Mine DEF Sound
  <2> QED BY <2>1, <2>2, RowTypes DEF RemovedRow
<1>3. n.pc = "done" /\ n.todo = {} /\ \A j \in Jobs : n.mem[j] = NoJob
  BY DEF Fresh
<1> HIDE DEF row, n
<1>4. Place(n) = "done" /\ n.pc \notin AtWake /\ n.pc # "lock" /\ Place(n) \notin Early
  BY <1>3 DEF Place, Saving, AtWake, Early
<1>5. \E x \in Rows : Write(x) /\ Adds(p, x)
        /\ \A y \in Jobs : Place(n) \in Early \/ y \in n.todo => x.wake # WakeOf(p, y)
  BY <1>1, <1>2, <1>3, <1>4 DEF Adds
<1> QED BY <1>1, <1>3, <1>4, <1>5, SeenRests

-----------------------------------------------------------------------------
(* The theorem                                                             *)

LEMMA InitSeenInv == Init => SeenInv
<1> SUFFICES ASSUME Init PROVE SeenInv
  OBVIOUS
<1>1. DOMAIN ledger = {}
  BY DEF Init
<1>2. \A j \in Jobs : disk[j] \in {NewRecord(1), NoJob}
  BY DEF Init
<1>3. Known(ledger, disk)
  BY <1>2 DEF Known, Knows, NewRecord
<1>4. ASSUME NEW p \in Procs PROVE Seen(ledger, p, proc[p])
  <2>1. proc[p].pc \in {"start", "done"} /\ \A j \in Jobs : proc[p].mem[j] = NoJob
    BY DEF Init, Fresh
  <2> QED BY <1>1, <2>1
        DEF Seen, Known, YetToRun, Untold, AtItsWake, Chosen, AtGate, Place, Saving, AtWake
<1> QED BY <1>1, <1>3, <1>4 DEF SeenInv, BegunOnce

\* Every step keeps it.
LEMMA SeenStep ==
  ASSUME TypeInv, SeenInv, [Next]_vars
  PROVE  SeenInv'
<1>1. ASSUME NEW p \in Procs, Start(p) \/ Step(p) \/ Die(p) PROVE SeenInv'
  <2>1. CASE StartPass(p) \/ StartReconcile(p) \/ Fail(p) \/ Die(p) \/ EndPass(p)
    BY <2>1, EndSeen
  <2>2. CASE StartRun(p) \/ StartAdd(p) \/ StartSet(p) \/ StartRemove(p) \/ CheckRemove(p)
    BY <2>2, HandSeen
  <2>3. CASE Load(p) \/ ReadRows(p) \/ EnterLoop(p) \/ PassOver(p) \/ CardAnswer(p) \/ Unlock(p)
    BY <2>3, TurnSeen
  <2>4. CASE Reload(p) \/ Save(p) \/ Notify(p)
    BY <2>4, ReloadSeen, SaveSeen, NotifySeen
  <2>5. CASE CloseOrphan(p) \/ Repair(p) \/ RemovedRowWritten(p)
    BY <2>5, CloseSeen, RepairSeen, RemovedSeen
  <2>6. CASE SkewRow(p) \/ SkipRow(p) \/ Overlap(p) \/ TakeLock(p)
    BY <2>6, SkewSeen, PassedSeen, LockSeen
  <2>7. CASE Recheck(p) \/ Begin(p) \/ Spawn(p) \/ Finish(p)
    BY <2>7, WakeSeen
  <2> QED BY <1>1, <2>1, <2>2, <2>3, <2>4, <2>5, <2>6, <2>7 DEF Start, Step
<1>2. CASE \/ \E p \in RunDue : AgePass(p)
           \/ \E w \in Wakes : ChildExit(w) \/ Age(w)
           \/ Tick \/ StepBack \/ UNCHANGED vars
  <2>1. disk' = disk /\ ledger' = ledger /\ proc' = proc
    BY <1>2 DEF AgePass, ChildExit, Age, Tick, StepBack, vars, files, locks, world
  <2> QED BY <2>1 DEF SeenInv
<1> QED BY <1>1, <1>2 DEF Next

\* Whoever takes part, however many, whatever dies, fails or steps back: a pass
\* that re-reads a job's record under its lock (_execute, with the store it
\* loaded) does not go on with it inside the window of the wake the record
\* names.
THEOREM StampedWakesAreNotRefired == Spec => StampedWakeIsNotRefired
<1> DEFINE Inv == TypeInv /\ SeenInv
           Window == \A p \in RunDue : Recheck(p) /\ proc'[p].pc = "begin" =>
             \A i \in DOMAIN ledger :
               ledger[i].event = "started" /\ ledger[i].wake = disk[proc[p].cur.job].wake
               => proc[p].at >= ledger[i].ts + Interval
<1>1. Init => Inv
  BY InitTypeInv, InitSeenInv
<1>2. Inv /\ [Next]_vars => Inv'
  BY TypeStep, SeenStep
<1>3. Inv => Window
  <2> SUFFICES ASSUME Inv, NEW p \in RunDue, Recheck(p), proc'[p].pc = "begin",
                      NEW i \in DOMAIN ledger, ledger[i].event = "started",
                      ledger[i].wake = disk[proc[p].cur.job].wake
               PROVE  proc[p].at >= ledger[i].ts + Interval
    OBVIOUS
  <2> DEFINE me == proc[p]
             j == me.cur.job
             r == me.mem[j]
             ts == ledger[i].ts
  <2>1. /\ p \in Procs /\ me.pc = "recheck" /\ Sound(me) /\ Seen(ledger, p, me)
        /\ BegunOnce(ledger) /\ ledger \in Seq(Rows)
    BY PassAssumption DEF Recheck, At, TypeInv, TypeOK, SoundInv, SeenInv
  <2>2. me \in Locals /\ me.mem \in Stores /\ me.at \in Nat /\ j \in Jobs /\ r # NoJob
    <3>1. me \in Locals /\ me.cur \in Wakes /\ me.mem \in Stores /\ r # NoJob
      BY <2>1, Mine DEF Sound
    <3>2. j \in Jobs
      BY <3>1 DEF Wakes
    <3>3. me.at \in Nat
      <4> HIDE DEF me
      <4> QED BY <3>1, LocalsFields
    <3> QED BY <3>1, <3>2, <3>3
  <2>3. disk[j].wake = r.wake
    <3> DEFINE executed == FALSE
               m == Stamped(me, me.cur, me.started, "cancelled", executed, "unlock")
               k == [me EXCEPT !.pc = "unlock"]
    <3>1. \/ Becomes(p, m)
          \/ Becomes(p, k)
          \/ disk[j].wake = r.wake
      BY DEF Recheck, Goto
    <3> HIDE DEF executed
    <3>2. m.pc = "reload" /\ k.pc = "unlock"
      <4>1. me \in Locals
        BY <2>2
      <4> HIDE DEF me
      <4> QED BY <4>1, StampedFields, LocalsFields
    <3> HIDE DEF m, k
    <3>3. ~Becomes(p, m) /\ ~Becomes(p, k)
      BY <2>1, <3>2, OthersStay
    <3> QED BY <3>1, <3>3
  <2>4. Knows(ledger, r) /\ (Healed(r) \/ IsDue(r, me.at))
    BY <2>1, <2>2 DEF Seen, Known, Chosen
  <2>5. ts # Never /\ ledger[i].wake.kind = "wake" /\ ledger[i].wake = r.wake /\ ts \in Nat
        /\ ledger[i].wake \in Wakes
    BY <2>1, <2>3 DEF BegunOnce, Rows
  <2>6. r.started \in Nat /\ r.started >= ts
    <3>1. r \in Records
      BY <2>2 DEF Stores
    <3>2. r.wake # NoWake
      BY <2>5, RecordsAssumption
    <3> QED BY <2>4, <2>5, <3>1, <3>2 DEF Knows, Records
  <2>7. ~Healed(r)
    BY <2>5 DEF Healed
  <2>8. r.started # Never /\ me.at >= r.started + Interval
    BY <2>4, <2>5, <2>6, <2>7 DEF IsDue, Never
  <2> HIDE DEF r, ts
  <2>9. Interval \in Nat
    BY RecordsAssumption
  <2> QED BY <2>2, <2>5, <2>6, <2>8, <2>9 DEF ts
<1> HIDE DEF Inv
<1>4. Spec => []Inv
  BY <1>1, <1>2, PTL DEF Spec
<1>5. StampedWakeIsNotRefired <=> [][Window]_vars
  BY DEF StampedWakeIsNotRefired
<1> HIDE DEF Window
<1> QED BY <1>3, <1>4, <1>5, PTL DEF Spec

=============================================================================
