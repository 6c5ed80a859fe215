-------------------------- MODULE AwrisePassProofs --------------------------
(***************************************************************************)
(* Theorems about AwrisePass for any number of jobs and invocations: the   *)
(* types, and, for passes and operators, one terminal row for every wake.  *)
(***************************************************************************)
EXTENDS AwrisePass, WellFoundedInduction, SequenceTheorems, TLAPS

\* Passes and operators only, and no pass outlasts the bound of its lock.
Quiet == Given.cast \subseteq RunDue \cup Operator /\ ~Given.overruns

\* Where a process is, a merge and a save and the sinks aside.
Saving == {"reload", "save", "notify"}
Place(m) == IF m.pc \in Saving THEN m.ret ELSE m.pc

\* Before the loop of a pass, and within a wake it has the lock for.
Early == {"start", "load", "rows", "close", "enter"}
AtWake == {"recheck", "begin", "spawn", "wait"}
Ended == {"done", "gone"}

\* An operator is in its verb, and a pass in none.  The wake whose lock a pass
\* took is one of its own, of a job it is done with.
Placed(p, m) ==
  /\ p \in Operator =>
       /\ m.pc \in {"start", "check", "save", "removed"} \cup Ended
       /\ m.cur = NoWake /\ m.notices = {}
       /\ m.pc = "save" => m.ret \in {"done", "removed"}
  /\ p \in RunDue =>
       /\ m.pc \notin {"lock", "check", "removed"}
       /\ m.pc \in Saving => m.ret \in {"enter", "judge", "gate", "loop", "unlock"}
       /\ Place(m) = "gate" => m.todo # {}
       /\ m.pc \in AtWake => m.cur.proc = p /\ m.cur.kind = "wake" /\ m.cur.job \notin m.todo

PlaceInv ==
  /\ \A p \in Procs \ Given.cast : proc[p].pc = "done"
  /\ \A p \in Procs : Placed(p, proc[p])

\* A pass that is there holds the pass lock.
PassInv ==
  /\ \A p \in RunDue : Alive(p) => passLock = p
  /\ old \cap RunDue = {}

\* Row i is of a wake of p.
Own(rows, p, i) == rows[i].event \in {"started", "finished"} /\ rows[i].wake.proc = p

\* Until its loop begins a pass has no row.  In the loop, the jobs it has yet to
\* turn to have none, but for the skew row of the one whose turn it is; and the
\* wake at hand has at most its started row.
RowOf(rows, p, m) ==
  \A i \in DOMAIN rows :
    Own(rows, p, i) =>
      /\ Place(m) \notin Early
      /\ rows[i].wake.kind = "wake" => rows[i].wake.job \notin m.todo
      /\ rows[i].wake.kind = "skew" /\ rows[i].wake.job \in m.todo =>
           Place(m) = "gate" /\ rows[i].wake.job = Min(m.todo)
      /\ rows[i].wake = m.cur =>
           m.pc \notin {"recheck", "begin"} /\ (m.pc \in {"spawn", "wait"} => rows[i].event = "started")

RowInv == \A p \in RunDue : proc[p].pc \notin Ended => RowOf(ledger, p, proc[p])

\* What a reconcile has yet to judge open is open still.
CloseInv ==
  \A p \in RunDue : proc[p].pc = "close" =>
    \A i \in ToJudge(proc[p]) : ~FinishedIn(ledger, ledger[i].wake)

\* No wake has two rows of the same event.
OnceInv(rows) ==
  \A i, k \in DOMAIN rows :
    /\ rows[i].event = rows[k].event /\ rows[i].event \in {"started", "finished"}
    /\ rows[i].wake = rows[k].wake
    => i = k

\* The inductive invariant of one terminal row.
WriterInv == PlaceInv /\ PassInv /\ RowInv /\ CloseInv /\ OnceInv(ledger)

-----------------------------------------------------------------------------
(* The operators                                                           *)

\* The order of the numbers, as a relation.
LessThan == {ss \in Nat \X Nat : ss[1] < ss[2]}

\* The least of a set of numbers is in it, and below all others.
LEMMA MinIn ==
  ASSUME NEW S \in SUBSET Nat, S # {}
  PROVE  Min(S) \in S /\ \A x \in S : Min(S) <= x
<1>1. IsWellFoundedOn(LessThan, Nat)
  BY NatLessThanWellFounded DEF OpToRel, LessThan
<1>2. PICK x \in S : \A y \in S : <<y, x>> \notin LessThan
  BY <1>1, WFMin
<1>3. ASSUME NEW y \in S PROVE x <= y
  <2>1. x \in Nat /\ y \in Nat
    OBVIOUS
  <2>2. y < x => <<y, x>> \in LessThan
    BY <2>1 DEF LessThan
  <2> QED BY <1>2, <2>1, <2>2
<1> QED BY <1>3 DEF Min

\* So is the greatest of a set of numbers below a bound.
LEMMA MaxIn ==
  ASSUME NEW n \in Nat, NEW S \in SUBSET (1..n), S # {}
  PROVE  Max(S) \in S /\ \A x \in S : x <= Max(S)
<1> DEFINE T == {n - x : x \in S}
<1>1. T \in SUBSET Nat /\ T # {}
  <2>1. \A x \in S : n - x \in Nat
    OBVIOUS
  <2> QED BY <2>1
<1>2. PICK x \in S : n - x = Min(T)
  <2>1. Min(T) \in T
    BY <1>1, MinIn
  <2> QED BY <2>1
<1>3. \A y \in S : x >= y
  <2>1. ASSUME NEW y \in S PROVE x >= y
    <3>1. n - y \in T
      OBVIOUS
    <3>2. n - x <= n - y
      BY <1>1, <1>2, <3>1, MinIn
    <3> QED BY <3>2
  <2> QED BY <2>1
<1> QED BY <1>3 DEF Max

\* What a process may have of a store, and what card code writes over it.
Stores == [Jobs -> Records \cup {NoJob}]
Puts == [job : Jobs, report : Reports, disable : BOOLEAN] \cup {NoJob}

\* The fields of Locals, with the two largest by name.
LEMMA LocalsFields ==
  Locals = [pc : Pcs, ret : Pcs, mem : Stores, rows : Nat, scan : Nat, touched : SUBSET Jobs,
            notices : SUBSET Jobs, put : Puts, todo : SUBSET Jobs, at : Nat, job : Jobs \cup {0},
            started : Nat, cur : Wakes \cup {NoWake}]
BY DEF Locals, Stores, Puts

\* A stamp makes a record of a record (_stamp).
LEMMA StampType ==
  ASSUME NEW r \in Records, NEW w \in Wakes, NEW ts \in Nat,
         NEW state \in States \cup {"none"}, NEW executed \in BOOLEAN
  PROVE  Stamp(r, w, ts, state, executed) \in Records
<1> DEFINE started == IF ts # Never /\ (executed \/ r.started = Never \/ ts > r.started)
                        THEN ts ELSE r.started
           fails == IF state \in BadStates THEN r.fails + 1
                    ELSE IF state = "success" THEN 0 ELSE r.fails
<1>1. started \in Nat
  BY DEF Records
<1>2. fails \in Nat
  BY DEF Records
<1>3. Stamp(r, w, ts, state, executed) =
        [r EXCEPT !.started = started, !.wake = w, !.state = state, !.fails = fails]
  BY DEF Stamp
<1> HIDE DEF started, fails
<1> QED BY <1>1, <1>2, <1>3 DEF Records

\* A merge makes a store of two (store.reload_merge).
LEMMA MergeType ==
  ASSUME NEW fresh \in Stores, NEW mine \in Stores, NEW touched \in SUBSET Jobs
  PROVE  Merge(fresh, mine, touched) \in Stores
<1>1. ASSUME NEW r \in Records, NEW m \in Records PROVE Overlay(r, m) \in Records
  BY DEF Overlay, Records
<1>2. ASSUME NEW j \in Jobs
      PROVE  (IF j \in touched /\ fresh[j] # NoJob /\ mine[j] # NoJob
                THEN Overlay(fresh[j], mine[j]) ELSE fresh[j]) \in Records \cup {NoJob}
  BY <1>1 DEF Stores
<1> QED BY <1>2 DEF Merge, Stores

\* So does what card code writes over it.
LEMMA PutType ==
  ASSUME NEW jobs \in Stores, NEW put \in Puts
  PROVE  WithPut(jobs, put) \in Stores
<1>1. CASE put = NoJob \/ jobs[put.job] = NoJob
  BY <1>1 DEF WithPut
<1>2. CASE ~(put = NoJob \/ jobs[put.job] = NoJob)
  <2>1. put.job \in Jobs /\ put.report \in Reports /\ put.disable \in BOOLEAN
    BY <1>2 DEF Puts
  <2>2. jobs[put.job] \in Records
    BY <1>2, <2>1 DEF Stores
  <2> DEFINE r == [jobs[put.job] EXCEPT !.report = put.report, !.enabled = @ /\ ~put.disable]
  <2>3. r \in Records
    BY <2>1, <2>2 DEF Records
  <2>4. WithPut(jobs, put) = [jobs EXCEPT ![put.job] = r]
    BY <1>2, <2>1, <2>2 DEF WithPut, Stores, Records
  <2> HIDE DEF r
  <2> QED BY <2>1, <2>3, <2>4 DEF Stores
<1> QED BY <1>1, <1>2

\* A receipt's verdict makes a record of a record (_receipt_verdict).
LEMMA JudgeType ==
  ASSUME NEW r \in Records \cup {NoJob}, NEW c \in Receipts \cup {NoReceipt}
  PROVE  JudgeReceipt(r, c) \in Records \cup {NoJob}
<1>1. CASE ~ReceiptJudges(r, c)
  BY <1>1 DEF JudgeReceipt
<1>2. CASE ReceiptJudges(r, c)
  <2>1. r \in Records /\ "success" \in States /\ "failure" \in States
    BY <1>2 DEF ReceiptJudges, States, BadStates
  <2>2. [r EXCEPT !.state = "success", !.fails = 0] \in Records
    BY <2>1 DEF Records
  <2>3. [r EXCEPT !.state = "failure", !.fails = @ + 1] \in Records
    <3>1. r.fails + 1 \in Nat
      BY <2>1 DEF Records
    <3> QED BY <2>1, <3>1 DEF Records
  <2> QED BY <1>2, <2>2, <2>3 DEF JudgeReceipt
<1> QED BY <1>1, <1>2

\* A finished or a started row is a row of its wake.
LEMMA RowType ==
  ASSUME TypeOK, NEW i \in DOMAIN ledger
  PROVE  /\ ledger[i] \in Rows /\ ledger[i].ts \in Nat /\ ledger[i].job \in Jobs
         /\ ledger[i].event \in {"started", "finished"} => ledger[i].wake \in Wakes
         /\ ledger[i].event = "finished" => ledger[i].state \in States \cup {"none"}
BY DEF TypeOK, Rows

\* What reconcile read of the ledger is a ledger, and starts like it.
LEMMA SnapshotType ==
  ASSUME TypeOK, NEW n \in Nat, n <= Len(ledger)
  PROVE  /\ SubSeq(ledger, 1, n) \in Seq(Rows)
         /\ DOMAIN SubSeq(ledger, 1, n) = 1..n
         /\ \A i \in 1..n : i \in DOMAIN ledger /\ SubSeq(ledger, 1, n)[i] = ledger[i]
<1>1. ledger \in Seq(Rows) /\ Len(ledger) \in Nat /\ DOMAIN ledger = 1..Len(ledger)
  BY DEF TypeOK
<1>2. \A i \in 1..n : ledger[i] \in Rows
  BY <1>1
<1> QED BY <1>1, <1>2, SubSeqProperties

\* Recovery makes a store of a store and a ledger (_recover_stamps).
LEMMA RecoverType ==
  ASSUME NEW mem \in Stores, NEW rows \in Seq(Rows)
  PROVE  RecoverStamps(mem, rows) \in Stores
<1>1. ASSUME NEW i \in DOMAIN rows, rows[i].event = "finished"
      PROVE  /\ rows[i].wake \in Wakes /\ rows[i].state \in States \cup {"none"}
             /\ StartOf(rows, i) \in Nat
  <2>1. \A k \in DOMAIN rows : rows[k] \in Rows /\ rows[k].ts \in Nat
    BY DEF Rows
  <2>2. rows[i].wake \in Wakes /\ rows[i].state \in States \cup {"none"}
    BY <1>1, <2>1 DEF Rows
  <2> QED BY <2>1, <2>2 DEF StartOf
<1>2. ASSUME NEW j \in Jobs, StampingAt(rows, j) # {}
      PROVE  Max(StampingAt(rows, j)) \in DOMAIN rows
             /\ rows[Max(StampingAt(rows, j))].event = "finished"
  <2>1. StampingAt(rows, j) \in SUBSET (1..Len(rows)) /\ Len(rows) \in Nat
    BY DEF StampingAt
  <2>2. Max(StampingAt(rows, j)) \in StampingAt(rows, j)
    BY <1>2, <2>1, MaxIn
  <2> QED BY <2>2 DEF StampingAt
<1>3. ASSUME NEW j \in Jobs, mem[j] # NoJob, StampingAt(rows, j) # {}
      PROVE  LET i == Max(StampingAt(rows, j))
             IN Stamp(mem[j], rows[i].wake, StartOf(rows, i), rows[i].state, FALSE) \in Records
  <2> DEFINE i == Max(StampingAt(rows, j))
  <2>1. i \in DOMAIN rows /\ rows[i].event = "finished" /\ mem[j] \in Records
    BY <1>2, <1>3 DEF Stores
  <2> HIDE DEF i
  <2>2. Stamp(mem[j], rows[i].wake, StartOf(rows, i), rows[i].state, FALSE) \in Records
    BY <1>1, <2>1, StampType
  <2> QED BY <2>2 DEF i
<1> QED BY <1>3 DEF RecoverStamps, Stores

-----------------------------------------------------------------------------
(* Types                                                                   *)

\* Where a save may return to.
Returns == {"start", "done", "gone", "unlock", "end", "removed", "enter", "judge", "gate", "loop"}

\* What a process has in memory fits the place where it is: the wake it works on
\* has a name and a record, the job an operator removes a name, and whoever is
\* at the sinks somebody to tell about.
Sound(m) ==
  /\ m \in Locals
  /\ m.ret \in Returns
  /\ m.pc \in {"recheck", "begin", "spawn", "wait"} => m.cur # NoWake /\ m.mem[m.cur.job] # NoJob
  /\ m.pc = "lock" => \A j \in m.todo : m.mem[j] # NoJob
  /\ m.pc = "notify" => m.notices # {}
  /\ m.pc \in {"check", "removed"} \/ m.ret = "removed" => m.job # 0

SoundInv == \A p \in Procs : Sound(proc[p]) /\ proc[p].rows <= Len(ledger)

\* The inductive invariant of the types.
TypeInv == TypeOK /\ SoundInv

\* A process that begins, ends or fails is sound.
LEMMA FreshSound ==
  ASSUME NEW pc \in Returns \ {"removed"}
  PROVE  Sound(Fresh(pc)) /\ Fresh(pc).rows = 0 /\ Fresh(pc).pc = pc /\ Fresh(pc).cur = NoWake
<1>1. [j \in Jobs |-> NoJob] \in Stores /\ NoJob \in Puts
  BY DEF Stores, Puts
<1>2. pc \in Pcs
  BY DEF Returns, Pcs
<1>3. Fresh(pc) \in Locals
  BY <1>1, <1>2, LocalsFields DEF Fresh
<1>4. Fresh(pc).ret = pc /\ Fresh(pc).pc = pc /\ Fresh(pc).rows = 0 /\ Fresh(pc).cur = NoWake
  BY DEF Fresh
<1> QED BY <1>3, <1>4 DEF Sound, Returns

\* A step that leaves its process sound leaves every process so.
LEMMA BecomesSound ==
  ASSUME TypeInv, NEW p \in Procs, NEW m, Sound(m), m.rows <= Len(ledger), Becomes(p, m),
         Len(ledger) <= Len(ledger'), Len(ledger') \in Nat
  PROVE  proc' \in [Procs -> Locals] /\ SoundInv'
<1> DEFINE n == IF m.pc = "done" THEN Fresh("done") ELSE m
<1>1. Sound(n) /\ n.rows <= Len(ledger)
  <2>1. Len(ledger) \in Nat
    BY DEF TypeInv, TypeOK
  <2>2. "done" \in Returns \ {"removed"}
    BY DEF Returns
  <2> QED BY <2>1, <2>2, FreshSound
<1>2. proc' = [proc EXCEPT ![p] = n]
  BY DEF Becomes
<1> HIDE DEF n
<1>3. proc \in [Procs -> Locals] /\ Len(ledger) \in Nat
  BY DEF TypeInv, TypeOK
<1>4. ASSUME NEW q \in Procs PROVE Sound(proc'[q]) /\ proc'[q].rows <= Len(ledger')
  <2>1. Sound(proc'[q]) /\ proc'[q].rows <= Len(ledger)
    BY <1>1, <1>2, <1>3 DEF TypeInv, SoundInv
  <2>2. proc'[q].rows \in Nat
    BY <2>1, LocalsFields DEF Sound
  <2> QED BY <1>3, <2>1, <2>2
<1>5. proc' \in [Procs -> Locals]
  BY <1>1, <1>2, <1>3 DEF Sound
<1> QED BY <1>4, <1>5 DEF SoundInv

\* What is in the memory of a process.
LEMMA Mine ==
  ASSUME NEW m, Sound(m)
  PROVE  /\ m \in Locals /\ m.pc \in Pcs /\ m.ret \in Pcs /\ m.mem \in Stores /\ m.rows \in Nat
         /\ m.scan \in Nat /\ m.touched \in SUBSET Jobs /\ m.notices \in SUBSET Jobs
         /\ m.put \in Puts /\ m.todo \in SUBSET Jobs /\ m.started \in Nat
         /\ m.cur \in Wakes \cup {NoWake} /\ m.job \in Jobs \cup {0}
BY LocalsFields DEF Sound

\* A process that goes on to a place of which nothing is asked is sound.
LEMMA GoesOn ==
  ASSUME NEW m, Sound(m),
         NEW pc \in Pcs \ {"recheck", "begin", "spawn", "wait", "lock", "notify", "check", "removed"}
  PROVE  Sound([m EXCEPT !.pc = pc]) /\ [m EXCEPT !.pc = pc].rows = m.rows
<1> DEFINE n == [m EXCEPT !.pc = pc]
<1>1. n \in Locals /\ n.pc = pc /\ n.ret = m.ret /\ n.job = m.job /\ n.rows = m.rows
  BY LocalsFields DEF Sound
<1> HIDE DEF n
<1>2. Sound(n)
  BY <1>1 DEF Sound
<1> QED BY <1>1, <1>2 DEF n

\* So is one that goes on behind a save.
LEMMA SaveGoesOn ==
  ASSUME NEW m, Sound(m)
  PROVE  Sound([m EXCEPT !.pc = AfterSave(m)]) /\ [m EXCEPT !.pc = AfterSave(m)].rows = m.rows
<1> DEFINE pc == AfterSave(m)
           n == [m EXCEPT !.pc = pc]
<1>1. (pc = "notify" /\ m.notices # {}) \/ pc = m.ret
  BY DEF AfterSave
<1>2. pc \in Pcs
  BY <1>1, Mine DEF Pcs
<1> HIDE DEF pc
<1>3. n \in Locals /\ n.pc = pc /\ n.ret = m.ret /\ n.job = m.job /\ n.rows = m.rows
      /\ n.notices = m.notices
  BY <1>2, LocalsFields DEF Sound
<1> HIDE DEF n
<1>4. Sound(n)
  BY <1>1, <1>3 DEF Sound, Returns
<1> QED BY <1>3, <1>4 DEF n, pc

\* So is one that has stamped a record and is about to merge and save it.
LEMMA StampedSound ==
  ASSUME NEW m, Sound(m), NEW w \in Wakes, m.mem[w.job] # NoJob, NEW ts \in Nat,
         NEW state \in States, NEW executed \in BOOLEAN, NEW ret \in Returns \ {"removed"}
  PROVE  LET n == Stamped(m, w, ts, state, executed, ret)
         IN /\ Sound(n) /\ n.pc = "reload" /\ n.ret = ret /\ n.rows = m.rows /\ n.cur = m.cur
            /\ n.todo = m.todo /\ n.notices = {w.job}
<1> DEFINE r == Stamp(m.mem[w.job], w, ts, state, executed)
           mem == [m.mem EXCEPT ![w.job] = r]
           n == Stamped(m, w, ts, state, executed, ret)
<1>1. w.job \in Jobs /\ m.mem \in Stores /\ m \in Locals
  BY Mine DEF Wakes
<1>2. r \in Records
  BY <1>1, StampType DEF Stores
<1> HIDE DEF r
<1>3. mem \in Stores
  BY <1>1, <1>2 DEF Stores
<1>4. n = [m EXCEPT !.mem = mem, !.touched = {w.job}, !.notices = {w.job}, !.pc = "reload",
                    !.ret = ret]
  BY DEF Stamped, r
<1> HIDE DEF mem
<1>5. ret \in Pcs
  BY DEF Returns, Pcs
<1>6. n \in Locals /\ n.pc = "reload" /\ n.ret = ret /\ n.job = m.job /\ n.rows = m.rows
      /\ n.cur = m.cur /\ n.todo = m.todo /\ n.notices = {w.job}
  <2> HIDE DEF n
  <2> QED BY <1>1, <1>3, <1>4, <1>5, LocalsFields DEF Pcs
<1> HIDE DEF n
<1>7. Sound(n)
  BY <1>6 DEF Sound
<1> QED BY <1>6, <1>7 DEF n

\* Process p becomes a sound one.
BecomesSoundly(p) == \E m : Sound(m) /\ m.rows <= Len(ledger) /\ Becomes(p, m)

\* The steps on the store and at the sinks leave a process sound.
LEMMA StoreSound ==
  ASSUME TypeInv, NEW p \in Procs, Load(p) \/ Reload(p) \/ Save(p) \/ Notify(p) \/ CardAnswer(p)
  PROVE  BecomesSoundly(p)
<1> DEFINE me == proc[p]
<1>0. /\ Sound(me) /\ me.rows <= Len(ledger) /\ me \in Locals /\ disk \in Stores
      /\ Len(ledger) \in Nat /\ me.mem \in Stores /\ me.put \in Puts /\ me.todo \in SUBSET Jobs
      /\ me.notices \in SUBSET Jobs /\ me.touched \in SUBSET Jobs
  BY Mine DEF TypeInv, SoundInv, TypeOK, Stores
<1> HIDE DEF me
<1>1. CASE Load(p)
  <2> DEFINE n == [me EXCEPT !.mem = disk, !.pc = "rows"]
  <2>1. n \in Locals /\ n.pc = "rows" /\ n.ret = me.ret /\ n.job = me.job /\ n.rows = me.rows
    BY <1>0, LocalsFields DEF Pcs
  <2>2. Becomes(p, n)
    BY <1>1 DEF Load, me
  <2> HIDE DEF n
  <2> QED BY <1>0, <2>1, <2>2 DEF BecomesSoundly, Sound
<1>2. CASE Reload(p)
  <2> DEFINE merged == Merge(disk, me.mem, me.touched)
             mem == WithPut(merged, me.put)
             m == [me EXCEPT !.mem = mem, !.touched = {}, !.put = NoJob]
             gone == me.put # NoJob /\ merged[me.put.job] = NoJob
  <2>1. mem \in Stores
    BY <1>0, MergeType, PutType
  <2>2. me.pc = "reload" /\ Becomes(p, [m EXCEPT !.pc = IF gone THEN AfterSave(m) ELSE "save"])
    BY <1>2 DEF Reload, At, me
  <2> HIDE DEF mem, gone
  <2>3. m \in Locals /\ m.pc = "reload" /\ m.ret = me.ret /\ m.job = me.job /\ m.rows = me.rows
    BY <1>0, <2>1, <2>2, LocalsFields DEF Puts
  <2> HIDE DEF m
  <2>4. Sound(m)
    BY <1>0, <2>3 DEF Sound
  <2>5. CASE gone
    BY <1>0, <2>2, <2>3, <2>4, <2>5, SaveGoesOn DEF BecomesSoundly
  <2>6. CASE ~gone
    BY <1>0, <2>2, <2>3, <2>4, <2>6, GoesOn DEF BecomesSoundly, Pcs
  <2> QED BY <2>5, <2>6
<1>3. CASE Save(p)
  <2>1. Becomes(p, [me EXCEPT !.pc = AfterSave(me)])
    BY <1>3 DEF Save, Goto, me
  <2> QED BY <1>0, <2>1, SaveGoesOn DEF BecomesSoundly
<1>4. CASE Notify(p)
  <2> DEFINE j == Min(me.notices)
             m == [me EXCEPT !.notices = @ \ {j}]
  <2>1. me.pc = "notify" /\ j \in Jobs
    <3>1. me.pc = "notify"
      BY <1>4 DEF Notify, At, me
    <3>2. me.notices # {} /\ me.notices \in SUBSET Nat
      BY <1>0, <3>1 DEF Sound, Jobs
    <3> QED BY <1>0, <3>1, <3>2, MinIn
  <2> HIDE DEF j
  <2>2. CASE me.mem[j] # NoJob /\ NeedsNotice(me.mem[j])
    <3>1. PICK card \in {"none", "open", "spent"} :
            Becomes(p, [m EXCEPT
              !.put = [job |-> j, report |-> [me.mem[j].report EXCEPT !.card = card],
                       disable |-> FALSE],
              !.touched = {j}, !.pc = "reload"])
      BY <1>4, <2>2 DEF Notify, me, j
    <3> DEFINE put == [job |-> j, report |-> [me.mem[j].report EXCEPT !.card = card],
                       disable |-> FALSE]
               n == [m EXCEPT !.put = put, !.touched = {j}, !.pc = "reload"]
    <3>2. me.mem[j].report \in Reports
      BY <1>0, <2>1, <2>2 DEF Stores, Records
    <3>3. put \in Puts
      BY <2>1, <3>2 DEF Puts, Reports
    <3> HIDE DEF put
    <3>4. n \in Locals /\ n.pc = "reload" /\ n.ret = me.ret /\ n.job = me.job /\ n.rows = me.rows
      BY <1>0, <2>1, <3>3, LocalsFields DEF Pcs
    <3>5. Becomes(p, n)
      BY <3>1 DEF put
    <3> HIDE DEF n
    <3> QED BY <1>0, <3>4, <3>5 DEF BecomesSoundly, Sound
  <2>3. CASE ~(me.mem[j] # NoJob /\ NeedsNotice(me.mem[j]))
    <3>1. Becomes(p, [m EXCEPT !.pc = AfterSave(m)])
      BY <1>4, <2>3 DEF Notify, me, j
    <3> DEFINE m2 == [m EXCEPT !.pc = "reload"]
    <3>2. m2 \in Locals /\ m2.pc = "reload" /\ m2.ret = me.ret /\ m2.job = me.job
          /\ m2.rows = me.rows /\ AfterSave(m2) = AfterSave(m)
      BY <1>0, LocalsFields DEF Pcs, AfterSave
    <3>3. [m2 EXCEPT !.pc = AfterSave(m)] = [m EXCEPT !.pc = AfterSave(m)]
      BY <1>0, LocalsFields
    <3> HIDE DEF m2
    <3>4. Sound(m2)
      BY <1>0, <3>2 DEF Sound
    <3> QED BY <1>0, <3>1, <3>2, <3>3, <3>4, SaveGoesOn DEF BecomesSoundly
  <2> QED BY <2>2, <2>3
<1>5. CASE CardAnswer(p)
  <2> DEFINE j == Min(me.todo)
  <2>1. me.todo # {} /\ me.mem[j] # NoJob /\ me.pc = "loop"
    BY <1>5 DEF CardAnswer, At, me
  <2>2. j \in Jobs
    BY <1>0, <2>1, MinIn DEF Jobs
  <2>3. CASE Goto(p, "judge")
    BY <1>0, <2>3, GoesOn DEF BecomesSoundly, Pcs, Goto, me
  <2>4. CASE ~Goto(p, "judge")
    <3>1. PICK disable \in BOOLEAN :
            Becomes(p, [me EXCEPT
              !.put = [job |-> j, report |-> [me.mem[j].report EXCEPT !.card = "spent"],
                       disable |-> disable],
              !.touched = {j}, !.pc = "reload", !.ret = "judge"])
      BY <1>5, <2>4 DEF CardAnswer, me
    <3> DEFINE put == [job |-> j, report |-> [me.mem[j].report EXCEPT !.card = "spent"],
                       disable |-> disable]
               n == [me EXCEPT !.put = put, !.touched = {j}, !.pc = "reload", !.ret = "judge"]
    <3> HIDE DEF j
    <3>2. me.mem[j].report \in Reports
      BY <1>0, <2>1, <2>2 DEF Stores, Records
    <3>3. put \in Puts
      BY <2>2, <3>2 DEF Puts, Reports
    <3>4. Becomes(p, n)
      BY <3>1
    <3> HIDE DEF put
    <3>5. n \in Locals /\ n.pc = "reload" /\ n.ret = "judge" /\ n.job = me.job /\ n.rows = me.rows
      BY <1>0, <2>2, <3>3, LocalsFields DEF Pcs
    <3> HIDE DEF n
    <3> QED BY <1>0, <3>4, <3>5 DEF BecomesSoundly, Sound, Returns
  <2> QED BY <2>3, <2>4
<1> QED BY <1>1, <1>2, <1>3, <1>4, <1>5

\* What reconcile has yet to judge are started rows of the ledger.
LEMMA ToJudgeType ==
  ASSUME TypeInv, NEW p \in Procs
  PROVE  /\ \A i \in ToJudge(proc[p]) :
              /\ i \in 1..proc[p].rows /\ i \in DOMAIN ledger /\ i >= proc[p].scan
              /\ ledger[i].event = "started" /\ ledger[i].wake \in Wakes /\ ledger[i].ts \in Nat
         /\ ToJudge(proc[p]) # {} =>
              /\ Min(ToJudge(proc[p])) \in ToJudge(proc[p])
              /\ \A i \in ToJudge(proc[p]) : Min(ToJudge(proc[p])) <= i
<1> DEFINE n == proc[p].rows
           snapshot == SubSeq(ledger, 1, n)
<1>1. TypeOK /\ n \in Nat /\ n <= Len(ledger)
  BY Mine DEF TypeInv, SoundInv
<1>2. DOMAIN snapshot = 1..n /\ \A i \in 1..n : i \in DOMAIN ledger /\ snapshot[i] = ledger[i]
  BY <1>1, SnapshotType
<1> HIDE DEF n, snapshot
<1>3. \A i \in ToJudge(proc[p]) : i \in 1..n /\ i >= proc[p].scan /\ snapshot[i].event = "started"
  BY <1>2 DEF ToJudge, OpenAt, SnapshotOf, n, snapshot
<1>4. \A i \in ToJudge(proc[p]) :
        i \in DOMAIN ledger /\ ledger[i].event = "started" /\ ledger[i].wake \in Wakes
        /\ ledger[i].ts \in Nat
  BY <1>1, <1>2, <1>3, RowType
<1>5. ToJudge(proc[p]) \in SUBSET Nat
  BY <1>1, <1>3
<1> QED BY <1>3, <1>4, <1>5, MinIn DEF n

\* The steps of reconcile leave a process sound.
LEMMA ReconcileSound ==
  ASSUME TypeInv, NEW p \in Procs,
         ReadRows(p) \/ CloseOrphan(p) \/ Repair(p) \/ StartReconcile(p)
  PROVE  BecomesSoundly(p)
<1> DEFINE me == proc[p]
<1>0. /\ Sound(me) /\ me.rows <= Len(ledger) /\ me \in Locals /\ disk \in Stores
      /\ Len(ledger) \in Nat /\ me.mem \in Stores /\ me.put \in Puts /\ me.todo \in SUBSET Jobs
      /\ me.notices \in SUBSET Jobs /\ me.touched \in SUBSET Jobs /\ me.rows \in Nat
  BY Mine DEF TypeInv, SoundInv, TypeOK, Stores
<1>1. CASE ReadRows(p)
  <2> DEFINE n == [me EXCEPT !.rows = Len(ledger), !.scan = 1, !.pc = "close"]
  <2>1. Becomes(p, n)
    BY <1>1 DEF ReadRows
  <2> HIDE DEF me
  <2>2. n \in Locals /\ n.pc = "close" /\ n.ret = me.ret /\ n.job = me.job /\ n.rows = Len(ledger)
    BY <1>0, LocalsFields DEF Pcs
  <2> HIDE DEF n
  <2> QED BY <1>0, <2>1, <2>2 DEF BecomesSoundly, Sound
<1>2. CASE CloseOrphan(p)
  <2> DEFINE i == Min(ToJudge(me))
             w == ledger[i].wake
             m == [me EXCEPT !.scan = i + 1]
             r == Stamp(me.mem[w.job], w, ledger[i].ts, "orphaned", FALSE)
             n == [m EXCEPT !.mem[w.job] = Stamp(@, w, ledger[i].ts, "orphaned", FALSE),
                            !.touched = @ \cup {w.job}, !.notices = @ \cup {w.job}]
  <2>1. i \in Nat /\ w \in Wakes /\ w.job \in Jobs /\ ledger[i].ts \in Nat /\ me.pc = "close"
    <3>1. ToJudge(me) # {} /\ me.pc = "close"
      BY <1>2 DEF CloseOrphan, At
    <3>2. i \in ToJudge(me)
      BY <3>1, ToJudgeType
    <3>3. i \in Nat /\ w \in Wakes /\ ledger[i].ts \in Nat
      BY <1>0, <3>2, ToJudgeType
    <3> QED BY <3>1, <3>3 DEF Wakes
  <2>2. Becomes(p, m) \/ (me.mem[w.job] # NoJob /\ Becomes(p, n))
    BY <1>2 DEF CloseOrphan
  <2> HIDE DEF me, i, w
  <2>3. m \in Locals /\ m.pc = "close" /\ m.ret = me.ret /\ m.job = me.job /\ m.rows = me.rows
        /\ m.mem = me.mem /\ m.touched = me.touched /\ m.notices = me.notices
    BY <1>0, <2>1, LocalsFields
  <2>4. CASE Becomes(p, m)
    <3> HIDE DEF m
    <3> QED BY <1>0, <2>3, <2>4 DEF BecomesSoundly, Sound
  <2>5. CASE me.mem[w.job] # NoJob /\ Becomes(p, n)
    <3> DEFINE mem == [me.mem EXCEPT ![w.job] = r]
    <3>1. r \in Records
      <4>1. me.mem[w.job] \in Records /\ "orphaned" \in States
        BY <1>0, <2>1, <2>5 DEF Stores, States, BadStates
      <4> QED BY <2>1, <4>1, StampType
    <3>2. n = [m EXCEPT !.mem = mem, !.touched = m.touched \cup {w.job},
                        !.notices = m.notices \cup {w.job}]
      BY <2>3
    <3> HIDE DEF r, m
    <3>3. mem \in Stores
      BY <1>0, <2>1, <3>1 DEF Stores
    <3> HIDE DEF mem, n
    <3>4. n \in Locals /\ n.pc = "close" /\ n.ret = me.ret /\ n.job = me.job /\ n.rows = me.rows
      BY <1>0, <2>1, <2>3, <3>2, <3>3, LocalsFields
    <3> QED BY <1>0, <2>5, <3>4 DEF BecomesSoundly, Sound
  <2> QED BY <2>2, <2>4, <2>5
<1>3. CASE Repair(p)
  <2> DEFINE recovered == RecoverStamps(me.mem, SnapshotOf(me))
             judged == [j \in Jobs |-> JudgeReceipt(recovered[j], receipt[j])]
             failed == {j \in Jobs : ReceiptJudges(recovered[j], receipt[j]) /\ ~receipt[j].ok}
             touched == me.touched \cup {j \in Jobs : judged[j] # me.mem[j]}
             ret == IF p \in RunDue THEN "enter" ELSE "done"
             pc == IF touched = {} THEN ret ELSE "reload"
             n == [me EXCEPT !.mem = judged, !.touched = touched, !.notices = @ \cup failed,
                             !.ret = ret, !.rows = 0, !.scan = 0, !.pc = pc]
  <2>1. SnapshotOf(me) \in Seq(Rows)
    BY <1>0, SnapshotType DEF SnapshotOf, TypeInv
  <2>2. Becomes(p, n)
    BY <1>3 DEF Repair
  <2> HIDE DEF me
  <2>3. recovered \in Stores
    BY <1>0, <2>1, RecoverType
  <2>4. judged \in Stores
    <3> HIDE DEF recovered
    <3>1. \A j \in Jobs : JudgeReceipt(recovered[j], receipt[j]) \in Records \cup {NoJob}
      BY <2>3, JudgeType DEF Stores, TypeInv, TypeOK
    <3> QED BY <3>1 DEF Stores
  <2>5. touched \in SUBSET Jobs /\ failed \in SUBSET Jobs
    BY <1>0
  <2> HIDE DEF judged, touched, failed
  <2>6. ret \in {"enter", "done"} /\ pc \in {"enter", "done", "reload"}
    OBVIOUS
  <2> HIDE DEF ret, pc
  <2>7. n \in Locals /\ n.pc = pc /\ n.ret = ret /\ n.job = me.job /\ n.rows = 0
    BY <1>0, <2>4, <2>5, <2>6, LocalsFields DEF Pcs
  <2> HIDE DEF n
  <2> QED BY <1>0, <2>2, <2>6, <2>7 DEF BecomesSoundly, Sound, Returns
<1>4. CASE StartReconcile(p)
  <2>1. Becomes(p, [me EXCEPT !.pc = "load"])
    BY <1>4 DEF StartReconcile, Goto
  <2> QED BY <1>0, <2>1, GoesOn DEF BecomesSoundly, Pcs
<1> QED BY <1>1, <1>2, <1>3, <1>4

\* The wakes of a process are wakes.
LEMMA WakeType ==
  ASSUME NEW p \in Procs, NEW j \in Jobs, NEW kind \in {"skew", "wake"}
  PROVE  /\ [proc |-> p, job |-> j, kind |-> kind] \in Wakes
         /\ [proc |-> p, job |-> j, kind |-> kind].job = j
BY DEF Wakes

\* The steps of a pass' loop leave a process sound.
LEMMA LoopSound ==
  ASSUME TypeInv, NEW p \in Procs,
         StartPass(p) \/ EnterLoop(p) \/ PassOver(p) \/ SkewRow(p) \/ SkipRow(p) \/ EndPass(p)
  PROVE  BecomesSoundly(p)
<1> DEFINE me == proc[p]
<1>0. /\ Sound(me) /\ me.rows <= Len(ledger) /\ me \in Locals /\ Len(ledger) \in Nat
      /\ me.mem \in Stores /\ me.todo \in SUBSET Jobs /\ now \in Nat
  BY Mine DEF TypeInv, SoundInv, TypeOK, Stores
<1>1. CASE StartPass(p)
  <2>1. Goto(p, "done") \/ Goto(p, "load")
    BY <1>1 DEF StartPass
  <2> QED BY <1>0, <2>1, GoesOn DEF BecomesSoundly, Pcs, Goto
<1>2. CASE EnterLoop(p)
  <2> DEFINE todo == {j \in Jobs : me.mem[j] # NoJob}
             n == [me EXCEPT !.todo = todo, !.at = now, !.pc = "loop"]
  <2>1. Becomes(p, n)
    BY <1>2 DEF EnterLoop
  <2>2. todo \in SUBSET Jobs
    OBVIOUS
  <2> HIDE DEF me, todo
  <2>3. n \in Locals /\ n.pc = "loop" /\ n.ret = me.ret /\ n.job = me.job /\ n.rows = me.rows
    BY <1>0, <2>2, LocalsFields DEF Pcs
  <2> HIDE DEF n
  <2> QED BY <1>0, <2>1, <2>3 DEF BecomesSoundly, Sound
<1>3. CASE PassOver(p)
  <2>1. PICK j \in Jobs : Becomes(p, [me EXCEPT !.todo = @ \ {j}, !.pc = "loop"])
    BY <1>3 DEF PassOver
  <2> DEFINE n == [me EXCEPT !.todo = @ \ {j}, !.pc = "loop"]
  <2> HIDE DEF me
  <2>2. n \in Locals /\ n.pc = "loop" /\ n.ret = me.ret /\ n.job = me.job /\ n.rows = me.rows
    BY <1>0, LocalsFields DEF Pcs
  <2>3. Becomes(p, n)
    BY <2>1
  <2> HIDE DEF n
  <2> QED BY <1>0, <2>2, <2>3 DEF BecomesSoundly, Sound
<1>4. CASE SkewRow(p)
  <2>1. PICK j \in Jobs :
          /\ me.mem[j] # NoJob
          /\ Becomes(p, Stamped(me, [proc |-> p, job |-> j, kind |-> "skew"], now, "error", TRUE,
                                "gate"))
    BY <1>4 DEF SkewRow
  <2> DEFINE w == [proc |-> p, job |-> j, kind |-> "skew"]
             measured == TRUE
             n == Stamped(me, w, now, "error", measured, "gate")
  <2>2. w \in Wakes /\ w.job = j /\ "error" \in States /\ "gate" \in Returns \ {"removed"}
    BY WakeType DEF States, BadStates, Returns
  <2>3. Becomes(p, n)
    BY <2>1
  <2>5. measured \in BOOLEAN
    OBVIOUS
  <2> HIDE DEF w, me, measured
  <2>4. Sound(n) /\ n.rows = me.rows
    BY <1>0, <2>1, <2>2, <2>5, StampedSound
  <2> QED BY <1>0, <2>3, <2>4 DEF BecomesSoundly
<1>5. CASE SkipRow(p)
  <2>1. PICK j \in Jobs :
          /\ Due(p, j)
          /\ Becomes(p, [Stamped(me, [proc |-> p, job |-> j, kind |-> "wake"], now, "skipped", FALSE,
                                 "loop") EXCEPT !.todo = @ \ {j}])
    BY <1>5 DEF SkipRow
  <2> DEFINE w == [proc |-> p, job |-> j, kind |-> "wake"]
             executed == FALSE
             m == Stamped(me, w, now, "skipped", executed, "loop")
             n == [m EXCEPT !.todo = @ \ {j}]
  <2>2. w \in Wakes /\ w.job = j /\ "skipped" \in States /\ "loop" \in Returns \ {"removed"}
    BY WakeType DEF States, Returns
  <2>3. Becomes(p, n) /\ me.mem[j] # NoJob
    BY <2>1 DEF Due
  <2>6. executed \in BOOLEAN
    OBVIOUS
  <2> HIDE DEF w, me, executed
  <2>4. Sound(m) /\ m.rows = me.rows /\ m.pc = "reload"
    BY <1>0, <2>2, <2>3, <2>6, StampedSound
  <2> HIDE DEF m
  <2>5. n \in Locals /\ n.pc = "reload" /\ n.ret = m.ret /\ n.job = m.job /\ n.rows = m.rows
    BY <2>4, LocalsFields DEF Sound
  <2> HIDE DEF n
  <2> QED BY <1>0, <2>3, <2>4, <2>5 DEF BecomesSoundly, Sound
<1>6. CASE EndPass(p)
  <2>1. Becomes(p, Fresh("done")) /\ "done" \in Returns \ {"removed"}
    BY <1>6 DEF EndPass, Returns
  <2> QED BY <1>0, <2>1, FreshSound DEF BecomesSoundly
<1> QED BY <1>1, <1>2, <1>3, <1>4, <1>5, <1>6

\* The job _execute is called for has a record.
LEMMA ExecutesRecord ==
  ASSUME TypeInv, NEW p \in Procs, NEW j \in Jobs, Executes(p, j)
  PROVE  proc[p].mem[j] # NoJob
<1>1. CASE At(p, "lock") /\ proc[p].todo = {j}
  BY <1>1 DEF At, TypeInv, SoundInv, Sound
<1>2. CASE Due(p, j)
  BY <1>2 DEF Due
<1> QED BY <1>1, <1>2 DEF Executes

\* The steps of a wake leave a process sound.
LEMMA ExecuteSound ==
  ASSUME TypeInv, NEW p \in Procs,
         \/ StartRun(p) \/ TakeLock(p) \/ Overlap(p) \/ Recheck(p) \/ Begin(p) \/ Spawn(p)
         \/ Finish(p) \/ Unlock(p)
  PROVE  BecomesSoundly(p)
<1> DEFINE me == proc[p]
<1>0. /\ Sound(me) /\ me.rows <= Len(ledger) /\ me \in Locals /\ Len(ledger) \in Nat
      /\ me.mem \in Stores /\ me.todo \in SUBSET Jobs /\ now \in Nat /\ disk \in Stores
      /\ me.cur \in Wakes \cup {NoWake} /\ me.started \in Nat
  BY Mine DEF TypeInv, SoundInv, TypeOK, Stores
<1>1. CASE StartRun(p)
  <2>1. PICK j \in Jobs :
          \/ disk[j] # NoJob /\ Becomes(p, [me EXCEPT !.mem = disk, !.todo = {j}, !.pc = "lock"])
          \/ Goto(p, "done")
    BY <1>1 DEF StartRun
  <2> DEFINE n == [me EXCEPT !.mem = disk, !.todo = {j}, !.pc = "lock"]
  <2>2. CASE Goto(p, "done")
    BY <1>0, <2>2, GoesOn DEF BecomesSoundly, Pcs, Goto
  <2>3. CASE disk[j] # NoJob /\ Becomes(p, n)
    <3> HIDE DEF me
    <3>1. n \in Locals /\ n.pc = "lock" /\ n.ret = me.ret /\ n.job = me.job /\ n.rows = me.rows
          /\ n.todo = {j} /\ n.mem = disk
      BY <1>0, LocalsFields DEF Pcs
    <3> HIDE DEF n
    <3> QED BY <1>0, <2>3, <3>1 DEF BecomesSoundly, Sound
  <2> QED BY <2>1, <2>2, <2>3
<1>2. CASE TakeLock(p)
  <2> DEFINE pc == IF p \in RunDue THEN "recheck" ELSE "begin"
             wake(j) == [proc |-> p, job |-> j, kind |-> "wake"]
             next(j) == [me EXCEPT !.cur = wake(j), !.started = now, !.todo = @ \ {j}, !.pc = pc]
  <2>1. PICK j \in Jobs : Executes(p, j) /\ Becomes(p, next(j))
    BY <1>2 DEF TakeLock
  <2> DEFINE w == wake(j)
             n == [me EXCEPT !.cur = w, !.started = now, !.todo = @ \ {j}, !.pc = pc]
  <2>2. w \in Wakes /\ w.job = j
    BY WakeType
  <2>3. w # NoWake /\ pc \in {"recheck", "begin"}
    BY <2>2, RecordsAssumption
  <2>4. me.mem[j] # NoJob
    BY <2>1, ExecutesRecord
  <2>5. Becomes(p, n)
    BY <2>1
  <2> HIDE DEF me, w, pc
  <2>6. n \in Locals /\ n.pc = pc /\ n.ret = me.ret /\ n.job = me.job /\ n.rows = me.rows
        /\ n.cur = w /\ n.mem = me.mem
    BY <1>0, <2>2, <2>3, LocalsFields DEF Pcs
  <2> HIDE DEF n
  <2> QED BY <1>0, <2>2, <2>3, <2>4, <2>5, <2>6 DEF BecomesSoundly, Sound, Returns
<1>3. CASE Overlap(p)
  <2>1. PICK j \in Jobs : Becomes(p, [me EXCEPT !.todo = @ \ {j}, !.pc = AfterWake(p)])
    BY <1>3 DEF Overlap
  <2> DEFINE n == [me EXCEPT !.todo = @ \ {j}, !.pc = AfterWake(p)]
  <2>2. AfterWake(p) \in {"loop", "done"}
    BY DEF AfterWake
  <2> HIDE DEF me
  <2>3. n \in Locals /\ n.pc \in {"loop", "done"} /\ n.ret = me.ret /\ n.job = me.job
        /\ n.rows = me.rows
    BY <1>0, <2>2, LocalsFields DEF Pcs
  <2>4. Becomes(p, n)
    BY <2>1
  <2> HIDE DEF n
  <2> QED BY <1>0, <2>3, <2>4 DEF BecomesSoundly, Sound
<1>4. CASE Recheck(p)
  <2> DEFINE w == me.cur
             executed == FALSE
             m == Stamped(me, w, me.started, "cancelled", executed, "unlock")
             n == [me EXCEPT !.mem[w.job] = disk[w.job], !.pc = "begin"]
  <2>1. me.pc = "recheck"
    BY <1>4 DEF Recheck, At
  <2>2. w \in Wakes /\ w # NoWake /\ w.job \in Jobs /\ me.mem[w.job] # NoJob
    BY <1>0, <2>1 DEF Sound, Wakes
  <2>3. \/ Becomes(p, m) \/ Goto(p, "unlock") \/ (disk[w.job] # NoJob /\ Becomes(p, n))
    BY <1>4 DEF Recheck
  <2>4. CASE Becomes(p, m)
    <3>1. "cancelled" \in States /\ executed \in BOOLEAN /\ "unlock" \in Returns \ {"removed"}
      BY DEF States, Returns
    <3> HIDE DEF me, w, executed
    <3>2. Sound(m) /\ m.rows = me.rows
      BY <1>0, <2>2, <3>1, StampedSound
    <3> QED BY <1>0, <2>4, <3>2 DEF BecomesSoundly
  <2>5. CASE Goto(p, "unlock")
    BY <1>0, <2>5, GoesOn DEF BecomesSoundly, Pcs, Goto
  <2>6. CASE disk[w.job] # NoJob /\ Becomes(p, n)
    <3> DEFINE mem == [me.mem EXCEPT ![w.job] = disk[w.job]]
    <3>1. w = me.cur
      OBVIOUS
    <3> HIDE DEF me, w
    <3>2. mem \in Stores /\ mem[w.job] # NoJob
      BY <1>0, <2>2, <2>6 DEF Stores
    <3>3. n = [me EXCEPT !.mem = mem, !.pc = "begin"]
      OBVIOUS
    <3> HIDE DEF mem, n
    <3>4. n \in Locals /\ n.pc = "begin" /\ n.ret = me.ret /\ n.job = me.job /\ n.rows = me.rows
          /\ n.cur = me.cur /\ n.mem = mem
      BY <1>0, <3>2, <3>3, LocalsFields DEF Pcs
    <3> QED BY <1>0, <2>2, <2>6, <3>1, <3>2, <3>4 DEF BecomesSoundly, Sound
  <2> QED BY <2>3, <2>4, <2>5, <2>6
<1>5. CASE Begin(p) \/ Spawn(p)
  <2>1. PICK pc \in {"spawn", "wait"} : Becomes(p, [me EXCEPT !.pc = pc])
    BY <1>5 DEF Begin, Spawn, Goto
  <2> DEFINE n == [me EXCEPT !.pc = pc]
  <2>2. me.pc \in {"begin", "spawn"}
    BY <1>5 DEF Begin, Spawn, At
  <2> HIDE DEF me
  <2>3. n \in Locals /\ n.pc \in {"spawn", "wait"} /\ n.ret = me.ret /\ n.job = me.job
        /\ n.rows = me.rows /\ n.cur = me.cur /\ n.mem = me.mem
    BY <1>0, LocalsFields DEF Pcs
  <2>4. Becomes(p, n)
    BY <2>1
  <2> HIDE DEF n
  <2> QED BY <1>0, <2>2, <2>3, <2>4 DEF BecomesSoundly, Sound
<1>6. CASE Finish(p)
  <2> DEFINE executed == TRUE
             next(state) == Stamped(me, me.cur, me.started, state, executed, "unlock")
  <2>1. PICK state \in Outcomes(me.cur) : Becomes(p, next(state))
    BY <1>6 DEF Finish
  <2>2. state \in States
    BY <2>1 DEF Outcomes, States, BadStates
  <2>3. me.cur \in Wakes /\ me.mem[me.cur.job] # NoJob
    BY <1>0, <1>6 DEF Finish, At, Sound
  <2>4. executed \in BOOLEAN /\ "unlock" \in Returns \ {"removed"}
    BY DEF Returns
  <2> HIDE DEF me, executed
  <2>5. Sound(next(state)) /\ next(state).rows = me.rows
    BY <1>0, <2>2, <2>3, <2>4, StampedSound
  <2> QED BY <1>0, <2>1, <2>5 DEF BecomesSoundly
<1>7. CASE Unlock(p)
  <2> DEFINE n == [me EXCEPT !.cur = NoWake, !.started = 0, !.pc = "loop"]
  <2>1. Becomes(p, n) \/ Becomes(p, Fresh("done"))
    BY <1>7 DEF Unlock
  <2>2. CASE Becomes(p, Fresh("done"))
    <3>1. "done" \in Returns \ {"removed"}
      BY DEF Returns
    <3> QED BY <1>0, <2>2, <3>1, FreshSound DEF BecomesSoundly
  <2>3. CASE Becomes(p, n)
    <3> HIDE DEF me
    <3>1. n \in Locals /\ n.pc = "loop" /\ n.ret = me.ret /\ n.job = me.job /\ n.rows = me.rows
      BY <1>0, LocalsFields DEF Pcs
    <3> HIDE DEF n
    <3> QED BY <1>0, <2>3, <3>1 DEF BecomesSoundly, Sound
  <2> QED BY <2>1, <2>2, <2>3
<1> QED BY <1>1, <1>2, <1>3, <1>4, <1>5, <1>6, <1>7

\* The operator's steps, a refused file operation and a death leave a process
\* sound.
LEMMA OperatorSound ==
  ASSUME TypeInv, NEW p \in Procs,
         \/ StartAdd(p) \/ StartSet(p) \/ StartRemove(p) \/ CheckRemove(p) \/ RemovedRowWritten(p)
         \/ Fail(p) \/ Die(p)
  PROVE  BecomesSoundly(p)
<1> DEFINE me == proc[p]
<1>0. /\ Sound(me) /\ me.rows <= Len(ledger) /\ me \in Locals /\ Len(ledger) \in Nat
      /\ me.mem \in Stores /\ now \in Nat /\ disk \in Stores /\ me.job \in Jobs \cup {0}
      /\ me.cur \in Wakes \cup {NoWake}
  BY Mine DEF TypeInv, SoundInv, TypeOK, Stores
<1>1. CASE StartAdd(p) \/ StartSet(p)
  <2>1. \E mem \in Stores : Becomes(p, [me EXCEPT !.mem = mem, !.pc = "save", !.ret = "done"])
    <3>1. CASE StartAdd(p)
      <4>1. PICK j \in Jobs :
              Becomes(p, [me EXCEPT !.mem = [disk EXCEPT ![j] = NewRecord(now)],
                                    !.pc = "save", !.ret = "done"])
        BY <3>1 DEF StartAdd
      <4>2. NewRecord(now) \in Records
        BY <1>0 DEF NewRecord, Records, Reports, Never
      <4>3. [disk EXCEPT ![j] = NewRecord(now)] \in Stores
        BY <1>0, <4>2 DEF Stores
      <4> QED BY <4>1, <4>3
    <3>2. CASE StartSet(p)
      <4>1. PICK j \in Jobs :
              /\ disk[j] # NoJob
              /\ \E changed \in {[disk[j] EXCEPT !.enabled = ~@],
                                 [disk[j] EXCEPT !.report.edited = TRUE]} :
                   Becomes(p, [me EXCEPT !.mem = [disk EXCEPT ![j] = changed],
                                         !.pc = "save", !.ret = "done"])
        BY <3>2 DEF StartSet
      <4>2. disk[j] \in Records
        BY <1>0, <4>1 DEF Stores
      <4>3. [disk[j] EXCEPT !.enabled = ~@] \in Records
        BY <4>2 DEF Records
      <4>4. [disk[j] EXCEPT !.report.edited = TRUE] \in Records
        <5>1. [disk[j].report EXCEPT !.edited = TRUE] \in Reports
          BY <4>2 DEF Records, Reports
        <5> QED BY <4>2, <5>1 DEF Records
      <4>5. PICK changed \in Records :
              Becomes(p, [me EXCEPT !.mem = [disk EXCEPT ![j] = changed],
                                    !.pc = "save", !.ret = "done"])
        BY <4>1, <4>3, <4>4
      <4>6. [disk EXCEPT ![j] = changed] \in Stores
        BY <1>0 DEF Stores
      <4> QED BY <4>5, <4>6
    <3> QED BY <1>1, <3>1, <3>2
  <2>2. PICK mem \in Stores : Becomes(p, [me EXCEPT !.mem = mem, !.pc = "save", !.ret = "done"])
    BY <2>1
  <2> DEFINE n == [me EXCEPT !.mem = mem, !.pc = "save", !.ret = "done"]
  <2>3. Becomes(p, n)
    BY <2>2
  <2> HIDE DEF me
  <2>4. n \in Locals /\ n.pc = "save" /\ n.ret = "done" /\ n.job = me.job /\ n.rows = me.rows
    BY <1>0, LocalsFields DEF Pcs
  <2> HIDE DEF n
  <2> QED BY <1>0, <2>3, <2>4 DEF BecomesSoundly, Sound, Returns
<1>2. CASE StartRemove(p)
  <2>1. PICK j \in Jobs : Becomes(p, [me EXCEPT !.mem = disk, !.job = j, !.pc = "check"])
    BY <1>2 DEF StartRemove
  <2> DEFINE n == [me EXCEPT !.mem = disk, !.job = j, !.pc = "check"]
  <2>2. Becomes(p, n) /\ j # 0
    BY <2>1 DEF Jobs
  <2> HIDE DEF me
  <2>3. n \in Locals /\ n.pc = "check" /\ n.ret = me.ret /\ n.job = j /\ n.rows = me.rows
    BY <1>0, LocalsFields DEF Pcs
  <2> HIDE DEF n
  <2> QED BY <1>0, <2>2, <2>3 DEF BecomesSoundly, Sound
<1>3. CASE CheckRemove(p)
  <2> DEFINE j == me.job
             n == [me EXCEPT !.mem[j] = NoJob, !.pc = "save", !.ret = "removed"]
             mem == [me.mem EXCEPT ![j] = NoJob]
  <2>1. Becomes(p, Fresh("done")) \/ Becomes(p, n)
    BY <1>3 DEF CheckRemove
  <2>2. me.pc = "check" /\ j # 0
    BY <1>0, <1>3 DEF CheckRemove, At, Sound
  <2>3. CASE Becomes(p, Fresh("done"))
    <3>1. "done" \in Returns \ {"removed"}
      BY DEF Returns
    <3> QED BY <1>0, <2>3, <3>1, FreshSound DEF BecomesSoundly
  <2>4. CASE Becomes(p, n)
    <3>1. j = me.job
      OBVIOUS
    <3> HIDE DEF me, j
    <3>2. mem \in Stores /\ n = [me EXCEPT !.mem = mem, !.pc = "save", !.ret = "removed"]
      BY <1>0, <2>2, <3>1 DEF Stores
    <3> HIDE DEF mem, n
    <3>3. n \in Locals /\ n.pc = "save" /\ n.ret = "removed" /\ n.job = j /\ n.rows = me.rows
      BY <1>0, <3>1, <3>2, LocalsFields DEF Pcs
    <3> QED BY <1>0, <2>2, <2>4, <3>3 DEF BecomesSoundly, Sound, Returns
  <2> QED BY <2>1, <2>3, <2>4
<1>4. CASE RemovedRowWritten(p) \/ Die(p)
  <2>1. PICK pc \in {"done", "gone"} : Becomes(p, Fresh(pc))
    BY <1>4 DEF RemovedRowWritten, Die
  <2>2. pc \in Returns \ {"removed"}
    BY DEF Returns
  <2> QED BY <1>0, <2>1, <2>2, FreshSound DEF BecomesSoundly
<1>5. CASE Fail(p)
  <2>1. PICK pc \in {"unlock", "end", "done"} : Becomes(p, [Fresh(pc) EXCEPT !.cur = me.cur])
    BY <1>5 DEF Fail
  <2> DEFINE m == Fresh(pc)
             n == [m EXCEPT !.cur = me.cur]
  <2>2. Sound(m) /\ m.rows = 0 /\ m.pc = pc
    <3>1. pc \in Returns \ {"removed"}
      BY DEF Returns
    <3> QED BY <3>1, FreshSound
  <2>3. Becomes(p, n)
    BY <2>1
  <2> HIDE DEF me, m
  <2>4. n \in Locals /\ n.pc = pc /\ n.ret = m.ret /\ n.job = m.job /\ n.rows = 0
    BY <1>0, <2>2, LocalsFields DEF Sound
  <2> HIDE DEF n
  <2> QED BY <1>0, <2>2, <2>3, <2>4 DEF BecomesSoundly, Sound
<1> QED BY <1>1, <1>2, <1>3, <1>4, <1>5

\* A written row is the last of the ledger (ledger.append).
LEMMA WriteType ==
  ASSUME TypeOK, NEW row \in Rows, Write(row)
  PROVE  /\ ledger' \in Seq(Rows) /\ Len(ledger) \in Nat /\ Len(ledger') = Len(ledger) + 1
         /\ \A i \in 1..Len(ledger) : ledger'[i] = ledger[i]
         /\ ledger'[Len(ledger) + 1] = row
         /\ DOMAIN ledger = 1..Len(ledger) /\ DOMAIN ledger' = 1..(Len(ledger) + 1)
BY DEF TypeOK, Write

\* The rows that are written are rows.
LEMMA RowTypes ==
  ASSUME NEW ts \in Nat
  PROVE  /\ \A w \in Wakes : StartedRow(w, ts) \in Rows
         /\ \A w \in Wakes : \A state \in States : FinishedRow(w, state, ts) \in Rows
         /\ \A j \in Jobs : RemovedRow(j, ts) \in Rows
<1>1. ASSUME NEW w \in Wakes PROVE StartedRow(w, ts) \in Rows
  <2>1. w.job \in Jobs
    BY DEF Wakes
  <2> QED BY <2>1 DEF StartedRow, Rows
<1>2. ASSUME NEW w \in Wakes, NEW state \in States PROVE FinishedRow(w, state, ts) \in Rows
  <2>1. w.job \in Jobs
    BY DEF Wakes
  <2> QED BY <2>1 DEF FinishedRow, Rows
<1>3. ASSUME NEW j \in Jobs PROVE RemovedRow(j, ts) \in Rows
  BY DEF RemovedRow, Rows
<1> QED BY <1>1, <1>2, <1>3

\* What is written is a row of a wake of the process, or the row of a removal.
LEMMA WrittenType ==
  ASSUME TypeInv, NEW p \in Procs,
         \/ CloseOrphan(p) \/ SkewRow(p) \/ SkipRow(p) \/ Overlap(p) \/ Recheck(p) \/ Begin(p)
         \/ Finish(p) \/ RemovedRowWritten(p)
  PROVE  ledger' = ledger \/ \E row \in Rows : Write(row)
<1> DEFINE me == proc[p]
<1>0. /\ Sound(me) /\ now \in Nat /\ me.cur \in Wakes \cup {NoWake} /\ me.started \in Nat
      /\ me.job \in Jobs \cup {0}
  BY Mine DEF TypeInv, SoundInv, TypeOK
<1>1. CASE CloseOrphan(p)
  <2> DEFINE w == ledger[Min(ToJudge(me))].wake
  <2>1. ToJudge(me) # {}
    BY <1>1 DEF CloseOrphan
  <2>2. w \in Wakes /\ "orphaned" \in States
    BY <2>1, ToJudgeType DEF States, BadStates
  <2>3. ledger' = ledger \/ Write(FinishedRow(w, "orphaned", now))
    BY <1>1 DEF CloseOrphan
  <2> QED BY <1>0, <2>2, <2>3, RowTypes
<1>2. CASE SkewRow(p)
  <2>1. PICK j \in Jobs :
          Write(FinishedRow([proc |-> p, job |-> j, kind |-> "skew"], "error", now))
    BY <1>2 DEF SkewRow
  <2>2. [proc |-> p, job |-> j, kind |-> "skew"] \in Wakes
    BY WakeType
  <2>3. "error" \in States
    BY DEF States, BadStates
  <2> QED BY <1>0, <2>1, <2>2, <2>3, RowTypes
<1>3. CASE SkipRow(p) \/ Overlap(p)
  <2>1. PICK j \in Jobs : \E state \in {"skipped", "overlap"} :
          Write(FinishedRow([proc |-> p, job |-> j, kind |-> "wake"], state, now))
    BY <1>3 DEF SkipRow, Overlap
  <2>2. [proc |-> p, job |-> j, kind |-> "wake"] \in Wakes
    BY WakeType
  <2>3. {"skipped", "overlap"} \subseteq States
    BY DEF States, UnstampedStates
  <2> QED BY <1>0, <2>1, <2>2, <2>3, RowTypes
<1>4. CASE Recheck(p) \/ Begin(p) \/ Finish(p)
  <2>1. me.cur \in Wakes
    BY <1>0, <1>4 DEF Recheck, Begin, Finish, At, Sound
  <2>2. {"cancelled", "overlap"} \subseteq States /\ Outcomes(me.cur) \subseteq States
    BY DEF States, UnstampedStates, BadStates, Outcomes
  <2>3. CASE Recheck(p)
    <3>1. \/ ledger' = ledger
          \/ \E state \in {"cancelled", "overlap"} : Write(FinishedRow(me.cur, state, now))
      BY <2>3 DEF Recheck
    <3> QED BY <1>0, <2>1, <2>2, <3>1, RowTypes
  <2>4. CASE Begin(p)
    BY <1>0, <2>1, <2>4, RowTypes DEF Begin
  <2>5. CASE Finish(p)
    <3>1. PICK state \in Outcomes(me.cur) : Write(FinishedRow(me.cur, state, now))
      BY <2>5 DEF Finish
    <3> QED BY <1>0, <2>1, <2>2, <3>1, RowTypes
  <2> QED BY <1>4, <2>3, <2>4, <2>5
<1>5. CASE RemovedRowWritten(p)
  <2>1. me.job \in Jobs /\ Write(RemovedRow(me.job, now))
    BY <1>0, <1>5 DEF RemovedRowWritten, At, Sound
  <2> QED BY <1>0, <2>1, RowTypes
<1> QED BY <1>1, <1>2, <1>3, <1>4, <1>5

\* All variables but the processes keep their types.
LEMMA WorldTypes ==
  ASSUME TypeInv, [Next]_vars
  PROVE  /\ setting' = setting /\ now' \in 1..Given.maxNow /\ stepped' \in 0..Given.steps
         /\ disk' \in [Jobs -> Records \cup {NoJob}]
         /\ ledger' \in Seq(Rows) /\ Len(ledger) \in Nat /\ Len(ledger') \in Nat
         /\ Len(ledger) <= Len(ledger')
         /\ markers' \in SUBSET Wakes
         /\ lockOf' \in [Jobs -> Wakes \cup {NoWake}]
         /\ kept' \in SUBSET Wakes
         /\ passLock' \in RunDue \cup {NoProc}
         /\ child' \in [Wakes -> {"none", "alive", "dead"}]
         /\ receipt' \in [Jobs -> Receipts \cup {NoReceipt}]
         /\ old' \in SUBSET (Wakes \cup RunDue)
<1>0. TypeOK /\ Len(ledger) \in Nat /\ \A p \in Procs : Sound(proc[p])
  BY DEF TypeInv, TypeOK, SoundInv
<1> USE DEF files, locks, world
<1>1. CASE UNCHANGED <<files, locks, world>>
  BY <1>0, <1>1 DEF TypeOK, Given
<1>2. ASSUME NEW p \in Procs, Save(p) PROVE disk' \in Stores /\ UNCHANGED <<ledger, markers, locks, world>>
  BY <1>0, <1>2, Mine DEF Save
<1>3. ASSUME NEW p \in Procs,
             \/ CloseOrphan(p) \/ SkewRow(p) \/ SkipRow(p) \/ Overlap(p) \/ Recheck(p) \/ Begin(p)
             \/ Finish(p) \/ RemovedRowWritten(p)
      PROVE  /\ ledger' \in Seq(Rows) /\ Len(ledger') \in Nat /\ Len(ledger) <= Len(ledger')
             /\ markers' \in SUBSET Wakes /\ kept' \in SUBSET Wakes
             /\ UNCHANGED <<disk, lockOf, passLock, world>>
  <2>1. ledger' = ledger \/ \E row \in Rows : Write(row)
    BY <1>3, WrittenType
  <2>2. ledger' \in Seq(Rows) /\ Len(ledger') \in Nat /\ Len(ledger) <= Len(ledger')
    <3>1. CASE ledger' = ledger
      BY <1>0, <3>1 DEF TypeOK
    <3>2. CASE \E row \in Rows : Write(row)
      BY <1>0, <3>2, WriteType
    <3> QED BY <2>1, <3>1, <3>2
  <2>3. markers' \in SUBSET Wakes
    BY <1>0, <1>3 DEF TypeOK, CloseOrphan, SkewRow, SkipRow, Overlap, Recheck, Begin, Finish,
                      RemovedRowWritten
  <2>4. kept' \in SUBSET Wakes
    <3>1. CASE Finish(p)
      <4>1. proc[p].cur \in Wakes
        BY <1>0, <3>1, Mine DEF Finish, At, Sound
      <4> QED BY <1>0, <3>1, <4>1 DEF Finish, TypeOK
    <3>2. CASE ~Finish(p)
      BY <1>0, <1>3, <3>2 DEF TypeOK, CloseOrphan, SkewRow, SkipRow, Overlap, Recheck, Begin,
                              RemovedRowWritten
    <3> QED BY <3>1, <3>2
  <2>5. UNCHANGED <<disk, lockOf, passLock, world>>
    BY <1>3 DEF CloseOrphan, SkewRow, SkipRow, Overlap, Recheck, Begin, Finish, RemovedRowWritten
  <2> QED BY <2>2, <2>3, <2>4, <2>5
<1>4. ASSUME NEW p \in Procs, Repair(p) \/ StartPass(p) \/ EndPass(p) \/ Unlock(p)
      PROVE  /\ lockOf' \in [Jobs -> Wakes \cup {NoWake}] /\ passLock' \in RunDue \cup {NoProc}
             /\ UNCHANGED <<files, kept, world>>
  BY <1>0, <1>4 DEF TypeOK, Repair, StartPass, EndPass, Unlock
<1>5. ASSUME NEW p \in Procs, TakeLock(p)
      PROVE  /\ lockOf' \in [Jobs -> Wakes \cup {NoWake}]
             /\ child' \in [Wakes -> {"none", "alive", "dead"}]
             /\ UNCHANGED <<files, kept, passLock, now, stepped, receipt, old, setting>>
  <2>1. PICK j \in Jobs :
          /\ lockOf' = [lockOf EXCEPT ![j] = [proc |-> p, job |-> j, kind |-> "wake"]]
          /\ child' = IF Held(j) THEN [child EXCEPT ![lockOf[j]] = "dead"] ELSE child
          /\ UNCHANGED <<files, kept, passLock, now, stepped, receipt, old, setting>>
    BY <1>5 DEF TakeLock
  <2>2. [proc |-> p, job |-> j, kind |-> "wake"] \in Wakes
    BY WakeType
  <2>3. lockOf' \in [Jobs -> Wakes \cup {NoWake}]
    BY <1>0, <2>1, <2>2 DEF TypeOK
  <2>4. child' \in [Wakes -> {"none", "alive", "dead"}]
    BY <1>0, <2>1 DEF TypeOK
  <2> QED BY <2>1, <2>3, <2>4
<1>6. ASSUME NEW p \in Procs, Spawn(p)
      PROVE  /\ child' \in [Wakes -> {"none", "alive", "dead"}]
             /\ UNCHANGED <<files, locks, now, stepped, receipt, old, setting>>
  BY <1>0, <1>6 DEF TypeOK, Spawn
<1>7. ASSUME NEW p \in Procs, Fail(p)
      PROVE  /\ markers' \in SUBSET Wakes /\ kept' \in SUBSET Wakes
             /\ UNCHANGED <<disk, ledger, lockOf, passLock, world>>
  <2>1. At(p, "wait") => proc[p].cur \in Wakes
    BY <1>0, Mine DEF At, Sound
  <2> QED BY <1>0, <1>7, <2>1 DEF TypeOK, Fail
<1>8. ASSUME NEW p \in Procs,
             \/ Load(p) \/ Reload(p) \/ Notify(p) \/ CardAnswer(p) \/ ReadRows(p) \/ StartReconcile(p)
             \/ EnterLoop(p) \/ PassOver(p) \/ StartRun(p) \/ StartAdd(p) \/ StartSet(p)
             \/ StartRemove(p) \/ CheckRemove(p) \/ Die(p)
      PROVE  UNCHANGED <<files, locks, world>>
  BY <1>8 DEF Load, Reload, Notify, CardAnswer, ReadRows, StartReconcile, EnterLoop, PassOver,
              StartRun, StartAdd, StartSet, StartRemove, CheckRemove, Die
<1>9. ASSUME Tick \/ StepBack
      PROVE  /\ now' \in 1..Given.maxNow /\ stepped' \in 0..Given.steps
             /\ UNCHANGED <<files, locks, child, receipt, old, setting>>
  <2>1. Given.maxNow \in Nat \ {0} /\ Given.steps \in Nat
    BY <1>0, PassAssumption DEF TypeOK, Given
  <2> HIDE DEF files, locks
  <2>2. CASE Tick
    <3>1. now < Given.maxNow /\ now' = now + 1 /\ UNCHANGED <<files, locks, stepped, child, receipt, old, setting>>
      BY <2>2 DEF Tick
    <3> QED BY <1>0, <2>1, <3>1 DEF TypeOK
  <2>3. CASE StepBack
    <3>1. /\ stepped < Given.steps /\ now > 1 /\ now' = now - 1 /\ stepped' = stepped + 1
          /\ UNCHANGED <<files, locks, child, receipt, old, setting>>
      BY <2>3 DEF StepBack
    <3> QED BY <1>0, <2>1, <3>1 DEF TypeOK
  <2> QED BY <1>9, <2>2, <2>3
<1>10. ASSUME NEW w \in Wakes, ChildExit(w)
       PROVE  /\ child' \in [Wakes -> {"none", "alive", "dead"}]
              /\ receipt' \in [Jobs -> Receipts \cup {NoReceipt}]
              /\ UNCHANGED <<files, locks, now, stepped, old, setting>>
  <2>1. \A ok \in BOOLEAN : [ts |-> now, ok |-> ok] \in Receipts
    BY <1>0 DEF TypeOK, Receipts
  <2>2. receipt' \in [Jobs -> Receipts \cup {NoReceipt}]
    BY <1>0, <1>10, <2>1 DEF ChildExit, TypeOK
  <2> QED BY <1>0, <1>10, <2>2 DEF ChildExit, TypeOK
<1>11. ASSUME NEW x \in Wakes \cup RunDue, Age(x) \/ AgePass(x)
       PROVE  /\ old' \in SUBSET (Wakes \cup RunDue)
              /\ UNCHANGED <<files, locks, now, stepped, child, receipt, setting>>
  BY <1>0, <1>11 DEF Age, AgePass, TypeOK
<1>12. CASE UNCHANGED vars
  BY <1>1, <1>12 DEF vars
<1>13. ASSUME NEW p \in Procs, Start(p) \/ Step(p) \/ Die(p)
       PROVE  /\ setting' = setting /\ now' = now /\ stepped' = stepped
              /\ disk' \in Stores /\ ledger' \in Seq(Rows) /\ Len(ledger') \in Nat
              /\ Len(ledger) <= Len(ledger')
              /\ markers' \in SUBSET Wakes /\ kept' \in SUBSET Wakes
              /\ lockOf' \in [Jobs -> Wakes \cup {NoWake}] /\ passLock' \in RunDue \cup {NoProc}
              /\ child' \in [Wakes -> {"none", "alive", "dead"}]
              /\ receipt' = receipt /\ old' = old
  <2>1. CASE Save(p)
    BY <1>0, <1>2, <2>1 DEF TypeOK, Stores
  <2>2. CASE CloseOrphan(p) \/ SkewRow(p) \/ SkipRow(p) \/ Overlap(p) \/ Recheck(p) \/ Begin(p)
           \/ Finish(p) \/ RemovedRowWritten(p)
    BY <1>0, <1>3, <2>2 DEF TypeOK, Stores
  <2>3. CASE Repair(p) \/ StartPass(p) \/ EndPass(p) \/ Unlock(p)
    BY <1>0, <1>4, <2>3 DEF TypeOK, Stores
  <2>4. CASE TakeLock(p)
    BY <1>0, <1>5, <2>4 DEF TypeOK, Stores
  <2>5. CASE Spawn(p)
    BY <1>0, <1>6, <2>5 DEF TypeOK, Stores
  <2>6. CASE Fail(p)
    BY <1>0, <1>7, <2>6 DEF TypeOK, Stores
  <2>7. CASE \/ Load(p) \/ Reload(p) \/ Notify(p) \/ CardAnswer(p) \/ ReadRows(p) \/ StartReconcile(p)
           \/ EnterLoop(p) \/ PassOver(p) \/ StartRun(p) \/ StartAdd(p) \/ StartSet(p)
           \/ StartRemove(p) \/ CheckRemove(p) \/ Die(p)
    BY <1>0, <1>8, <2>7 DEF TypeOK, Stores
  <2> QED BY <1>13, <2>1, <2>2, <2>3, <2>4, <2>5, <2>6, <2>7 DEF Start, Step
<1> HIDE DEF files, locks, world
<1>14. CASE \E p \in Procs : Start(p) \/ Step(p) \/ Die(p)
  BY <1>0, <1>13, <1>14 DEF TypeOK, Given, Stores
<1>15. CASE \E x \in Wakes \cup RunDue : Age(x) \/ AgePass(x)
  BY <1>0, <1>11, <1>15 DEF TypeOK, Given, files, locks
<1>16. CASE \E w \in Wakes : ChildExit(w)
  BY <1>0, <1>10, <1>16 DEF TypeOK, Given, files, locks
<1>17. CASE Tick \/ StepBack
  BY <1>0, <1>9, <1>17 DEF TypeOK, Given, files, locks
<1> QED BY <1>12, <1>14, <1>15, <1>16, <1>17 DEF Next

\* The types hold at first.
LEMMA InitTypeInv == Init => TypeInv
<1> SUFFICES ASSUME Init PROVE TypeInv
  OBVIOUS
<1>1. Given.maxNow \in Nat \ {0} /\ Given.steps \in Nat /\ setting \in DOMAIN Settings
  BY PassAssumption DEF Init, Given
<1>2. ledger = <<>> /\ ledger \in Seq(Rows) /\ Len(ledger) = 0
  BY DEF Init
<1>3. \A p \in Procs : Sound(proc[p]) /\ proc[p].rows = 0
  <2>1. {"start", "done"} \subseteq Returns \ {"removed"}
    BY DEF Returns
  <2> QED BY <2>1, FreshSound DEF Init
<1>4. proc \in [Procs -> Locals]
  <2>1. \A p \in Procs : proc[p] \in Locals
    BY <1>3 DEF Sound
  <2> QED BY <2>1 DEF Init
<1>5. NewRecord(1) \in Records
  BY DEF NewRecord, Records, Reports, Never
<1>6. disk \in [Jobs -> Records \cup {NoJob}]
  BY <1>5 DEF Init
<1>7. TypeOK
  BY <1>1, <1>2, <1>4, <1>6 DEF TypeOK, Init
<1> QED BY <1>2, <1>3, <1>7 DEF TypeInv, SoundInv

\* A process that becomes a sound one leaves all processes sound.
LEMMA SoundStep ==
  ASSUME TypeInv, [Next]_vars, NEW p \in Procs, BecomesSoundly(p)
  PROVE  proc' \in [Procs -> Locals] /\ SoundInv'
<1>1. PICK m : Sound(m) /\ m.rows <= Len(ledger) /\ Becomes(p, m)
  BY DEF BecomesSoundly
<1>2. Len(ledger) <= Len(ledger') /\ Len(ledger') \in Nat
  BY WorldTypes
<1> QED BY <1>1, <1>2, BecomesSound

\* Every step keeps the types.
LEMMA TypeStep ==
  ASSUME TypeInv, [Next]_vars
  PROVE  TypeInv'
<1>1. ASSUME UNCHANGED proc PROVE proc' \in [Procs -> Locals] /\ SoundInv'
  <2>1. Len(ledger) <= Len(ledger') /\ Len(ledger') \in Nat /\ Len(ledger) \in Nat
    BY WorldTypes
  <2>2. \A p \in Procs : proc[p].rows \in Nat
    BY Mine DEF TypeInv, SoundInv
  <2> QED BY <1>1, <2>1, <2>2 DEF TypeInv, TypeOK, SoundInv
<1>2. ASSUME NEW p \in Procs, Start(p) \/ Step(p) \/ Die(p)
      PROVE  proc' \in [Procs -> Locals] /\ SoundInv'
  <2>1. BecomesSoundly(p)
    BY <1>2, StoreSound, ReconcileSound, LoopSound, ExecuteSound, OperatorSound DEF Start, Step
  <2> QED BY <2>1, SoundStep
<1>3. proc' \in [Procs -> Locals] /\ SoundInv'
  BY <1>1, <1>2 DEF Next, AgePass, ChildExit, Age, Tick, StepBack, vars
<1>4. TypeOK'
  BY <1>3, WorldTypes DEF TypeInv, TypeOK, Given
<1> QED BY <1>3, <1>4 DEF TypeInv

\* The types of all variables, and what each process has in memory where it is,
\* hold in every behaviour (the types of AwrisePass, SoundInv).
THEOREM PassTypeInvariant == Spec => []TypeInv
BY InitTypeInv, TypeStep, PTL DEF Spec

\* Type correctness (the records, the ledger, the locks and the memory of every
\* invocation).
THEOREM PassTypeCorrect == Spec => []TypeOK
<1>1. TypeInv => TypeOK
  BY DEF TypeInv
<1> QED BY <1>1, PassTypeInvariant, PTL

-----------------------------------------------------------------------------
(* One terminal row                                                        *)

\* Whoever takes a step is an invocation of the cast that has not ended.
LEMMA ActorIs ==
  ASSUME Quiet, PlaceInv, NEW p \in Procs, Start(p) \/ Step(p) \/ Die(p)
  PROVE  p \in Given.cast /\ p \in RunDue \cup Operator /\ proc[p].pc \notin Ended
<1>1. proc[p].pc # "done"
  <2>1. CASE Start(p)
    BY <2>1 DEF Start, StartPass, StartRun, StartReconcile, StartAdd, StartSet, StartRemove, At
  <2>2. CASE Step(p) /\ ~Fail(p)
    BY <2>2 DEF Step, Load, Reload, Save, Notify, CardAnswer, ReadRows, CloseOrphan, Repair,
      EnterLoop, PassOver, SkewRow, SkipRow, EndPass, TakeLock, Overlap, Recheck, Begin, Spawn,
      Finish, Unlock, CheckRemove, RemovedRowWritten, Turn, Due, Executes, At
  <2>3. CASE Fail(p)
    BY <2>3 DEF Fail, Turn, Due, Executes, At
  <2>4. CASE Die(p)
    BY <2>4 DEF Die, Alive
  <2> QED BY <2>1, <2>2, <2>3, <2>4
<1>2. proc[p].pc # "gone"
  <2>1. CASE Start(p)
    BY <2>1 DEF Start, StartPass, StartRun, StartReconcile, StartAdd, StartSet, StartRemove, At
  <2>2. CASE Step(p) /\ ~Fail(p)
    BY <2>2 DEF Step, Load, Reload, Save, Notify, CardAnswer, ReadRows, CloseOrphan, Repair,
      EnterLoop, PassOver, SkewRow, SkipRow, EndPass, TakeLock, Overlap, Recheck, Begin, Spawn,
      Finish, Unlock, CheckRemove, RemovedRowWritten, Turn, Due, Executes, At
  <2>3. CASE Fail(p)
    BY <2>3 DEF Fail, Turn, Due, Executes, At
  <2>4. CASE Die(p)
    BY <2>4 DEF Die, Alive
  <2> QED BY <2>1, <2>2, <2>3, <2>4
<1> QED BY <1>1, <1>2 DEF PlaceInv, Quiet, Ended

\* One process moves, and the others stay.
LEMMA OthersStay ==
  ASSUME TypeInv, NEW p \in Procs, NEW m, Becomes(p, m)
  PROVE  /\ \A q \in Procs \ {p} : proc'[q] = proc[q]
         /\ proc'[p] = IF m.pc = "done" THEN Fresh("done") ELSE m
         /\ proc'[p].pc = m.pc
<1>1. proc \in [Procs -> Locals]
  BY DEF TypeInv, TypeOK
<1>2. Fresh("done").pc = "done"
  BY DEF Fresh
<1> QED BY <1>1, <1>2 DEF Becomes

\* An invocation that begins, ends or fails is where it may be.
LEMMA FreshPlaced ==
  ASSUME NEW p \in Procs, NEW pc \in Ended
  PROVE  Placed(p, Fresh(pc)) /\ Fresh(pc).pc = pc
BY DEF Placed, Fresh, Ended, Saving, AtWake, Place

\* A step that leaves its process where it may be leaves all processes so.
LEMMA PlaceStep ==
  ASSUME TypeInv, PlaceInv, setting' = setting, NEW p \in Procs, p \in Given.cast, NEW m,
         Becomes(p, m), Placed(p, m)
  PROVE  PlaceInv'
<1>1. Placed(p, proc'[p])
  <2>1. "done" \in Ended
    BY DEF Ended
  <2> QED BY <2>1, FreshPlaced, OthersStay
<1>2. \A q \in Procs : Placed(q, proc'[q])
  BY <1>1, OthersStay DEF PlaceInv
<1>3. \A q \in Procs \ Given.cast : proc'[q].pc = "done"
  BY OthersStay DEF PlaceInv
<1> QED BY <1>2, <1>3 DEF PlaceInv, Given

\* A pass that goes on, or that may begin, is the only one.
LEMMA RunsAlone ==
  ASSUME PassInv, NEW p \in RunDue, Alive(p) \/ ~PassHeld
  PROVE  \A q \in RunDue \ {p} : ~Alive(q)
<1>1. \A q \in RunDue : q # NoProc
  BY PassAssumption
<1> QED BY <1>1 DEF PassInv, PassHeld

\* What a step of the only pass must do to keep the invariant.
LEMMA PassGoesOn ==
  ASSUME TypeInv, WriterInv, setting' = setting, old' = old,
         NEW p \in RunDue, p \in Given.cast, NEW m, Becomes(p, m), Placed(p, m),
         \A q \in RunDue \ {p} : ~Alive(q),
         passLock' = p \/ m.pc \in Ended \cup {"start"},
         \A q \in RunDue \ {p} : \A i \in DOMAIN ledger' :
           Own(ledger', q, i) => \E k \in DOMAIN ledger : Own(ledger, q, k),
         m.pc \notin Ended => RowOf(ledger', p, m),
         m.pc = "close" => \A i \in ToJudge(m)' : ~FinishedIn(ledger', ledger'[i].wake),
         OnceInv(ledger')
  PROVE  WriterInv'
<1>0. p \in Procs /\ RunDue \subseteq Procs
  BY PassAssumption
<1>1. PlaceInv'
  BY <1>0, PlaceStep DEF WriterInv
<1>2. PassInv'
  BY <1>0, OthersStay DEF WriterInv, PassInv, Alive, Ended
<1>3. \A q \in RunDue \ {p} : proc'[q] = proc[q] /\ proc[q].pc \in Ended \cup {"start"}
  BY <1>0, OthersStay DEF Alive, Ended
<1>4. ASSUME NEW q \in RunDue, proc'[q].pc \notin Ended PROVE RowOf(ledger', q, proc'[q])
  <2>1. CASE q = p
    BY <1>0, <1>4, <2>1, OthersStay DEF Ended
  <2>2. CASE q # p
    <3>1. proc[q].pc = "start" /\ RowOf(ledger, q, proc[q])
      BY <1>3, <1>4, <2>2 DEF WriterInv, RowInv, Ended
    <3>2. \A k \in DOMAIN ledger : ~Own(ledger, q, k)
      BY <3>1 DEF RowOf, Place, Saving, Early
    <3> QED BY <2>2, <3>2 DEF RowOf
  <2> QED BY <2>1, <2>2
<1>5. RowInv'
  BY <1>4 DEF RowInv
<1>6. CloseInv'
  <2>1. ASSUME NEW q \in RunDue, proc'[q].pc = "close" PROVE q = p /\ proc'[q] = m /\ m.pc = "close"
    BY <1>0, <1>3, <2>1, OthersStay DEF Ended
  <2> QED BY <2>1 DEF CloseInv, ToJudge, SnapshotOf
<1> QED BY <1>1, <1>2, <1>5, <1>6 DEF WriterInv

\* What reconcile read of the ledger does not change with a row more.
LEMMA ToJudgeKept ==
  ASSUME TypeOK, NEW row \in Rows, Write(row), NEW m, m.rows \in Nat, m.rows <= Len(ledger)
  PROVE  ToJudge(m)' = ToJudge(m)
<1> DEFINE n == m.rows
<1>1. /\ Len(ledger) \in Nat /\ Len(ledger') = Len(ledger) + 1 /\ ledger' \in Seq(Rows)
      /\ \A i \in 1..Len(ledger) : ledger'[i] = ledger[i]
  BY WriteType
<1>2. \A i \in 1..n : ledger'[i] = ledger[i]
  BY <1>1
<1>3. SubSeq(ledger', 1, n) = [i \in 1..n |-> ledger'[i]]
  <2>1. \A i \in 1..n : ledger'[i] \in Rows
    BY <1>1
  <2> QED BY <1>1, <2>1, SubSeqProperties
<1>4. SubSeq(ledger, 1, n) = [i \in 1..n |-> ledger[i]]
  <2>1. ledger \in Seq(Rows) /\ \A i \in 1..n : ledger[i] \in Rows
    BY <1>1 DEF TypeOK
  <2> QED BY <1>1, <2>1, SubSeqProperties
<1>5. SubSeq(ledger', 1, n) = SubSeq(ledger, 1, n)
  BY <1>2, <1>3, <1>4
<1> QED BY <1>5 DEF ToJudge, SnapshotOf

\* A row that is not of an event and a wake already there is a first one.
LEMMA OnceKept ==
  ASSUME TypeOK, OnceInv(ledger), NEW row \in Rows, Write(row),
         row.event # "removed" => \A k \in DOMAIN ledger :
           ~(ledger[k].event = row.event /\ ledger[k].wake = row.wake)
  PROVE  OnceInv(ledger')
BY WriteType DEF OnceInv

\* A step of another process, which writes no row of a wake, leaves the passes
\* as they are.
LEMMA NoRowStep ==
  ASSUME TypeInv, WriterInv, \A q \in RunDue : proc'[q] = proc[q],
         ledger' = ledger \/ \E j \in Jobs : \E ts \in Nat : Write(RemovedRow(j, ts)),
         passLock' = passLock, old' = old
  PROVE  PassInv' /\ RowInv' /\ CloseInv' /\ OnceInv(ledger')
<1>1. PassInv'
  BY DEF WriterInv, PassInv, Alive
<1>2. CASE ledger' = ledger
  BY <1>1, <1>2 DEF WriterInv, RowInv, CloseInv, ToJudge, SnapshotOf
<1>3. ASSUME NEW j \in Jobs, NEW ts \in Nat, Write(RemovedRow(j, ts))
      PROVE  RowInv' /\ CloseInv' /\ OnceInv(ledger')
  <2> DEFINE row == RemovedRow(j, ts)
  <2>1. row \in Rows /\ row.event = "removed" /\ TypeOK
    BY RowTypes DEF RemovedRow, TypeInv
  <2> HIDE DEF row
  <2>2. OnceInv(ledger')
    BY <1>3, <2>1, OnceKept DEF WriterInv, row
  <2>3. /\ DOMAIN ledger = 1..Len(ledger) /\ DOMAIN ledger' = 1..(Len(ledger) + 1)
        /\ Len(ledger) \in Nat /\ \A i \in DOMAIN ledger : ledger'[i] = ledger[i]
        /\ ledger'[Len(ledger) + 1] = row
    BY <1>3, <2>1, WriteType DEF row
  <2>4. \A i \in DOMAIN ledger' : ledger'[i].event # "removed" => i \in DOMAIN ledger
    BY <2>1, <2>3
  <2>5. RowInv'
    <3>1. ASSUME NEW q \in RunDue, NEW m, RowOf(ledger, q, m) PROVE RowOf(ledger', q, m)
      BY <2>3, <2>4, <3>1 DEF RowOf, Own
    <3> QED BY <3>1 DEF WriterInv, RowInv
  <2>6. CloseInv'
    <3>1. ASSUME NEW q \in RunDue, proc[q].pc = "close", NEW i \in ToJudge(proc[q])'
          PROVE  ~FinishedIn(ledger', ledger'[i].wake)
      <4>0. q \in Procs /\ proc[q].rows \in Nat /\ proc[q].rows <= Len(ledger)
        <5>1. q \in Procs
          BY PassAssumption
        <5> QED BY <5>1, Mine DEF TypeInv, SoundInv
      <4>1. ToJudge(proc[q])' = ToJudge(proc[q])
        <5>1. PICK m : m = proc[q]
          OBVIOUS
        <5>2. ToJudge(m)' = ToJudge(m)
          BY <1>3, <2>1, <4>0, <5>1, ToJudgeKept DEF row
        <5>3. ToJudge(proc[q])' = ToJudge(m)' /\ ToJudge(proc[q]) = ToJudge(m)
          BY <5>1 DEF ToJudge, SnapshotOf
        <5> QED BY <5>2, <5>3
      <4>2. i \in ToJudge(proc[q]) /\ i \in DOMAIN ledger
        BY <3>1, <4>0, <4>1, ToJudgeType
      <4>3. ~FinishedIn(ledger, ledger[i].wake)
        BY <3>1, <4>2 DEF WriterInv, CloseInv
      <4> QED BY <2>3, <2>4, <4>2, <4>3 DEF FinishedIn
    <3> QED BY <3>1 DEF CloseInv
  <2> QED BY <2>2, <2>5, <2>6
<1> QED BY <1>1, <1>2, <1>3

\* What an operator does keeps the invariant: it opens and closes no wake.
LEMMA OperatorKeeps ==
  ASSUME TypeInv, WriterInv, [Next]_vars, NEW p \in Operator, p \in Given.cast,
         Start(p) \/ Step(p) \/ Die(p), proc[p].pc \notin Ended
  PROVE  WriterInv'
<1> DEFINE me == proc[p]
<1>0. /\ p \in Procs /\ p \notin RunDue /\ p \notin Run /\ p \notin Reconciler
      /\ me \in Locals /\ Placed(p, me) /\ me.pc \in {"start", "check", "save", "removed"}
      /\ me.cur = NoWake /\ me.notices = {}
      /\ me.pc = "save" => me.ret \in {"done", "removed"}
  <2>1. p \in Procs /\ p \notin RunDue /\ p \notin Run /\ p \notin Reconciler
    BY PassAssumption
  <2> QED BY <2>1, Mine DEF TypeInv, SoundInv, WriterInv, PlaceInv, Placed
<1>1. \/ StartAdd(p) \/ StartSet(p) \/ StartRemove(p) \/ CheckRemove(p) \/ RemovedRowWritten(p)
      \/ Save(p) \/ Fail(p) \/ Die(p)
  BY <1>0 DEF Start, StartPass, StartRun, StartReconcile, Step, Load, Reload, Notify, CardAnswer,
      ReadRows, CloseOrphan, Repair, EnterLoop, PassOver, SkewRow, SkipRow, EndPass, TakeLock,
      Overlap, Recheck, Begin, Spawn, Finish, Unlock, Turn, Due, Executes, At
<1>2. ledger' = ledger \/ \E j \in Jobs : \E ts \in Nat : Write(RemovedRow(j, ts))
  <2>1. CASE RemovedRowWritten(p)
    <3>1. me.job \in Jobs /\ now \in Nat
      BY <1>0, <2>1, Mine DEF TypeInv, TypeOK, SoundInv, Sound, RemovedRowWritten, At
    <3> QED BY <2>1, <3>1 DEF RemovedRowWritten
  <2>2. CASE ~RemovedRowWritten(p)
    BY <1>1, <2>2 DEF StartAdd, StartSet, StartRemove, CheckRemove, Save, Fail, Die, files
  <2> QED BY <2>1, <2>2
<1>3. passLock' = passLock /\ old' = old /\ setting' = setting
  BY <1>1 DEF StartAdd, StartSet, StartRemove, CheckRemove, RemovedRowWritten, Save, Fail, Die,
              locks, world
<1>4. \E m : Becomes(p, m) /\ Placed(p, m)
  <2>0. \A pc \in Ended : Placed(p, Fresh(pc))
    BY <1>0, FreshPlaced
  <2>1. CASE StartAdd(p) \/ StartSet(p)
    <3>1. PICK mem : Becomes(p, [me EXCEPT !.mem = mem, !.pc = "save", !.ret = "done"])
      BY <2>1 DEF StartAdd, StartSet
    <3> DEFINE n == [me EXCEPT !.mem = mem, !.pc = "save", !.ret = "done"]
    <3>2. n.pc = "save" /\ n.ret = "done" /\ n.cur = NoWake /\ n.notices = {}
      BY <1>0 DEF Locals
    <3>3. Becomes(p, n)
      BY <3>1
    <3> HIDE DEF n
    <3> QED BY <1>0, <3>2, <3>3 DEF Placed
  <2>2. CASE StartRemove(p)
    <3>1. PICK j : Becomes(p, [me EXCEPT !.mem = disk, !.job = j, !.pc = "check"])
      BY <2>2 DEF StartRemove
    <3> DEFINE n == [me EXCEPT !.mem = disk, !.job = j, !.pc = "check"]
    <3>2. n.pc = "check" /\ n.cur = NoWake /\ n.notices = {}
      BY <1>0 DEF Locals
    <3>3. Becomes(p, n)
      BY <3>1
    <3> HIDE DEF n
    <3> QED BY <1>0, <3>2, <3>3 DEF Placed
  <2>3. CASE CheckRemove(p)
    <3> DEFINE n == [me EXCEPT !.mem[me.job] = NoJob, !.pc = "save", !.ret = "removed"]
    <3>1. Becomes(p, Fresh("done")) \/ Becomes(p, n)
      BY <2>3 DEF CheckRemove
    <3>2. n.pc = "save" /\ n.ret = "removed" /\ n.cur = NoWake /\ n.notices = {}
      BY <1>0 DEF Locals
    <3> HIDE DEF n
    <3> QED BY <1>0, <2>0, <3>1, <3>2 DEF Placed, Ended
  <2>4. CASE RemovedRowWritten(p) \/ Die(p)
    BY <2>0, <2>4 DEF RemovedRowWritten, Die, Ended
  <2>5. CASE Save(p)
    <3> DEFINE n == [me EXCEPT !.pc = AfterSave(me)]
    <3>1. Becomes(p, n) /\ AfterSave(me) \in {"done", "removed"}
      BY <1>0, <2>5 DEF Save, Goto, AfterSave, At
    <3>2. n.pc \in {"done", "removed"} /\ n.cur = NoWake /\ n.notices = {}
      BY <1>0, <3>1 DEF Locals
    <3> HIDE DEF n
    <3> QED BY <1>0, <3>1, <3>2 DEF Placed, Ended
  <2>6. CASE Fail(p)
    <3> DEFINE n == [Fresh("done") EXCEPT !.cur = me.cur]
    <3>1. Becomes(p, n)
      BY <1>0, <2>6 DEF Fail
    <3>2. n.pc = "done" /\ n.cur = NoWake /\ n.notices = {}
      BY <1>0 DEF Fresh
    <3> HIDE DEF n
    <3> QED BY <1>0, <3>1, <3>2 DEF Placed, Ended
  <2> QED BY <1>1, <2>1, <2>2, <2>3, <2>4, <2>5, <2>6
<1>5. PlaceInv' /\ \A q \in RunDue : proc'[q] = proc[q]
  <2>1. PICK m : Becomes(p, m) /\ Placed(p, m)
    BY <1>4
  <2>2. RunDue \subseteq Procs \ {p}
    BY <1>0, PassAssumption
  <2> QED BY <1>0, <1>3, <2>1, <2>2, PlaceStep, OthersStay DEF WriterInv
<1>6. PassInv' /\ RowInv' /\ CloseInv' /\ OnceInv(ledger')
  BY <1>2, <1>3, <1>5, NoRowStep
<1> QED BY <1>5, <1>6 DEF WriterInv

\* A pass that moves on in its loop, within a wake or to its end and writes no
\* row keeps the rule for its rows.
LEMMA RowsKept ==
  ASSUME NEW rows, NEW p, NEW me, NEW m, RowOf(rows, p, me),
         \/ Place(me) \in Early
         \/ /\ Place(m) \notin Early /\ m.todo \subseteq me.todo
            /\ Place(me) = "gate" =>
                 (Place(m) = "gate" /\ m.todo = me.todo) \/ Min(me.todo) \notin m.todo
            /\ m.pc \notin AtWake
  PROVE  RowOf(rows, p, m)
BY DEF RowOf, AtWake

\* A written row of a job the pass is done with keeps the rule for its rows.
LEMMA RowAdded ==
  ASSUME TypeOK, NEW row \in Rows, Write(row), NEW p, NEW m, RowOf(ledger, p, m),
         row.event \in {"started", "finished"} /\ row.wake.proc = p =>
           /\ Place(m) \notin Early
           /\ row.wake.kind = "wake" => row.wake.job \notin m.todo
           /\ row.wake.kind = "skew" /\ row.wake.job \in m.todo =>
                Place(m) = "gate" /\ row.wake.job = Min(m.todo)
           /\ row.wake = m.cur =>
                m.pc \notin {"recheck", "begin"} /\ (m.pc \in {"spawn", "wait"} => row.event = "started")
  PROVE  RowOf(ledger', p, m)
<1>1. /\ DOMAIN ledger = 1..Len(ledger) /\ DOMAIN ledger' = 1..(Len(ledger) + 1)
      /\ Len(ledger) \in Nat /\ \A i \in DOMAIN ledger : ledger'[i] = ledger[i]
      /\ ledger'[Len(ledger) + 1] = row
  BY WriteType
<1>2. \A i \in DOMAIN ledger' : i \in DOMAIN ledger \/ ledger'[i] = row
  BY <1>1
<1> QED BY <1>1, <1>2 DEF RowOf, Own

\* A pass that is there, in a step of which nothing else is a pass' business.
Goes(p) ==
  /\ p \in RunDue /\ p \in Given.cast /\ Alive(p)
  /\ setting' = setting /\ old' = old /\ passLock' = passLock

\* What is known of a pass that takes a step.
LEMMA PassKnows ==
  ASSUME TypeInv, WriterInv, NEW p \in RunDue, Alive(p)
  PROVE  /\ p \in Procs /\ p \notin Operator /\ passLock = p /\ \A q \in RunDue \ {p} : ~Alive(q)
         /\ proc[p] \in Locals /\ Placed(p, proc[p]) /\ RowOf(ledger, p, proc[p])
         /\ proc[p].pc \notin Ended
<1>1. p \in Procs /\ p \notin Operator
  BY PassAssumption
<1>2. proc[p].pc \notin Ended
  BY DEF Alive, Ended
<1> QED BY <1>1, <1>2, RunsAlone DEF WriterInv, PassInv, PlaceInv, RowInv, TypeInv, TypeOK

\* A pass that writes no row, and does not start to close orphans.
LEMMA PassMoves ==
  ASSUME TypeInv, WriterInv, NEW p, Goes(p), ledger' = ledger, NEW m, Becomes(p, m), Placed(p, m),
         m.pc # "close", m.pc \notin Ended => RowOf(ledger, p, m)
  PROVE  WriterInv'
<1>1. p \in RunDue /\ Alive(p) /\ passLock' = p
  BY PassKnows DEF Goes
<1>2. \A q \in RunDue \ {p} : \A i \in DOMAIN ledger' :
        Own(ledger', q, i) => \E k \in DOMAIN ledger : Own(ledger, q, k)
  OBVIOUS
<1> QED BY <1>1, <1>2, PassKnows, PassGoesOn DEF Goes, WriterInv

\* A pass that writes a row of one of its wakes.
LEMMA PassWrites ==
  ASSUME TypeInv, WriterInv, NEW p, Goes(p), NEW m, Becomes(p, m), Placed(p, m),
         m.pc \notin Ended \cup {"close"}, RowOf(ledger, p, m),
         NEW row \in Rows, Write(row), row.event \in {"started", "finished"}, row.wake.proc = p,
         Place(m) \notin Early,
         row.wake.kind = "wake" => row.wake.job \notin m.todo,
         row.wake.kind = "skew" => Place(m) = "gate" /\ row.wake.job = Min(m.todo),
         row.wake = m.cur =>
           m.pc \notin {"recheck", "begin"} /\ (m.pc \in {"spawn", "wait"} => row.event = "started"),
         \A k \in DOMAIN ledger : ~(ledger[k].event = row.event /\ ledger[k].wake = row.wake)
  PROVE  WriterInv'
<1>1. p \in RunDue /\ Alive(p) /\ passLock' = p /\ TypeOK
  BY PassKnows DEF Goes, TypeInv
<1>2. RowOf(ledger', p, m)
  BY <1>1, RowAdded
<1>3. OnceInv(ledger')
  BY <1>1, OnceKept DEF WriterInv
<1>4. \A q \in RunDue \ {p} : \A i \in DOMAIN ledger' :
        Own(ledger', q, i) => \E k \in DOMAIN ledger : Own(ledger, q, k)
  <2>1. /\ DOMAIN ledger = 1..Len(ledger) /\ DOMAIN ledger' = 1..(Len(ledger) + 1)
        /\ Len(ledger) \in Nat /\ \A i \in DOMAIN ledger : ledger'[i] = ledger[i]
        /\ ledger'[Len(ledger) + 1] = row
    BY <1>1, WriteType
  <2>2. \A i \in DOMAIN ledger' : i \in DOMAIN ledger \/ ledger'[i] = row
    BY <2>1
  <2> QED BY <2>1, <2>2 DEF Own
<1> QED BY <1>1, <1>2, <1>3, <1>4, PassKnows, PassGoesOn DEF Goes

\* The merge, the save and the sinks leave a pass at its place.
LEMMA SinksKeep ==
  ASSUME TypeInv, WriterInv, NEW p, Goes(p), Reload(p) \/ Save(p) \/ Notify(p)
  PROVE  WriterInv'
<1> DEFINE me == proc[p]
<1>0. /\ p \in RunDue /\ p \notin Operator /\ me \in Locals /\ Placed(p, me) /\ RowOf(ledger, p, me)
      /\ me.pc \in Saving
  BY PassKnows DEF Goes, Reload, Save, Notify, At, Saving
<1>1. \E m : /\ Becomes(p, m) /\ m.pc \in Saving \cup {me.ret}
             /\ m.ret = me.ret /\ m.todo = me.todo /\ m.cur = me.cur
  <2>1. CASE Reload(p)
    <3> DEFINE merged == Merge(disk, me.mem, me.touched)
               mem == WithPut(merged, me.put)
               m == [me EXCEPT !.mem = mem, !.touched = {}, !.put = NoJob]
               gone == me.put # NoJob /\ merged[me.put.job] = NoJob
               pc == IF gone THEN AfterSave(m) ELSE "save"
    <3>1. Becomes(p, [m EXCEPT !.pc = pc])
      BY <2>1 DEF Reload
    <3> HIDE DEF me, mem, gone
    <3>2. m.ret = me.ret
      BY <1>0, LocalsFields
    <3>3. pc \in Saving \cup {me.ret}
      BY <3>2 DEF AfterSave, Saving
    <3> HIDE DEF pc
    <3>4. LET n == [m EXCEPT !.pc = pc]
          IN n.pc = pc /\ n.ret = me.ret /\ n.todo = me.todo /\ n.cur = me.cur
      BY <1>0, LocalsFields
    <3> HIDE DEF m
    <3> QED BY <3>1, <3>3, <3>4 DEF m
  <2>2. CASE Save(p)
    <3> DEFINE pc == AfterSave(me)
    <3>1. Becomes(p, [me EXCEPT !.pc = pc])
      BY <2>2 DEF Save, Goto
    <3>2. pc \in Saving \cup {me.ret}
      BY DEF AfterSave, Saving
    <3> HIDE DEF pc, me
    <3> QED BY <1>0, <3>1, <3>2, LocalsFields
  <2>3. CASE Notify(p)
    <3> DEFINE m == [me EXCEPT !.notices = @ \ {Min(me.notices)}]
               pc == AfterSave(m)
    <3>1. \/ \E put : Becomes(p, [m EXCEPT !.put = put, !.touched = {Min(me.notices)}, !.pc = "reload"])
          \/ Becomes(p, [m EXCEPT !.pc = pc])
      BY <2>3 DEF Notify
    <3> HIDE DEF me
    <3>2. m.ret = me.ret
      BY <1>0, LocalsFields
    <3>3. pc \in Saving \cup {me.ret}
      BY <3>2 DEF AfterSave, Saving
    <3> HIDE DEF pc
    <3>4. ASSUME NEW put
          PROVE  LET n == [m EXCEPT !.put = put, !.touched = {Min(me.notices)}, !.pc = "reload"]
                 IN /\ n.pc = "reload" /\ n.ret = me.ret /\ n.todo = me.todo /\ n.cur = me.cur
      BY <1>0, LocalsFields
    <3>5. LET n == [m EXCEPT !.pc = pc]
          IN n.pc = pc /\ n.ret = me.ret /\ n.todo = me.todo /\ n.cur = me.cur
      BY <1>0, LocalsFields
    <3> HIDE DEF m
    <3>6. "reload" \in Saving
      BY DEF Saving
    <3> QED BY <3>1, <3>3, <3>4, <3>5, <3>6
  <2> QED BY <2>1, <2>2, <2>3
<1>2. PICK m : /\ Becomes(p, m) /\ m.pc \in Saving \cup {me.ret}
               /\ m.ret = me.ret /\ m.todo = me.todo /\ m.cur = me.cur
  BY <1>1
<1> HIDE DEF me
<1>3. me.ret \in {"enter", "judge", "gate", "loop", "unlock"} /\ Place(me) = me.ret /\ Place(m) = me.ret
  BY <1>0, <1>2 DEF Placed, Place, Saving
<1>4. m.pc \notin AtWake \cup Ended \cup {"close", "lock", "check", "removed"}
  BY <1>2, <1>3 DEF Saving, AtWake, Ended
<1>5. Placed(p, m)
  BY <1>0, <1>2, <1>3, <1>4 DEF Placed
<1>6. RowOf(ledger, p, m)
  BY <1>0, <1>2, <1>3, <1>4, RowsKept
<1>7. ledger' = ledger
  BY DEF Reload, Save, Notify, files
<1> QED BY <1>2, <1>4, <1>5, <1>6, <1>7, PassMoves

\* The job whose turn it is, or that is due, is the next of the pass' loop.
LEMMA NextJob ==
  ASSUME TypeInv, WriterInv, NEW p \in RunDue, Alive(p), NEW j \in Jobs,
         \/ Turn(p, j) \/ Due(p, j) \/ Executes(p, j)
         \/ At(p, "gate") /\ j = Min(proc[p].todo)
  PROVE  /\ proc[p].pc \in {"loop", "judge", "gate"} /\ Place(proc[p]) = proc[p].pc
         /\ j \in proc[p].todo /\ j = Min(proc[p].todo)
         /\ Turn(p, j) => proc[p].pc # "gate"
<1>1. Placed(p, proc[p])
  BY PassKnows
<1>2. proc[p].todo \in SUBSET Nat
  BY PassKnows, Mine DEF TypeInv, SoundInv, Jobs
<1>3. Turn(p, j) \/ (At(p, "gate") /\ j = Min(proc[p].todo))
  BY <1>1 DEF Executes, Due, Placed, At
<1>4. Place(proc[p]) = proc[p].pc /\ proc[p].pc \in {"loop", "judge", "gate"}
  BY <1>3 DEF Place, Saving, Turn, At
<1>5. proc[p].todo # {} /\ j = Min(proc[p].todo) /\ (Turn(p, j) => proc[p].pc # "gate")
  BY <1>1, <1>3, <1>4 DEF Placed, Turn, At
<1> QED BY <1>2, <1>4, <1>5, MinIn

\* The steps of a pass before and in its loop that write no row.
LEMMA LoopKeeps ==
  ASSUME TypeInv, WriterInv, NEW p, Goes(p),
         Load(p) \/ EnterLoop(p) \/ Repair(p) \/ CardAnswer(p) \/ PassOver(p)
  PROVE  WriterInv'
<1> DEFINE me == proc[p]
<1>0. /\ p \in RunDue /\ p \notin Operator /\ me \in Locals /\ Placed(p, me) /\ RowOf(ledger, p, me)
  BY PassKnows DEF Goes
<1>1. ledger' = ledger
  BY DEF Load, EnterLoop, Repair, CardAnswer, PassOver, files
<1>2. \E m : /\ Becomes(p, m) /\ Place(m) \in {"rows", "enter", "loop", "judge"}
             /\ m.pc \in {"rows", "enter", "loop", "judge", "reload"}
             /\ m.pc = "reload" => m.ret # "rows"
             /\ \/ Place(me) \in Early
                \/ /\ m.todo \subseteq me.todo /\ Place(m) \in {"loop", "judge"}
                   /\ Place(me) = "gate" => Min(me.todo) \notin m.todo
  <2>1. CASE Load(p)
    <3> DEFINE n == [me EXCEPT !.mem = disk, !.pc = "rows"]
    <3>1. Becomes(p, n) /\ me.pc = "load"
      BY <2>1 DEF Load, At
    <3> HIDE DEF me
    <3>2. n.pc = "rows"
      BY <1>0, LocalsFields
    <3> HIDE DEF n
    <3> QED BY <3>1, <3>2 DEF Place, Saving, Early
  <2>2. CASE EnterLoop(p)
    <3> DEFINE todo == {j \in Jobs : me.mem[j] # NoJob}
               n == [me EXCEPT !.todo = todo, !.at = now, !.pc = "loop"]
    <3>1. Becomes(p, n) /\ me.pc = "enter"
      BY <2>2 DEF EnterLoop, At
    <3> HIDE DEF me, todo
    <3>2. n.pc = "loop"
      BY <1>0, LocalsFields
    <3> HIDE DEF n
    <3> QED BY <3>1, <3>2 DEF Place, Saving, Early
  <2>3. CASE Repair(p)
    <3>1. me.pc = "close" /\ \E mem, touched, notices : \E pc \in {"enter", "reload"} :
            Becomes(p, [me EXCEPT !.mem = mem, !.touched = touched, !.notices = notices,
                                  !.ret = "enter", !.rows = 0, !.scan = 0, !.pc = pc])
      BY <1>0, <2>3 DEF Repair, At
    <3>2. PICK mem, touched, notices : \E pc \in {"enter", "reload"} :
            Becomes(p, [me EXCEPT !.mem = mem, !.touched = touched, !.notices = notices,
                                  !.ret = "enter", !.rows = 0, !.scan = 0, !.pc = pc])
      BY <3>1
    <3>3. PICK pc \in {"enter", "reload"} :
            Becomes(p, [me EXCEPT !.mem = mem, !.touched = touched, !.notices = notices,
                                  !.ret = "enter", !.rows = 0, !.scan = 0, !.pc = pc])
      BY <3>2
    <3> DEFINE n == [me EXCEPT !.mem = mem, !.touched = touched, !.notices = notices,
                               !.ret = "enter", !.rows = 0, !.scan = 0, !.pc = pc]
    <3>4. Becomes(p, n) /\ me.pc = "close"
      BY <3>1, <3>3
    <3> HIDE DEF me
    <3>5. n.pc = pc /\ n.ret = "enter"
      BY <1>0, LocalsFields
    <3> HIDE DEF n
    <3> QED BY <3>4, <3>5 DEF Place, Saving, Early
  <2>4. CASE CardAnswer(p)
    <3>1. me.pc = "loop" /\ (\/ Becomes(p, [me EXCEPT !.pc = "judge"])
                             \/ \E put, touched : Becomes(p, [me EXCEPT
                                  !.put = put, !.touched = touched, !.pc = "reload", !.ret = "judge"]))
      BY <2>4 DEF CardAnswer, At, Goto
    <3>2. CASE Becomes(p, [me EXCEPT !.pc = "judge"])
      <4> DEFINE n == [me EXCEPT !.pc = "judge"]
      <4>1. Becomes(p, n)
        BY <3>2
      <4> HIDE DEF me
      <4>2. n.pc = "judge" /\ n.todo = me.todo
        BY <1>0, LocalsFields
      <4> HIDE DEF n
      <4> QED BY <3>1, <4>1, <4>2 DEF Place, Saving
    <3>3. ASSUME NEW put, NEW touched,
                 Becomes(p, [me EXCEPT !.put = put, !.touched = touched, !.pc = "reload",
                                       !.ret = "judge"])
          PROVE  \E m : /\ Becomes(p, m) /\ m.pc = "reload" /\ m.ret = "judge" /\ Place(m) = "judge"
                        /\ m.todo = me.todo
      <4> DEFINE n == [me EXCEPT !.put = put, !.touched = touched, !.pc = "reload", !.ret = "judge"]
      <4>1. Becomes(p, n)
        BY <3>3
      <4> HIDE DEF me
      <4>2. n.pc = "reload" /\ n.ret = "judge" /\ n.todo = me.todo
        BY <1>0, LocalsFields
      <4> HIDE DEF n
      <4> QED BY <4>1, <4>2 DEF Place, Saving
    <3>4. Place(me) = "loop"
      BY <3>1 DEF Place, Saving
    <3> QED BY <3>1, <3>2, <3>3, <3>4
  <2>5. CASE PassOver(p)
    <3>1. PICK j \in Jobs :
            /\ Turn(p, j) \/ (At(p, "gate") /\ j = Min(me.todo))
            /\ Becomes(p, [me EXCEPT !.todo = @ \ {j}, !.pc = "loop"])
      BY <2>5 DEF PassOver
    <3>2. j = Min(me.todo)
      BY <3>1, NextJob DEF Goes
    <3> DEFINE n == [me EXCEPT !.todo = @ \ {j}, !.pc = "loop"]
    <3>3. Becomes(p, n)
      BY <3>1
    <3> HIDE DEF me
    <3>4. n.pc = "loop" /\ n.todo = me.todo \ {j}
      BY <1>0, LocalsFields
    <3> HIDE DEF n
    <3> QED BY <3>2, <3>3, <3>4 DEF Place, Saving
  <2> QED BY <2>1, <2>2, <2>3, <2>4, <2>5
<1>3. PICK m : /\ Becomes(p, m) /\ Place(m) \in {"rows", "enter", "loop", "judge"}
               /\ m.pc \in {"rows", "enter", "loop", "judge", "reload"}
               /\ m.pc = "reload" => m.ret # "rows"
               /\ \/ Place(me) \in Early
                  \/ /\ m.todo \subseteq me.todo /\ Place(m) \in {"loop", "judge"}
                     /\ Place(me) = "gate" => Min(me.todo) \notin m.todo
  BY <1>2
<1> HIDE DEF me
<1>4. Placed(p, m)
  <2>1. m.pc \notin AtWake /\ (m.pc \in Saving => m.ret \in {"enter", "loop", "judge"})
    BY <1>3 DEF Place, Saving, AtWake
  <2> QED BY <1>0, <1>3, <2>1 DEF Placed
<1>5. RowOf(ledger, p, m)
  <2>1. Place(m) \in {"loop", "judge"} => Place(m) \notin Early
    BY DEF Early
  <2>2. m.pc \notin AtWake
    BY <1>3 DEF AtWake
  <2> QED BY <1>0, <1>3, <2>1, <2>2, RowsKept
<1> QED BY <1>1, <1>3, <1>4, <1>5, PassMoves

\* The steps that end a wake or a pass and write no row: the lock is released,
\* a file operation fails, the process dies.
LEMMA EndKeeps ==
  ASSUME TypeInv, WriterInv, NEW p, Goes(p), Unlock(p) \/ Fail(p) \/ Die(p)
  PROVE  WriterInv'
<1> DEFINE me == proc[p]
<1>0. /\ p \in RunDue /\ p \in Procs /\ p \notin Operator /\ me \in Locals /\ Placed(p, me)
      /\ RowOf(ledger, p, me)
  BY PassKnows DEF Goes
<1>1. ledger' = ledger
  BY DEF Unlock, Fail, Die, files
<1>2. \E m : Becomes(p, m) /\ (\/ m.pc = "gone" /\ Placed(p, m)
                               \/ m.pc = "loop" /\ m.todo = me.todo /\ me.pc = "unlock"
                               \/ m.pc \in {"unlock", "end"} /\ m.todo = {})
  <2>1. CASE Die(p)
    BY <1>0, <2>1, FreshPlaced DEF Die, Ended
  <2>2. CASE Unlock(p)
    <3> DEFINE n == [me EXCEPT !.cur = NoWake, !.started = 0, !.pc = "loop"]
    <3>1. Becomes(p, n) /\ me.pc = "unlock"
      BY <1>0, <2>2 DEF Unlock, At
    <3> HIDE DEF me
    <3>2. n.pc = "loop" /\ n.todo = me.todo
      BY <1>0, LocalsFields
    <3> HIDE DEF n
    <3> QED BY <3>1, <3>2
  <2>3. CASE Fail(p)
    <3>1. PICK pc \in {"unlock", "end"} : Becomes(p, [Fresh(pc) EXCEPT !.cur = me.cur])
      BY <1>0, <2>3 DEF Fail
    <3> DEFINE n == [Fresh(pc) EXCEPT !.cur = me.cur]
    <3>2. Becomes(p, n)
      BY <3>1
    <3>3. n.pc = pc /\ n.todo = {}
      BY DEF Fresh
    <3> HIDE DEF n
    <3> QED BY <3>2, <3>3
  <2> QED BY <2>1, <2>2, <2>3
<1>3. PICK m : Becomes(p, m) /\ (\/ m.pc = "gone" /\ Placed(p, m)
                                 \/ m.pc = "loop" /\ m.todo = me.todo /\ me.pc = "unlock"
                                 \/ m.pc \in {"unlock", "end"} /\ m.todo = {})
  BY <1>2
<1> HIDE DEF me
<1>4. Placed(p, m)
  BY <1>0, <1>3 DEF Placed, Place, Saving, AtWake
<1>5. ASSUME m.pc # "gone" PROVE RowOf(ledger, p, m)
  <2>1. Place(m) \notin Early /\ m.pc \notin AtWake
    BY <1>3, <1>5 DEF Place, Saving, Early, AtWake
  <2>2. m.pc = "loop" => Place(me) # "gate"
    BY <1>3 DEF Place, Saving
  <2> QED BY <1>0, <1>3, <1>5, <2>1, <2>2, RowsKept
<1>6. m.pc # "close" /\ (m.pc \notin Ended => m.pc # "gone")
  BY <1>3 DEF Ended
<1> QED BY <1>1, <1>3, <1>4, <1>5, <1>6, PassMoves

\* The wake at hand of a pass.
LEMMA WakeTaken ==
  ASSUME TypeInv, WriterInv, NEW p \in RunDue, proc[p].pc \in AtWake
  PROVE  /\ proc[p].cur \in Wakes /\ proc[p].cur.proc = p /\ proc[p].cur.kind = "wake"
         /\ proc[p].cur.job \notin proc[p].todo /\ Place(proc[p]) = proc[p].pc
         /\ \A i \in DOMAIN ledger : ledger[i].event \in {"started", "finished"} =>
              /\ ledger[i].wake = proc[p].cur =>
                   /\ proc[p].pc \in {"spawn", "wait"} /\ ledger[i].event = "started"
<1>1. Alive(p) /\ Place(proc[p]) = proc[p].pc
  BY DEF Alive, AtWake, Place, Saving
<1>2. Placed(p, proc[p]) /\ RowOf(ledger, p, proc[p]) /\ Sound(proc[p])
  BY <1>1, PassKnows DEF TypeInv, SoundInv
<1>3. proc[p].cur \in Wakes
  BY <1>2, Mine DEF Sound, AtWake
<1>4. proc[p].cur.proc = p /\ proc[p].cur.kind = "wake" /\ proc[p].cur.job \notin proc[p].todo
  BY <1>2 DEF Placed
<1> QED BY <1>1, <1>2, <1>3, <1>4 DEF RowOf, Own, AtWake

\* The executor starts, which writes no row.
LEMMA SpawnKeeps ==
  ASSUME TypeInv, WriterInv, NEW p, Goes(p), Spawn(p)
  PROVE  WriterInv'
<1> DEFINE me == proc[p]
           n == [me EXCEPT !.pc = "wait"]
<1>0. /\ p \in RunDue /\ p \notin Operator /\ me \in Locals /\ Placed(p, me)
      /\ RowOf(ledger, p, me) /\ me.pc = "spawn"
  BY PassKnows DEF Goes, Spawn, At
<1>1. ledger' = ledger /\ Becomes(p, n)
  BY DEF Spawn, files, Goto
<1> HIDE DEF me
<1>2. n.pc = "wait" /\ n.todo = me.todo /\ n.cur = me.cur
  BY <1>0, LocalsFields
<1> HIDE DEF n
<1>3. Placed(p, n)
  BY <1>0, <1>2 DEF Placed, Place, Saving, AtWake
<1>4. RowOf(ledger, p, n)
  BY <1>0, <1>2 DEF RowOf, Place, Saving, Early
<1> QED BY <1>1, <1>2, <1>3, <1>4, PassMoves

\* The lock is taken for a job the pass turns to: it has no row of that wake.
LEMMA TakeLockKeeps ==
  ASSUME TypeInv, WriterInv, NEW p, Goes(p), TakeLock(p)
  PROVE  WriterInv'
<1> DEFINE me == proc[p]
           wake(j) == [proc |-> p, job |-> j, kind |-> "wake"]
           next(j) == [me EXCEPT !.cur = wake(j), !.started = now, !.todo = @ \ {j}, !.pc = "recheck"]
<1>0. /\ p \in RunDue /\ p \in Procs /\ p \notin Operator /\ me \in Locals /\ Placed(p, me)
      /\ RowOf(ledger, p, me) /\ Alive(p)
  BY PassKnows DEF Goes
<1>1. ledger' = ledger
  BY DEF TakeLock, files
<1>2. PICK j \in Jobs : Executes(p, j) /\ Becomes(p, next(j))
  BY <1>0 DEF TakeLock
<1>3. me.pc \in {"loop", "judge", "gate"} /\ Place(me) = me.pc /\ j \in me.todo /\ j = Min(me.todo)
  BY <1>0, <1>2, NextJob
<1> DEFINE w == wake(j)
           n == [me EXCEPT !.cur = w, !.started = now, !.todo = @ \ {j}, !.pc = "recheck"]
<1>4. w.proc = p /\ w.job = j /\ w.kind = "wake" /\ Becomes(p, n)
  BY <1>2
<1> HIDE DEF me, w
<1>5. n.pc = "recheck" /\ n.todo = me.todo \ {j} /\ n.cur = w
  BY <1>0, LocalsFields
<1> HIDE DEF n
<1>6. Place(n) = "recheck"
  BY <1>5 DEF Place, Saving
<1>7. Placed(p, n)
  BY <1>0, <1>4, <1>5, <1>6 DEF Placed, Saving
<1>8. RowOf(ledger, p, n)
  <2>1. ASSUME NEW i \in DOMAIN ledger, Own(ledger, p, i)
        PROVE  /\ Place(n) \notin Early
               /\ ledger[i].wake.kind = "wake" => ledger[i].wake.job \notin n.todo
               /\ ledger[i].wake.kind = "skew" => ledger[i].wake.job \notin n.todo
               /\ ledger[i].wake # n.cur
    <3>1. Place(n) \notin Early
      BY <1>6 DEF Early
    <3>2. ledger[i].wake.kind = "wake" => ledger[i].wake.job \notin me.todo
      BY <1>0, <2>1 DEF RowOf
    <3>3. ledger[i].wake.kind = "skew" /\ ledger[i].wake.job \in me.todo => ledger[i].wake.job = j
      BY <1>0, <1>3, <2>1 DEF RowOf
    <3> QED BY <1>3, <1>4, <1>5, <3>1, <3>2, <3>3
  <2> QED BY <2>1 DEF RowOf
<1> QED BY <1>1, <1>4, <1>5, <1>7, <1>8, PassMoves

\* What a stamp changes of the memory of a process.
LEMMA StampedFields ==
  ASSUME NEW m \in Locals, NEW w, NEW ts, NEW state, NEW executed, NEW ret, NEW todo
  PROVE  LET n == Stamped(m, w, ts, state, executed, ret)
             k == [n EXCEPT !.todo = todo]
         IN /\ n.pc = "reload" /\ n.ret = ret /\ n.todo = m.todo /\ n.cur = m.cur
            /\ k.pc = "reload" /\ k.ret = ret /\ k.todo = todo /\ k.cur = m.cur
<1> DEFINE mem == [m.mem EXCEPT ![w.job] = Stamp(@, w, ts, state, executed)]
           n == [m EXCEPT !.mem = mem, !.touched = {w.job}, !.notices = {w.job}, !.pc = "reload",
                          !.ret = ret]
<1>1. Stamped(m, w, ts, state, executed, ret) = n
  BY DEF Stamped
<1> HIDE DEF mem
<1>2. n.pc = "reload" /\ n.ret = ret /\ n.todo = m.todo /\ n.cur = m.cur
  BY LocalsFields
<1>3. LET k == [n EXCEPT !.todo = todo]
      IN k.pc = "reload" /\ k.ret = ret /\ k.todo = todo /\ k.cur = m.cur
  BY LocalsFields
<1> HIDE DEF n
<1> QED BY <1>1, <1>2, <1>3

\* The rows of the wake at hand: the started row, the one that ends it, and
\* the one that says it is not to be.
LEMMA WakeRowKeeps ==
  ASSUME TypeInv, WriterInv, NEW p, Goes(p), Recheck(p) \/ Begin(p) \/ Finish(p)
  PROVE  WriterInv'
<1> DEFINE me == proc[p]
           w == me.cur
<1>0. /\ p \in RunDue /\ p \in Procs /\ p \notin Operator /\ me \in Locals /\ Placed(p, me)
      /\ RowOf(ledger, p, me) /\ Alive(p) /\ now \in Nat /\ me.started \in Nat
  BY PassKnows, Mine DEF Goes, TypeInv, TypeOK, SoundInv
<1>1. me.pc \in {"recheck", "begin", "wait"} /\ me.pc \in AtWake
  BY DEF Recheck, Begin, Finish, At, AtWake
<1>2. /\ w \in Wakes /\ w.proc = p /\ w.kind = "wake" /\ w.job \notin me.todo
      /\ Place(me) = me.pc
      /\ \A i \in DOMAIN ledger :
           ledger[i].event \in {"started", "finished"} /\ ledger[i].wake = w =>
             me.pc = "wait" /\ ledger[i].event = "started"
  BY <1>0, <1>1, WakeTaken
\* A row that ends the wake.
<1>3. ASSUME NEW state \in States, Write(FinishedRow(w, state, now)), NEW n, Becomes(p, n),
             n.todo = me.todo, n.cur = me.cur,
             n.pc = "unlock" \/ (n.pc = "reload" /\ n.ret = "unlock")
      PROVE  WriterInv'
  <2> DEFINE row == FinishedRow(w, state, now)
  <2>1. row \in Rows /\ row.event = "finished" /\ row.wake = w
    BY <1>0, <1>2, RowTypes DEF FinishedRow
  <2>2. Write(row)
    BY <1>3
  <2> HIDE DEF me, w, row
  <2>3. Place(n) = "unlock" /\ Place(n) \notin Early /\ n.pc \notin AtWake \cup Ended \cup {"close"}
    BY <1>3 DEF Place, Saving, Early, AtWake, Ended
  <2>4. Placed(p, n)
    BY <1>0, <1>3, <2>3 DEF Placed, Saving
  <2>5. RowOf(ledger, p, n)
    <3>1. Place(me) # "gate"
      BY <1>1, <1>2
    <3> QED BY <1>0, <1>3, <2>3, <3>1, RowsKept
  <2>6. \A k \in DOMAIN ledger : ~(ledger[k].event = row.event /\ ledger[k].wake = row.wake)
    BY <1>2, <2>1
  <2>7. n.pc \notin {"recheck", "begin", "spawn", "wait"}
    BY <2>3 DEF AtWake
  <2> QED BY <1>2, <1>3, <2>1, <2>2, <2>3, <2>4, <2>5, <2>6, <2>7, PassWrites
<1>4. CASE Finish(p)
  <2>1. PICK state \in Outcomes(w) : \E executed : /\ Write(FinishedRow(w, state, now))
          /\ Becomes(p, Stamped(me, w, me.started, state, executed, "unlock"))
    BY <1>4 DEF Finish
  <2>2. PICK executed : /\ Write(FinishedRow(w, state, now))
          /\ Becomes(p, Stamped(me, w, me.started, state, executed, "unlock"))
    BY <2>1
  <2>3. state \in States
    BY <2>1 DEF Outcomes, States, BadStates
  <2> DEFINE n == Stamped(me, w, me.started, state, executed, "unlock")
  <2>4. n.pc = "reload" /\ n.ret = "unlock" /\ n.todo = me.todo /\ n.cur = me.cur
    BY <1>0, StampedFields
  <2>5. Becomes(p, n) /\ Write(FinishedRow(w, state, now))
    BY <2>2
  <2> HIDE DEF n
  <2> QED BY <1>3, <2>3, <2>4, <2>5
<1>5. CASE Begin(p)
  <2> DEFINE row == StartedRow(w, me.started)
             n == [me EXCEPT !.pc = "spawn"]
  <2>1. Becomes(p, n) /\ Write(row) /\ me.pc = "begin"
    BY <1>5 DEF Begin, Goto, At
  <2>2. row \in Rows /\ row.event = "started" /\ row.wake = w
    BY <1>0, <1>2, RowTypes DEF StartedRow
  <2>3. w = me.cur
    OBVIOUS
  <2> HIDE DEF me, w, row
  <2>4. n.pc = "spawn" /\ n.todo = me.todo /\ n.cur = w
    BY <1>0, <2>3, LocalsFields
  <2> HIDE DEF n
  <2>5. Place(n) = "spawn" /\ Place(n) \notin Early /\ n.pc \notin Ended \cup {"close"}
    BY <2>4 DEF Place, Saving, Early, Ended
  <2>6. Placed(p, n)
    BY <1>0, <1>2, <2>4, <2>5 DEF Placed, Saving
  <2>7. RowOf(ledger, p, n)
    BY <1>0, <1>2, <2>1, <2>4, <2>5 DEF RowOf, Own
  <2>8. \A k \in DOMAIN ledger : ~(ledger[k].event = row.event /\ ledger[k].wake = row.wake)
    BY <1>2, <2>1, <2>2
  <2> QED BY <1>2, <2>1, <2>2, <2>4, <2>5, <2>6, <2>7, <2>8, PassWrites
<1>6. CASE Recheck(p)
  <2> DEFINE executed == FALSE
             m == Stamped(me, w, me.started, "cancelled", executed, "unlock")
             k == [me EXCEPT !.pc = "unlock"]
             n == [me EXCEPT !.mem[w.job] = disk[w.job], !.pc = "begin"]
  <2>1. \/ Write(FinishedRow(w, "cancelled", now)) /\ Becomes(p, m)
        \/ Write(FinishedRow(w, "overlap", now)) /\ Becomes(p, k)
        \/ ledger' = ledger /\ Becomes(p, n)
    BY <1>6 DEF Recheck, Goto
  <2>2. {"cancelled", "overlap"} \subseteq States
    BY DEF States, UnstampedStates
  <2>3. CASE Write(FinishedRow(w, "cancelled", now)) /\ Becomes(p, m)
    <3> HIDE DEF executed
    <3>1. m.pc = "reload" /\ m.ret = "unlock" /\ m.todo = me.todo /\ m.cur = me.cur
      BY <1>0, StampedFields
    <3> HIDE DEF m
    <3> QED BY <1>3, <2>2, <2>3, <3>1
  <2>4. CASE Write(FinishedRow(w, "overlap", now)) /\ Becomes(p, k)
    <3>1. k.pc = "unlock" /\ k.todo = me.todo /\ k.cur = me.cur
      <4> HIDE DEF me
      <4> QED BY <1>0, LocalsFields
    <3> HIDE DEF k
    <3> QED BY <1>3, <2>2, <2>4, <3>1
  <2>5. CASE ledger' = ledger /\ Becomes(p, n)
    <3> DEFINE mem == [me.mem EXCEPT ![w.job] = disk[w.job]]
    <3>1. n = [me EXCEPT !.mem = mem, !.pc = "begin"] /\ w = me.cur /\ me.pc = "recheck"
      BY <1>6 DEF Recheck, At
    <3> HIDE DEF me, mem, n, w
    <3>2. n.pc = "begin" /\ n.todo = me.todo /\ n.cur = w
      BY <1>0, <3>1, LocalsFields
    <3>3. Place(n) = "begin" /\ Place(n) \notin Early /\ n.pc # "close"
      BY <3>2 DEF Place, Saving, Early
    <3>4. Placed(p, n)
      BY <1>0, <1>2, <3>2, <3>3 DEF Placed, Saving
    <3>5. RowOf(ledger, p, n)
      BY <1>0, <1>2, <3>1, <3>2, <3>3 DEF RowOf, Own
    <3> QED BY <2>5, <3>3, <3>4, <3>5, PassMoves
  <2> QED BY <2>1, <2>3, <2>4, <2>5
<1> QED BY <1>4, <1>5, <1>6

\* The rows of a job's turn: the skew row, the policy skip, the overlap.
LEMMA TurnRowKeeps ==
  ASSUME TypeInv, WriterInv, NEW p, Goes(p), SkewRow(p) \/ SkipRow(p) \/ Overlap(p)
  PROVE  WriterInv'
<1> DEFINE me == proc[p]
<1>0. /\ p \in RunDue /\ p \in Procs /\ p \notin Operator /\ me \in Locals /\ Placed(p, me)
      /\ RowOf(ledger, p, me) /\ Alive(p) /\ now \in Nat
  BY PassKnows DEF Goes, TypeInv, TypeOK
<1>1. {"error", "skipped", "overlap"} \subseteq States
  BY DEF States, BadStates, UnstampedStates
\* The turn ends with this row.
<1>2. ASSUME NEW j \in Jobs, Due(p, j) \/ Executes(p, j), NEW state \in States,
             Write(FinishedRow([proc |-> p, job |-> j, kind |-> "wake"], state, now)),
             NEW n, Becomes(p, n), n.todo = me.todo \ {j},
             n.pc = "loop" \/ (n.pc = "reload" /\ n.ret = "loop")
      PROVE  WriterInv'
  <2> DEFINE w == [proc |-> p, job |-> j, kind |-> "wake"]
             row == FinishedRow(w, state, now)
  <2>1. w \in Wakes /\ w.job = j /\ w.kind = "wake" /\ w.proc = p /\ Write(row)
    BY <1>0, <1>2, WakeType
  <2> HIDE DEF w
  <2>2. row \in Rows /\ row.event = "finished" /\ row.wake = w
    BY <1>0, <2>1, RowTypes DEF FinishedRow
  <2>3. me.pc \in {"loop", "judge", "gate"} /\ Place(me) = me.pc /\ j \in me.todo /\ j = Min(me.todo)
    BY <1>0, <1>2, NextJob
  <2> HIDE DEF me, row
  <2>4. Place(n) = "loop" /\ Place(n) \notin Early /\ n.pc \notin AtWake \cup Ended \cup {"close"}
    BY <1>2 DEF Place, Saving, Early, AtWake, Ended
  <2>5. Placed(p, n)
    BY <1>0, <1>2, <2>4 DEF Placed, Saving
  <2>6. RowOf(ledger, p, n)
    BY <1>0, <1>2, <2>3, <2>4, RowsKept
  <2>7. \A k \in DOMAIN ledger : ~(ledger[k].event = row.event /\ ledger[k].wake = row.wake)
    BY <1>0, <2>1, <2>2, <2>3 DEF RowOf, Own
  <2>8. n.pc \notin {"recheck", "begin", "spawn", "wait"}
    BY <2>4 DEF AtWake
  <2> QED BY <1>2, <2>1, <2>2, <2>4, <2>5, <2>6, <2>7, <2>8, PassWrites
<1>3. CASE SkipRow(p)
  <2>1. PICK j \in Jobs :
          /\ Due(p, j)
          /\ Write(FinishedRow([proc |-> p, job |-> j, kind |-> "wake"], "skipped", now))
          /\ Becomes(p, [Stamped(me, [proc |-> p, job |-> j, kind |-> "wake"], now, "skipped", FALSE,
                                 "loop") EXCEPT !.todo = @ \ {j}])
    BY <1>3 DEF SkipRow
  <2> DEFINE w == [proc |-> p, job |-> j, kind |-> "wake"]
             executed == FALSE
             m == Stamped(me, w, now, "skipped", executed, "loop")
             n == [m EXCEPT !.todo = me.todo \ {j}]
  <2>2. /\ m.todo = me.todo
        /\ n.pc = "reload" /\ n.ret = "loop" /\ n.todo = me.todo \ {j}
    <3> HIDE DEF me, w, executed
    <3> QED BY <1>0, StampedFields
  <2>3. Becomes(p, n)
    <3>1. Becomes(p, [m EXCEPT !.todo = @ \ {j}])
      BY <2>1
    <3> HIDE DEF m
    <3> QED BY <2>2, <3>1
  <2> HIDE DEF n
  <2> QED BY <1>1, <1>2, <2>1, <2>2, <2>3
<1>4. CASE Overlap(p)
  <2>1. PICK j \in Jobs :
          /\ Executes(p, j)
          /\ Write(FinishedRow([proc |-> p, job |-> j, kind |-> "wake"], "overlap", now))
          /\ Becomes(p, [me EXCEPT !.todo = @ \ {j}, !.pc = "loop"])
    BY <1>0, <1>4 DEF Overlap, AfterWake
  <2> DEFINE n == [me EXCEPT !.todo = @ \ {j}, !.pc = "loop"]
  <2>2. Becomes(p, n)
    BY <2>1
  <2>3. n.pc = "loop" /\ n.todo = me.todo \ {j}
    <3> HIDE DEF me
    <3> QED BY <1>0, LocalsFields
  <2> HIDE DEF n
  <2> QED BY <1>1, <1>2, <2>1, <2>2, <2>3
<1>5. CASE SkewRow(p)
  <2>1. PICK j \in Jobs :
          /\ Turn(p, j)
          /\ Write(FinishedRow([proc |-> p, job |-> j, kind |-> "skew"], "error", now))
          /\ Becomes(p, Stamped(me, [proc |-> p, job |-> j, kind |-> "skew"], now, "error", TRUE,
                                "gate"))
    BY <1>5 DEF SkewRow
  <2> DEFINE w == [proc |-> p, job |-> j, kind |-> "skew"]
             row == FinishedRow(w, "error", now)
             executed == TRUE
             n == Stamped(me, w, now, "error", executed, "gate")
  <2>2. n.pc = "reload" /\ n.ret = "gate" /\ n.todo = me.todo
    <3> HIDE DEF me, w, executed
    <3> QED BY <1>0, StampedFields
  <2>3. w \in Wakes /\ w.job = j /\ w.kind = "skew" /\ w.proc = p /\ Write(row) /\ Becomes(p, n)
    BY <1>0, <2>1, WakeType
  <2> HIDE DEF n, w
  <2>4. row \in Rows /\ row.event = "finished" /\ row.wake = w
    BY <1>0, <1>1, <2>3, RowTypes DEF FinishedRow
  <2>5. /\ me.pc \in {"loop", "judge"} /\ Place(me) = me.pc /\ j \in me.todo /\ j = Min(me.todo)
    BY <1>0, <2>1, NextJob
  <2> HIDE DEF me, row
  <2>6. Place(n) = "gate" /\ Place(n) \notin Early /\ n.pc \notin AtWake \cup Ended \cup {"close"}
    BY <2>2 DEF Place, Saving, Early, AtWake, Ended
  <2>7. Placed(p, n)
    BY <1>0, <2>2, <2>5, <2>6 DEF Placed, Saving
  <2>8. RowOf(ledger, p, n)
    BY <1>0, <2>2, <2>5, <2>6, RowsKept
  <2>9. \A k \in DOMAIN ledger : ~(ledger[k].event = row.event /\ ledger[k].wake = row.wake)
    BY <1>0, <2>3, <2>4, <2>5 DEF RowOf, Own
  <2>10. n.pc \notin {"recheck", "begin", "spawn", "wait"}
    BY <2>6 DEF AtWake
  <2> QED BY <2>2, <2>3, <2>4, <2>5, <2>6, <2>7, <2>8, <2>9, <2>10, PassWrites
<1> QED BY <1>3, <1>4, <1>5

\* A pass begins, or is refused while another has the pass lock.
LEMMA StartPassKeeps ==
  ASSUME TypeInv, WriterInv, NEW p \in RunDue, p \in Given.cast, StartPass(p)
  PROVE  WriterInv'
<1> DEFINE me == proc[p]
<1>0. /\ p \in Procs /\ p \notin Operator /\ me \in Locals /\ me.pc = "start"
      /\ RowOf(ledger, p, me)
      /\ ledger' = ledger /\ old' = old /\ setting' = setting
  <2>1. p \in Procs /\ p \notin Operator /\ me.pc = "start"
    BY PassAssumption DEF StartPass, At
  <2>2. ledger' = ledger /\ old' = old /\ setting' = setting
    BY DEF StartPass, files, world
  <2> QED BY <2>1, <2>2 DEF TypeInv, TypeOK, WriterInv, RowInv, Ended
<1>1. CASE PassHeld
  <2> DEFINE n == [me EXCEPT !.pc = "done"]
  <2>1. Becomes(p, n) /\ passLock' = passLock
    BY <1>1 DEF StartPass, Goto
  <2> HIDE DEF me
  <2>2. n.pc = "done"
    BY <1>0, LocalsFields
  <2> HIDE DEF n
  <2>3. Placed(p, n)
    BY <1>0, <2>2 DEF Placed, Place, Saving, AtWake
  <2>4. PlaceInv'
    BY <1>0, <2>1, <2>3, PlaceStep DEF WriterInv
  <2>5. proc'[p].pc = "done" /\ \A q \in Procs \ {p} : proc'[q] = proc[q]
    BY <1>0, <2>1, <2>2, OthersStay
  <2>6. RunDue \subseteq Procs
    BY PassAssumption
  <2>7. PassInv'
    BY <1>0, <2>1, <2>5, <2>6 DEF WriterInv, PassInv, Alive
  <2>8. RowInv' /\ CloseInv' /\ OnceInv(ledger')
    BY <1>0, <2>5, <2>6 DEF WriterInv, RowInv, CloseInv, ToJudge, SnapshotOf, Ended
  <2> QED BY <2>4, <2>7, <2>8 DEF WriterInv
<1>2. CASE ~PassHeld
  <2> DEFINE n == [me EXCEPT !.pc = "load"]
  <2>1. Becomes(p, n) /\ passLock' = p
    BY <1>2 DEF StartPass, Goto
  <2> HIDE DEF me
  <2>2. n.pc = "load"
    BY <1>0, LocalsFields
  <2> HIDE DEF n
  <2>3. Placed(p, n)
    BY <1>0, <2>2 DEF Placed, Place, Saving, AtWake
  <2>4. RowOf(ledger, p, n)
    <3>1. Place(me) \in Early
      BY <1>0 DEF Place, Saving, Early
    <3> QED BY <1>0, <3>1, RowsKept
  <2>5. \A q \in RunDue \ {p} : ~Alive(q)
    BY <1>2, RunsAlone DEF WriterInv
  <2> QED BY <1>0, <2>1, <2>2, <2>3, <2>4, <2>5, PassGoesOn DEF WriterInv
<1> QED BY <1>1, <1>2

\* A pass ends, and lets the pass lock go.
LEMMA EndPassKeeps ==
  ASSUME TypeInv, WriterInv, NEW p \in RunDue, p \in Given.cast, Alive(p), EndPass(p)
  PROVE  WriterInv'
<1>1. "done" \in Ended
  BY DEF Ended
<1>2. Becomes(p, Fresh("done")) /\ ledger' = ledger /\ old' = old /\ setting' = setting
  BY DEF EndPass, files, world
<1>3. p \in Procs /\ \A q \in RunDue \ {p} : ~Alive(q)
  BY PassKnows
<1>4. Placed(p, Fresh("done")) /\ Fresh("done").pc = "done"
  BY <1>1, <1>3, FreshPlaced
<1>5. Fresh("done").pc # "close" /\ Fresh("done").pc \in Ended
  BY <1>1, <1>4
<1> QED BY <1>2, <1>3, <1>4, <1>5, PassGoesOn DEF WriterInv

\* reconcile reads the ledger: what is open there is open.
LEMMA ReadRowsKeeps ==
  ASSUME TypeInv, WriterInv, NEW p, Goes(p), ReadRows(p)
  PROVE  WriterInv'
<1> DEFINE me == proc[p]
<1>0. /\ p \in RunDue /\ p \notin Operator /\ me \in Locals /\ Placed(p, me) /\ RowOf(ledger, p, me)
      /\ me.pc = "rows" /\ passLock' = p /\ \A q \in RunDue \ {p} : ~Alive(q)
  BY PassKnows DEF Goes, ReadRows, At
<1>1. ledger' = ledger /\ Becomes(p, [me EXCEPT !.rows = Len(ledger), !.scan = 1, !.pc = "close"])
  BY DEF ReadRows, files
<1> HIDE DEF me
<1>2. PICK n : Becomes(p, n) /\ n.pc = "close" /\ n.rows = Len(ledger)
  <2> DEFINE m == [me EXCEPT !.rows = Len(ledger), !.scan = 1, !.pc = "close"]
  <2>1. m.pc = "close" /\ m.rows = Len(ledger)
    BY <1>0, LocalsFields
  <2> HIDE DEF m
  <2> QED BY <1>1, <2>1 DEF m
<1>3. Placed(p, n)
  BY <1>0, <1>2 DEF Placed, Place, Saving, AtWake
<1>4. RowOf(ledger, p, n)
  <2>1. Place(me) \in Early
    BY <1>0 DEF Place, Saving, Early
  <2> QED BY <1>0, <2>1, RowsKept
<1>5. \A i \in ToJudge(n)' : ~FinishedIn(ledger', ledger'[i].wake)
  <2> DEFINE snapshot == SubSeq(ledger, 1, n.rows)
  <2>1. Len(ledger) \in Nat /\ TypeOK /\ DOMAIN ledger = 1..Len(ledger)
    BY DEF TypeInv, TypeOK
  <2>2. DOMAIN snapshot = DOMAIN ledger /\ \A i \in DOMAIN ledger : snapshot[i] = ledger[i]
    BY <1>2, <2>1, SnapshotType
  <2>3. ToJudge(n)' \subseteq OpenAt(snapshot)
    BY <1>1 DEF ToJudge, SnapshotOf
  <2> HIDE DEF snapshot
  <2>4. \A i \in OpenAt(snapshot) : i \in DOMAIN ledger /\ ~FinishedIn(ledger, ledger[i].wake)
    BY <2>2 DEF OpenAt, FinishedIn
  <2> QED BY <1>1, <2>3, <2>4
<1> QED BY <1>0, <1>1, <1>2, <1>3, <1>4, <1>5, PassGoesOn DEF Goes, WriterInv

\* reconcile judges an open wake: it closes it, or leaves it alone, once.
LEMMA CloseOrphanKeeps ==
  ASSUME TypeInv, WriterInv, NEW p, Goes(p), CloseOrphan(p)
  PROVE  WriterInv'
<1> DEFINE me == proc[p]
           i == Min(ToJudge(me))
           w == ledger[i].wake
           row == FinishedRow(w, "orphaned", now)
<1>0. /\ p \in RunDue /\ p \in Procs /\ p \notin Operator /\ me \in Locals /\ Placed(p, me)
      /\ RowOf(ledger, p, me) /\ me.pc = "close" /\ passLock' = p
      /\ \A q \in RunDue \ {p} : ~Alive(q)
      /\ me.rows \in Nat /\ me.rows <= Len(ledger) /\ TypeOK /\ now \in Nat
  <2>1. p \in RunDue /\ Alive(p) /\ me.pc = "close" /\ passLock' = passLock
    BY DEF Goes, CloseOrphan, At
  <2>2. p \in Procs
    BY <2>1, PassKnows
  <2>3. me.rows \in Nat /\ me.rows <= Len(ledger) /\ TypeOK /\ now \in Nat
    BY <2>2, Mine DEF TypeInv, TypeOK, SoundInv
  <2> QED BY <2>1, <2>3, PassKnows
<1>1. /\ i \in ToJudge(me) /\ i \in DOMAIN ledger /\ i \in Nat /\ ledger[i].event = "started"
      /\ w \in Wakes /\ ~FinishedIn(ledger, w) /\ \A k \in ToJudge(me) : k \in DOMAIN ledger
      /\ \A k \in ToJudge(me) : ledger[k].event = "started" /\ ~FinishedIn(ledger, ledger[k].wake)
  <2>1. ToJudge(me) # {}
    BY DEF CloseOrphan
  <2>2. i \in ToJudge(me)
    BY <1>0, <2>1, ToJudgeType
  <2>3. \A k \in ToJudge(me) : /\ k \in DOMAIN ledger /\ k \in Nat /\ ledger[k].event = "started"
                               /\ ledger[k].wake \in Wakes
    BY <1>0, ToJudgeType
  <2>4. \A k \in ToJudge(me) : ~FinishedIn(ledger, ledger[k].wake)
    BY <1>0 DEF WriterInv, CloseInv
  <2> QED BY <2>2, <2>3, <2>4
<1>2. \E n : /\ Becomes(p, n) /\ n.pc = "close" /\ n.rows = me.rows /\ n.scan = i + 1
             /\ ledger' = ledger \/ Write(row)
  <2> DEFINE m == [me EXCEPT !.scan = i + 1]
  <2>1. \/ Becomes(p, m) /\ (ledger' = ledger \/ Write(row))
        \/ \E mem, touched, notices : Write(row)
             /\ Becomes(p, [m EXCEPT !.mem = mem, !.touched = touched, !.notices = notices])
    BY DEF CloseOrphan
  <2> HIDE DEF me, i, row
  <2>2. m.pc = "close" /\ m.rows = me.rows /\ m.scan = i + 1
    BY <1>0, LocalsFields
  <2>3. ASSUME NEW mem, NEW touched, NEW notices
        PROVE  LET n == [m EXCEPT !.mem = mem, !.touched = touched, !.notices = notices]
               IN n.pc = "close" /\ n.rows = me.rows /\ n.scan = i + 1
    BY <1>0, LocalsFields
  <2>4. CASE Becomes(p, m) /\ (ledger' = ledger \/ Write(row))
    <3> HIDE DEF m
    <3> QED BY <2>2, <2>4
  <2>5. ASSUME NEW mem, NEW touched, NEW notices, Write(row),
               Becomes(p, [m EXCEPT !.mem = mem, !.touched = touched, !.notices = notices])
        PROVE  \E n : /\ Becomes(p, n) /\ n.pc = "close" /\ n.rows = me.rows /\ n.scan = i + 1
                      /\ ledger' = ledger \/ Write(row)
    <3> DEFINE n == [m EXCEPT !.mem = mem, !.touched = touched, !.notices = notices]
    <3>1. n.pc = "close" /\ n.rows = me.rows /\ n.scan = i + 1
      BY <2>3
    <3>2. Becomes(p, n)
      BY <2>5
    <3> HIDE DEF n
    <3> QED BY <2>5, <3>1, <3>2
  <2> HIDE DEF m
  <2> QED BY <2>1, <2>4, <2>5
<1>3. PICK n : /\ Becomes(p, n) /\ n.pc = "close" /\ n.rows = me.rows /\ n.scan = i + 1
               /\ ledger' = ledger \/ Write(row)
  BY <1>2
<1>4. row \in Rows /\ row.event = "finished" /\ row.wake = w
  <2>1. "orphaned" \in States
    BY DEF States, BadStates
  <2> QED BY <1>0, <1>1, <2>1, RowTypes DEF FinishedRow
\* What it has yet to judge are places behind the one it judged.
<1>5. \A k \in ToJudge(n) : k \in ToJudge(me) /\ k # i
  <2>1. \A k \in ToJudge(n) : k \in OpenAt(SubSeq(ledger, 1, me.rows)) /\ k >= i + 1
    BY <1>3 DEF ToJudge, SnapshotOf
  <2>2. me.scan \in Nat /\ i >= me.scan
    BY <1>0, <1>1, Mine, ToJudgeType DEF TypeInv, SoundInv
  <2>3. OpenAt(SubSeq(ledger, 1, me.rows)) \in SUBSET Nat
    <3>1. DOMAIN SubSeq(ledger, 1, me.rows) = 1..me.rows
      BY <1>0, SnapshotType
    <3> QED BY <3>1 DEF OpenAt
  <2> QED BY <1>1, <2>1, <2>2, <2>3 DEF ToJudge, SnapshotOf
<1> HIDE DEF me, i, w, row
<1>6. Placed(p, n)
  BY <1>0, <1>3 DEF Placed, Place, Saving, AtWake
<1>7. RowOf(ledger, p, n) /\ \A k \in DOMAIN ledger : ~Own(ledger, p, k)
  <2>1. Place(me) \in Early
    BY <1>0 DEF Place, Saving, Early
  <2> QED BY <1>0, <2>1, RowsKept DEF RowOf
<1>8. CASE ledger' = ledger
  <2>1. ToJudge(n)' = ToJudge(n)
    BY <1>8 DEF ToJudge, SnapshotOf
  <2>2. \A k \in ToJudge(n)' : ~FinishedIn(ledger', ledger'[k].wake)
    BY <1>1, <1>5, <1>8, <2>1
  <2> QED BY <1>0, <1>3, <1>6, <1>7, <1>8, <2>2, PassGoesOn DEF Goes, WriterInv
<1>9. CASE Write(row)
  <2>1. /\ DOMAIN ledger = 1..Len(ledger) /\ DOMAIN ledger' = 1..(Len(ledger) + 1)
        /\ Len(ledger) \in Nat /\ \A k \in DOMAIN ledger : ledger'[k] = ledger[k]
        /\ ledger'[Len(ledger) + 1] = row
    BY <1>0, <1>4, <1>9, WriteType
  <2>2. \A k \in DOMAIN ledger' : k \in DOMAIN ledger \/ ledger'[k] = row
    BY <2>1
  <2>3. ToJudge(n)' = ToJudge(n)
    BY <1>0, <1>3, <1>4, <1>9, ToJudgeKept
  <2>4. \A k \in ToJudge(n)' : ~FinishedIn(ledger', ledger'[k].wake)
    <3>1. ASSUME NEW k \in ToJudge(n) PROVE ~FinishedIn(ledger', ledger'[k].wake)
      <4>1. k \in DOMAIN ledger /\ k # i /\ ledger[k].event = "started"
            /\ ~FinishedIn(ledger, ledger[k].wake) /\ ledger'[k] = ledger[k]
        BY <1>1, <1>5, <2>1
      <4>2. ledger[k].wake # w
        BY <1>1, <4>1 DEF WriterInv, OnceInv, w
      <4> QED BY <1>4, <2>1, <2>2, <4>1, <4>2 DEF FinishedIn
    <3> QED BY <2>3, <3>1
  <2>5. ledger[i].wake = w
    BY DEF w
  <2>6. w.proc # p
    BY <1>1, <1>7, <2>5 DEF Own
  <2>7. RowOf(ledger', p, n)
    BY <1>0, <1>4, <1>7, <1>9, <2>6, RowAdded
  <2>8. OnceInv(ledger')
    <3>1. \A k \in DOMAIN ledger : ~(ledger[k].event = row.event /\ ledger[k].wake = row.wake)
      BY <1>1, <1>4 DEF FinishedIn
    <3> QED BY <1>0, <1>4, <1>9, <3>1, OnceKept DEF WriterInv
  <2>9. \A q \in RunDue \ {p} : \A k \in DOMAIN ledger' :
          Own(ledger', q, k) => \E x \in DOMAIN ledger : Own(ledger, q, x)
    BY <1>1, <1>4, <2>1, <2>2, <2>5 DEF Own
  <2> QED BY <1>0, <1>3, <1>6, <2>4, <2>7, <2>8, <2>9, PassGoesOn DEF Goes
<1> QED BY <1>3, <1>8, <1>9

\* At first nobody has written a row.
LEMMA InitWriterInv == Init => WriterInv
<1> SUFFICES ASSUME Init PROVE WriterInv
  OBVIOUS
<1>1. ledger = <<>> /\ DOMAIN ledger = {}
  BY DEF Init
<1>2. ASSUME NEW p \in Procs
      PROVE  /\ proc[p].pc \in {"start", "done"} /\ proc[p].cur = NoWake /\ proc[p].notices = {}
             /\ p \notin Given.cast => proc[p].pc = "done"
  BY DEF Init, Fresh
<1>3. PlaceInv
  <2>1. ASSUME NEW p \in Procs PROVE Placed(p, proc[p])
    BY <1>2, <2>1 DEF Placed, Place, Saving, AtWake, Ended
  <2> QED BY <1>2, <2>1 DEF PlaceInv
<1>4. RunDue \subseteq Procs
  BY PassAssumption
<1>5. PassInv
  BY <1>2, <1>4 DEF PassInv, Alive, Init
<1>6. RowInv /\ CloseInv /\ OnceInv(ledger)
  BY <1>1, <1>2, <1>4 DEF RowInv, RowOf, CloseInv, OnceInv
<1> QED BY <1>3, <1>5, <1>6 DEF WriterInv

\* Every step keeps the invariant.
LEMMA WriterStep ==
  ASSUME TypeInv, Quiet, WriterInv, [Next]_vars
  PROVE  WriterInv'
<1>1. ASSUME NEW p \in Procs, Start(p) \/ Step(p) \/ Die(p) PROVE WriterInv'
  <2>1. p \in Given.cast /\ p \in RunDue \cup Operator /\ proc[p].pc \notin Ended
    BY <1>1, ActorIs DEF WriterInv
  <2>2. CASE p \in Operator
    BY <1>1, <2>1, <2>2, OperatorKeeps
  <2>3. CASE p \in RunDue
    <3>1. p \notin Operator /\ p \notin Run /\ p \notin Reconciler /\ Placed(p, proc[p])
      BY <1>1, <2>3, PassAssumption DEF WriterInv, PlaceInv
    <3>2. CASE StartPass(p)
      BY <2>1, <2>3, <3>2, StartPassKeeps
    <3>3. CASE ~StartPass(p)
      <4>1. Step(p) \/ Die(p)
        BY <1>1, <3>1, <3>3 DEF Start, StartRun, StartReconcile, StartAdd, StartSet, StartRemove
      <4>2. Alive(p)
        <5>1. proc[p].pc # "start"
          BY <4>1 DEF Step, Load, Reload, Save, Notify, CardAnswer, ReadRows, CloseOrphan, Repair,
            EnterLoop, PassOver, SkewRow, SkipRow, EndPass, TakeLock, Overlap, Recheck, Begin, Spawn,
            Finish, Unlock, Fail, CheckRemove, RemovedRowWritten, Turn, Due, Executes, At, Die, Alive
        <5> QED BY <2>1, <5>1 DEF Alive, Ended
      <4>3. CASE EndPass(p)
        BY <2>1, <2>3, <4>2, <4>3, EndPassKeeps
      <4>4. CASE ~EndPass(p)
        <5>1. ~CheckRemove(p) /\ ~RemovedRowWritten(p)
          BY <2>3, <3>1 DEF Placed, CheckRemove, RemovedRowWritten, At
        <5>2. setting' = setting /\ old' = old /\ passLock' = passLock
          BY <4>1, <4>4, <5>1 DEF Step, Load, Reload, Save, Notify, CardAnswer, ReadRows,
            CloseOrphan, Repair, EnterLoop, PassOver, SkewRow, SkipRow, TakeLock, Overlap, Recheck,
            Begin, Spawn, Finish, Unlock, Fail, Die, locks, world
        <5>3. Goes(p)
          BY <2>1, <2>3, <4>2, <5>2 DEF Goes
        <5> QED BY <4>1, <4>4, <5>1, <5>3, SinksKeep, LoopKeeps, EndKeeps, SpawnKeeps, TakeLockKeeps,
                   WakeRowKeeps, TurnRowKeeps, ReadRowsKeeps, CloseOrphanKeeps DEF Step
      <4> QED BY <4>3, <4>4
    <3> QED BY <3>2, <3>3
  <2> QED BY <2>1, <2>2, <2>3
<1>2. ASSUME UNCHANGED <<ledger, proc, passLock, setting>>, old' \cap RunDue = {} PROVE WriterInv'
  <2>1. PlaceInv' /\ PassInv'
    BY <1>2 DEF WriterInv, PlaceInv, PassInv, Alive, Given
  <2>2. RowInv' /\ CloseInv' /\ OnceInv(ledger')
    BY <1>2 DEF WriterInv, RowInv, CloseInv, ToJudge, SnapshotOf
  <2> QED BY <2>1, <2>2 DEF WriterInv
<1>3. ASSUME NEW w \in Wakes, Age(w) PROVE WriterInv'
  <2>1. w \notin RunDue
    BY PassAssumption
  <2> QED BY <1>2, <1>3, <2>1 DEF Age, files, locks, WriterInv, PassInv
<1>4. CASE \E p \in RunDue : AgePass(p)
  BY <1>4 DEF AgePass, Quiet
<1>5. CASE \E w \in Wakes : ChildExit(w)
  BY <1>2, <1>5 DEF ChildExit, files, locks, WriterInv, PassInv
<1>6. CASE Tick \/ StepBack
  BY <1>2, <1>6 DEF Tick, StepBack, files, locks, WriterInv, PassInv
<1>7. CASE UNCHANGED vars
  BY <1>2, <1>7 DEF vars, files, locks, world, WriterInv, PassInv
<1> QED BY <1>1, <1>3, <1>4, <1>5, <1>6, <1>7 DEF Next

\* The rule of the passes holds in every behaviour of passes and operators: one
\* live pass at a time, each wake written by its own pass or, once that is
\* dead, closed by another.
THEOREM PassWriterInvariant == Spec => [](Quiet => WriterInv)
<1> DEFINE Inv == TypeInv /\ (Quiet => WriterInv)
<1>1. Init => Inv
  BY InitTypeInv, InitWriterInv
<1>2. ASSUME Inv, [Next]_vars PROVE Inv'
  <2>1. setting' = setting /\ TypeInv'
    BY <1>2, WorldTypes, TypeStep
  <2>2. Quiet' => Quiet
    BY <2>1 DEF Quiet, Given
  <2> QED BY <1>2, <2>1, <2>2, WriterStep
<1>3. Inv => (Quiet => WriterInv)
  OBVIOUS
<1> HIDE DEF Inv
<1> QED BY <1>1, <1>2, <1>3, PTL DEF Spec

\* Every wake ends in exactly one terminal row (README), whatever dies and
\* whatever the disk refuses, as long as the host clock's passes and the
\* operator's verbs are all there is and no pass outlasts its lock.
THEOREM OneTerminalRowOfPasses == Spec => [](Quiet => OneTerminalRow)
<1>1. (Quiet => WriterInv) => (Quiet => OneTerminalRow)
  <2>1. WriterInv => OneTerminalRow
    BY DEF WriterInv, OnceInv, OneTerminalRow
  <2> QED BY <2>1
<1> QED BY <1>1, PassWriterInvariant, PTL

=============================================================================
