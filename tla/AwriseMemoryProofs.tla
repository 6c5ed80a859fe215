------------------------- MODULE AwriseMemoryProofs -------------------------
(***************************************************************************)
(* Theorems about AwriseMemory for any number of jobs and invocations, any *)
(* timeout and any working times: the types, what the waits cost, and what *)
(* a wake finds in its environment.                                        *)
(***************************************************************************)
EXTENDS AwriseMemory, TLAPS

\* A job that is at work has a turn; the next one has at most one place more.
TurnInv ==
  /\ pc \in {"recall", "work", "record"} => job <= LastJob
  /\ job <= LastJob + 1

\* What the waits have cost so far, and what the one under way may still cost.
CostInv ==
  /\ deadline = Timeout
  /\ spent.recall <= Timeout /\ spent.drain <= DrainTimeout
  /\ form = "pass" => spent.recall <= now
  /\ form = "run" /\ job = 1 /\ pc = "turn" => spent.recall = 0
  /\ pc \notin {"drain", "over"} => spent.drain = 0
  /\ pc \in {"recall", "work", "drain"} => now <= until
  /\ pc = "recall" => spent.recall + (until - now) <= Timeout
  /\ pc = "drain" => spent.drain + (until - now) <= DrainTimeout

\* A fact of this invocation is of a job that has had its turn.
Past(w) == w[2] < turn \/ (w[2] = turn /\ w[1] < job)
Asked(call) == call.what = "remember" => call.job < job
PastInv ==
  /\ \A w \in facts : Past(w)
  /\ \A i \in 1..Len(queue) : Asked(queue[i])
  /\ Asked(doing)
  /\ pc = "recall" => job \in memory /\ \A w \in answer.value : w[1] = job /\ w[2] < turn
  /\ pc # "work" => env = Unset
  /\ pc = "work" /\ env # Unset => job \in memory /\ \A w \in env : w[1] = job /\ w[2] < turn
  /\ SeesItsOwnPast

\* The inductive invariant.
MemoryInv == TypeOK /\ TurnInv /\ CostInv /\ PastInv

\* What is pending is what is queued and what the worker is in.
CountInv == pending = Len(queue) + (IF doing = NoCall THEN 0 ELSE 1)

\* A remember of the job is yet to come, or under way.
ToRemember(j) ==
  \/ \E i \in 1..Len(queue) : queue[i].what = "remember" /\ queue[i].job = j
  \/ doing.what = "remember" /\ doing.job = j

\* A wake of this invocation that is over is in the store, or has a row, or is
\* still to be remembered.
ToldInv == \A j \in memory : j < job => <<j, turn>> \in facts \cup rows \/ ToRemember(j)

\* A wake found something only when its job has worked.
SawInv ==
  \A w \in Wakes : saw[w] # Unset =>
    w[2] < turn \/ (w[2] = turn /\ (w[1] < job \/ (w[1] = job /\ pc = "record")))

\* When a drain said that all is done, every wake of it is in the store or has a
\* row.
DrainedInv ==
  /\ \A t \in drained : t < turn \/ (t = turn /\ pc = "over")
  /\ \A w \in Wakes : w[1] \in memory /\ w[2] \in drained /\ saw[w] # Unset =>
       w \in facts \cup rows

\* What a wake of the job in that turn is owed: the drained wakes of its past.
Owed(j, t) ==
  {w \in Wakes : w[1] = j /\ w[2] \in drained /\ w[2] < t /\ saw[w] # Unset /\ w \notin rows}

\* It is in the answer, then in the environment, and then with the wake, or the
\* wake has a row, or had more to recall than the limit.
RecallInv ==
  /\ pc = "recall" /\ answer.state = "ok" =>
       Owed(job, turn) \subseteq answer.value \/ Wake \in crowded
  /\ pc = "work" /\ job \in memory => Owed(job, turn) \subseteq env \/ Wake \in rows \cup crowded
  /\ \A w \in Wakes : w[1] \in memory /\ saw[w] # Unset =>
       Owed(w[1], w[2]) \subseteq saw[w] \/ w \in rows \cup crowded

\* The inductive invariant of what is remembered.
FactsInv == CountInv /\ ToldInv /\ SawInv /\ DrainedInv /\ RecallInv

\* The turn at hand is a wake.
LEMMA WakeIsWake ==
  ASSUME TypeOK, job <= LastJob
  PROVE  Wake \in Wakes /\ job \in Jobs /\ LastJob \in 1..JobCount
  BY MemoryAssumption DEF TypeOK, Wake, Wakes, Jobs, LastJob

\* What the process submits to the worker are calls.
LEMMA CallTypes ==
  ASSUME NEW j \in Jobs, NEW what \in {"recall", "remember", "teach"}
  PROVE  [what |-> what, job |-> j] \in Calls
  BY DEF Calls

\* What is submitted when a wake is over, and that it is about that wake's job.
LEMMA LessonTypes ==
  ASSUME job \in Jobs
  PROVE  /\ Lessons \in Seq(Calls)
         /\ \A i \in 1..Len(Lessons) : Lessons[i].job = job
<1> DEFINE remember == [what |-> "remember", job |-> job]
           teach == [what |-> "teach", job |-> job]
<1>1. remember \in Calls /\ teach \in Calls /\ remember.job = job /\ teach.job = job
  BY CallTypes
<1> HIDE DEF remember, teach
<1>2. Lessons = (IF job \in memory THEN <<remember>> ELSE <<>>)
                \o (IF turn \in Door THEN <<teach>> ELSE <<>>)
  BY DEF Lessons, remember, teach
<1>3. CASE job \in memory /\ turn \in Door
  <2>1. Lessons = <<remember>> \o <<teach>>
    BY <1>2, <1>3
  <2> QED BY <1>1, <2>1
<1>4. CASE job \in memory /\ turn \notin Door
  <2>1. Lessons = <<remember>> \o <<>>
    BY <1>2, <1>4
  <2> QED BY <1>1, <2>1
<1>5. CASE job \notin memory /\ turn \in Door
  <2>1. Lessons = <<>> \o <<teach>>
    BY <1>2, <1>5
  <2> QED BY <1>1, <2>1
<1>6. CASE job \notin memory /\ turn \notin Door
  <2>1. Lessons = <<>> \o <<>>
    BY <1>2, <1>6
  <2> QED BY <2>1
<1> QED BY <1>3, <1>4, <1>5, <1>6

\* What is left of the budget lies between nothing and one timeout (_execute).
LEMMA RemainingIsBounded ==
  ASSUME TypeOK, CostInv
  PROVE  /\ Remaining \in 0..Timeout
         /\ form = "pass" => now + Remaining <= Timeout \/ Remaining = 0
  BY MemoryAssumption DEF TypeOK, CostInv, Remaining

\* A job starts to work with a value of the variable, for a time of its own.
LEMMA WorkTypes ==
  ASSUME TypeOK, NEW value \in (SUBSET Wakes) \cup {Unset}, StartsWork(value)
  PROVE  env' \in (SUBSET Wakes) \cup {Unset} /\ pc' = "work" /\ until' \in Nat
  BY MemoryAssumption DEF TypeOK, StartsWork

\* What a recall brings is the job's own (_memory_recall_json).
LEMMA RecallsOwn ==
  ASSUME NEW j, NEW value \in Recalls(j)
  PROVE  value \subseteq OwnFacts(j)
  BY DEF Recalls

\* Init establishes the invariant.
LEMMA InitMemoryInv == Init => MemoryInv
<1> SUFFICES ASSUME Init PROVE MemoryInv
  OBVIOUS
<1>1. TypeOK
  BY MemoryAssumption DEF Init, TypeOK, Silent
<1>2. TurnInv
  BY MemoryAssumption DEF Init, TurnInv, LastJob
<1>3. CostInv
  BY MemoryAssumption DEF Init, CostInv, DrainTimeout
<1>4. PastInv
  BY DEF Init, PastInv, Asked, NoCall, SeesItsOwnPast
<1> QED BY <1>1, <1>2, <1>3, <1>4 DEF MemoryInv

\* Every step keeps the types.
LEMMA TypeStep == TypeOK /\ TurnInv /\ [Next]_vars => TypeOK'
<1> SUFFICES ASSUME TypeOK, TurnInv, [Next]_vars PROVE TypeOK'
  OBVIOUS
<1> USE MemoryAssumption DEF TypeOK, who, scopes, thread
<1>1. CASE Turn
  <2>1. Wake \in Wakes /\ job \in Jobs
    BY <1>1, WakeIsWake DEF Turn
  <2>2. [what |-> "recall", job |-> job] \in Calls
    BY <2>1, CallTypes
  <2>3. Remaining \in Nat
    BY DEF Remaining
  <2>4. CASE job \notin memory /\ StartsWork(env) /\ UNCHANGED <<thread, rows>>
    <3>1. env' \in (SUBSET Wakes) \cup {Unset} /\ pc' = "work" /\ until' \in Nat
      BY <2>4, WorkTypes
    <3> QED BY <1>1, <2>4, <3>1 DEF Turn
  <2>5. CASE StartsWork({}) /\ rows' = rows \cup {Wake} /\ UNCHANGED thread
    <3>1. env' \in (SUBSET Wakes) \cup {Unset} /\ pc' = "work" /\ until' \in Nat
      BY <2>5, WorkTypes
    <3> QED BY <1>1, <2>1, <2>5, <3>1 DEF Turn
  <2>6. CASE /\ queue' = Append(queue, [what |-> "recall", job |-> job])
             /\ pending' = pending + 1
             /\ answer' = Silent
             /\ pc' = "recall" /\ until' = now + Remaining
             /\ UNCHANGED <<env, rows, doing, facts>>
    BY <1>1, <2>2, <2>3, <2>6 DEF Turn, Silent
  <2> QED BY <1>1, <2>4, <2>5, <2>6 DEF Turn
<1>2. CASE Recalled \/ RecallTimesOut
  <2>1. Wake \in Wakes
    BY <1>2, WakeIsWake DEF Recalled, RecallTimesOut, TurnInv
  <2>2. answer.value \in (SUBSET Wakes) \cup {Unset}
    OBVIOUS
  <2>3. env' \in (SUBSET Wakes) \cup {Unset} /\ pc' = "work" /\ until' \in Nat
    <3>1. CASE StartsWork(answer.value)
      BY <2>2, <3>1, WorkTypes
    <3>2. CASE StartsWork({})
      BY <3>2, WorkTypes
    <3> QED BY <1>2, <3>1, <3>2 DEF Recalled, RecallTimesOut
  <2> QED BY <1>2, <2>1, <2>3 DEF Recalled, RecallTimesOut
<1>3. CASE WorkEnds
  BY <1>3 DEF WorkEnds
<1>4. CASE Record
  <2>1. job \in Jobs
    BY <1>4, WakeIsWake DEF Record, TurnInv
  <2>2. queue' \in Seq(Calls) /\ pending' \in Nat
    BY <1>4, <2>1, LessonTypes, SMTT(30) DEF Record
  <2>3. job' \in 1..(JobCount + 1)
    BY <1>4, <2>1 DEF Record, Jobs
  <2>4. pc' = "turn" /\ UNCHANGED <<memory, form, turn, now, until, deadline, env>>
    BY <1>4 DEF Record
  <2>5. UNCHANGED <<scopes, doing, answer, facts, saw, rows, drained, spent>>
    BY <1>4 DEF Record
  <2> QED BY <2>2, <2>3, <2>4, <2>5
<1>5. CASE Drain \/ Ends
  <2>1. until' \in Nat /\ drained' \subseteq 1..Passes /\ pc' \in {"drain", "over"}
    <3>1. CASE Drain
      BY <3>1 DEF Drain, DrainTimeout
    <3>2. CASE Ends
      BY <3>2 DEF Ends
    <3> QED BY <1>5, <3>1, <3>2
  <2>2. UNCHANGED <<who, scopes, now, deadline, env, thread, saw, rows, spent>>
    BY <1>5 DEF Drain, Ends
  <2> QED BY <2>1, <2>2
<1>10. CASE Tick
  <2>1. now' \in Nat /\ spent' \in [recall : Nat, drain : Nat]
    BY <1>10 DEF Tick
  <2> QED BY <1>10, <2>1 DEF Tick
<1>6. CASE Again
  <2>1. turn' \in 1..Passes /\ job' \in 1..(JobCount + 1)
    BY <1>6 DEF Again
  <2>2. answer' \in [state : {"none", "ok", "error"}, value : SUBSET Wakes]
    BY <1>6 DEF Again, Silent
  <2>3. queue' \in Seq(Calls) /\ spent' \in [recall : Nat, drain : Nat]
    BY <1>6 DEF Again
  <2> QED BY <1>6, <2>1, <2>2, <2>3 DEF Again
<1>7. CASE Take
  BY <1>7 DEF Take
<1>8. CASE Done
  <2>1. doing \in Calls /\ doing.job \in Jobs
    BY <1>8 DEF Done, Calls
  <2>2. <<doing.job, turn>> \in Wakes
    BY <2>1 DEF Wakes
  <2>3. \A value \in Recalls(job) : value \subseteq Wakes
    BY RecallsOwn DEF OwnFacts
  <2>5. Wake \in Wakes \/ ~WaitedFor
    BY WakeIsWake DEF TurnInv, WaitedFor
  <2>4. /\ answer' \in [state : {"none", "ok", "error"}, value : SUBSET Wakes]
        /\ crowded' \subseteq Wakes
    <3>1. CASE WaitedFor
      BY <1>8, <2>3, <2>5, <3>1 DEF Done
    <3>2. CASE ~WaitedFor
      BY <1>8, <3>2 DEF Done
    <3> QED BY <3>1, <3>2
  <2>6. facts' \subseteq Wakes /\ rows' \subseteq Wakes
    BY <1>8, <2>2 DEF Done
  <2>7. /\ doing' = NoCall /\ pending' \in Nat
        /\ UNCHANGED <<who, above, pc, now, until, deadline, env, queue, saw, drained, spent>>
    BY <1>8 DEF Done
  <2> QED BY <2>4, <2>6, <2>7
<1>11. CASE Elsewhere
  BY <1>11 DEF Elsewhere
<1>9. CASE UNCHANGED vars
  BY <1>9 DEF vars
<1> QED BY <1>1, <1>2, <1>3, <1>4, <1>5, <1>6, <1>7, <1>8, <1>9, <1>10, <1>11
       DEF Next, Process, Worker

\* Every step keeps the turn where its place in the code says.
LEMMA TurnStep == TypeOK /\ TurnInv /\ [Next]_vars => TurnInv'
<1> SUFFICES ASSUME TypeOK, TurnInv, [Next]_vars PROVE TurnInv'
  OBVIOUS
<1> USE MemoryAssumption DEF TypeOK, TurnInv, LastJob, who
<1>1. CASE Process
  BY <1>1 DEF Process, Turn, Recalled, RecallTimesOut, WorkEnds, Record, Drain, Ends, Again,
              StartsWork
<1>2. CASE Worker \/ Tick \/ Elsewhere
  BY <1>2 DEF Worker, Take, Done, Tick, Elsewhere
<1>3. CASE UNCHANGED vars
  BY <1>3 DEF vars
<1> QED BY <1>1, <1>2, <1>3 DEF Next

\* Every step keeps what the waits may cost.  Time passes only in a wait, and
\* a wait starts with what is left of the one before it.
LEMMA CostStep == TypeOK /\ TurnInv /\ CostInv /\ [Next]_vars => CostInv'
<1> SUFFICES ASSUME TypeOK, TurnInv, CostInv, [Next]_vars PROVE CostInv'
  OBVIOUS
<1> USE MemoryAssumption DEF TypeOK, CostInv, DrainTimeout, who
<1>1. CASE Turn
  <2>1. Remaining \in Nat /\ now + Remaining >= now
    BY DEF Remaining
  <2>2. form = "run" => job = 1
    BY <1>1 DEF Turn, LastJob
  <2>3. CASE pc' = "work"
    <3>1. now <= until'
      BY <1>1, <2>3 DEF Turn, StartsWork
    <3> QED BY <1>1, <2>3, <3>1 DEF Turn
  <2>4. CASE pc' = "recall" /\ until' = now + Remaining
    <3>1. form = "run" => spent.recall = 0 /\ Remaining = Timeout
      BY <1>1, <2>2 DEF Turn, Remaining
    <3>2. form = "pass" => now + Remaining <= Timeout
      BY <1>1, <2>4, RemainingIsBounded DEF Turn, StartsWork
    <3> QED BY <1>1, <2>1, <2>4, <3>1, <3>2 DEF Turn
  <2> QED BY <1>1, <2>3, <2>4 DEF Turn, StartsWork
<1>2. CASE Recalled \/ RecallTimesOut
  <2>1. pc' = "work" /\ now' = now /\ now <= until' /\ UNCHANGED <<who, deadline, spent>>
    BY <1>2 DEF Recalled, RecallTimesOut, StartsWork
  <2> QED BY <1>2, <2>1 DEF Recalled, RecallTimesOut
<1>3. CASE WorkEnds
  BY <1>3 DEF WorkEnds
<1>4. CASE Record
  <2>1. /\ pc' = "turn" /\ job' = job + 1
        /\ UNCHANGED <<form, now, until, deadline, spent>>
    BY <1>4 DEF Record
  <2> QED BY <1>4, <2>1 DEF Record
<1>5. CASE Drain \/ Ends \/ Again
  BY <1>5 DEF Drain, Ends, Again
<1>6. CASE Worker
  <2>1. UNCHANGED <<who, pc, now, until, deadline, spent>>
    BY <1>6 DEF Worker, Take, Done
  <2> QED BY <2>1
<1>7. CASE Tick
  <2>1. /\ now' = now + 1 /\ now < until
        /\ UNCHANGED <<form, job, pc, until, deadline>>
    BY <1>7 DEF Tick
  <2>2. /\ spent'.recall = IF pc = "recall" THEN spent.recall + 1 ELSE spent.recall
        /\ spent'.drain = IF pc = "drain" THEN spent.drain + 1 ELSE spent.drain
    BY <1>7 DEF Tick
  <2>3. pc # "turn"
    BY <1>7 DEF Tick
  <2> QED BY <2>1, <2>2, <2>3
<1>8. CASE Elsewhere \/ UNCHANGED vars
  BY <1>8 DEF Elsewhere, vars
<1> QED BY <1>1, <1>2, <1>3, <1>4, <1>5, <1>6, <1>7, <1>8 DEF Next, Process

\* What is queued about a wake that is over stays about one.
LEMMA QueueStep ==
  ASSUME TypeOK, TurnInv, PastInv, [Next]_vars
  PROVE  (\A i \in 1..Len(queue) : Asked(queue[i]))' /\ Asked(doing)'
<1> USE MemoryAssumption DEF TypeOK, who, thread
<1>1. CASE Turn
  <2>1. queue' \in {queue, Append(queue, [what |-> "recall", job |-> job])}
        /\ doing' = doing /\ job' = job
    BY <1>1 DEF Turn
  <2>2. ASSUME NEW i \in 1..Len(queue')
        PROVE  (i \in 1..Len(queue) /\ queue'[i] = queue[i]) \/ queue'[i].what = "recall"
    BY <2>1
  <2>3. Asked(doing)'
    BY <2>1 DEF PastInv, Asked
  <2> HIDE DEF TypeOK, who, thread
  <2> QED BY <2>1, <2>2, <2>3 DEF PastInv, Asked
<1>2. CASE Record
  <2>1. job \in Jobs /\ job' = job + 1 /\ queue' = queue \o Lessons /\ doing' = doing
    BY <1>2, WakeIsWake DEF Record, TurnInv
  <2>2. Lessons \in Seq(Calls) /\ \A i \in 1..Len(Lessons) : Lessons[i].job = job
    BY <2>1, LessonTypes
  <2> DEFINE both == queue \o Lessons
  <2>3. ASSUME NEW i \in 1..Len(both)
        PROVE  both[i].what = "remember" => both[i].job < job + 1
    <3>1. CASE i <= Len(queue)
      <4>1. i \in 1..Len(queue) /\ both[i] = queue[i]
        BY <2>2, <2>3, <3>1
      <4>2. queue[i] \in Calls
        BY <4>1
      <4>3. queue[i].job \in Nat /\ job \in Nat
        BY <4>2 DEF Calls, Jobs
      <4>4. Asked(queue[i])
        BY <4>1 DEF PastInv
      <4> QED BY <4>1, <4>3, <4>4 DEF Asked
    <3>2. CASE i > Len(queue)
      <4>1. i - Len(queue) \in 1..Len(Lessons) /\ both[i] = Lessons[i - Len(queue)]
        BY <2>2, <2>3, <3>2
      <4> QED BY <2>2, <4>1
    <3>3. i \in Nat /\ Len(queue) \in Nat
      BY <2>2, <2>3
    <3> QED BY <3>1, <3>2, <3>3
  <2>4. Asked(doing)'
    BY <2>1 DEF PastInv, Asked, Calls, NoCall, Jobs
  <2>5. \A i \in 1..Len(queue') : queue'[i].what = "remember" => queue'[i].job < job'
    BY <2>1, <2>3
  <2> QED BY <2>4, <2>5 DEF Asked
<1>3. CASE Take
  BY <1>3 DEF Take, PastInv, Asked
<1>4. CASE Done
  BY <1>4 DEF Done, PastInv, Asked, NoCall
<1>5. CASE Again
  BY <1>5 DEF Again, Asked, NoCall
<1>6. CASE Recalled \/ RecallTimesOut \/ WorkEnds \/ Drain \/ Ends \/ Tick \/ Elsewhere \/ UNCHANGED vars
  <2>1. UNCHANGED <<queue, doing, job>>
    BY <1>6 DEF Recalled, RecallTimesOut, WorkEnds, Drain, Ends, Tick, Elsewhere, vars
  <2> QED BY <2>1 DEF PastInv, Asked
<1> QED BY <1>1, <1>2, <1>3, <1>4, <1>5, <1>6 DEF Next, Process, Worker

\* Every step keeps it that a wake is shown its own past only.
LEMMA PastStep == TypeOK /\ TurnInv /\ PastInv /\ [Next]_vars => PastInv'
<1> SUFFICES ASSUME TypeOK, TurnInv, PastInv, [Next]_vars PROVE PastInv'
  OBVIOUS
<1> USE MemoryAssumption DEF TypeOK, who, thread
<1> DEFINE Facts == \A w \in facts : Past(w)
           Answer == pc = "recall" => job \in memory /\ \A w \in answer.value : w[1] = job /\ w[2] < turn
           Env == /\ pc # "work" => env = Unset
                  /\ pc = "work" /\ env # Unset =>
                       job \in memory /\ \A w \in env : w[1] = job /\ w[2] < turn
<1>1. (\A i \in 1..Len(queue) : Asked(queue[i]))' /\ Asked(doing)'
  BY QueueStep
<1>2. Facts'
  <2>1. CASE Done
    <3>1. facts' \subseteq facts \cup (IF doing.what = "remember" THEN {<<doing.job, turn>>} ELSE {})
          /\ UNCHANGED <<turn, job>>
      BY <2>1 DEF Done
    <3> QED BY <3>1 DEF PastInv, Past, Asked
  <2>2. CASE Record \/ Again
    <3>1. facts' = facts /\ ((turn' = turn /\ job' = job + 1) \/ turn' = turn + 1)
      BY <2>2 DEF Record, Again
    <3>2. ASSUME NEW w \in facts PROVE Past(w)'
      <4>1. w[1] \in Nat /\ w[2] \in Nat /\ Past(w)
        BY DEF Wakes, Jobs, PastInv
      <4>2. turn \in Nat /\ job \in Nat
        OBVIOUS
      <4> HIDE DEF TypeOK, who, thread
      <4> QED BY <3>1, <4>1, <4>2 DEF Past
    <3> QED BY <3>1, <3>2
  <2>3. CASE Turn \/ Recalled \/ RecallTimesOut \/ WorkEnds \/ Drain \/ Ends \/ Take \/ Tick \/ Elsewhere
             \/ UNCHANGED vars
    <3>1. UNCHANGED <<facts, turn, job>>
      BY <2>3 DEF Turn, Recalled, RecallTimesOut, WorkEnds, Drain, Ends, Take, Tick, Elsewhere, vars
    <3> QED BY <3>1 DEF PastInv, Past
  <2> QED BY <2>1, <2>2, <2>3 DEF Next, Process, Worker
<1>3. Answer'
  <2>1. CASE Turn
    BY <2>1 DEF Turn, StartsWork, Silent
  <2>2. CASE Done
    <3>1. ASSUME NEW w \in OwnFacts(job) PROVE w[1] = job /\ w[2] < turn
      BY DEF OwnFacts, PastInv, Past
    <3>2. /\ \/ answer' \in {answer, [state |-> "error", value |-> {}]}
             \/ \E value \in Recalls(job) : answer' = [state |-> "ok", value |-> value]
          /\ UNCHANGED <<who, pc>>
      BY <2>2 DEF Done
    <3>3. \A w \in answer'.value : w \in answer.value \/ w \in OwnFacts(job)
      BY <3>2, RecallsOwn
    <3> QED BY <3>1, <3>2, <3>3 DEF PastInv
  <2>3. CASE Take \/ Tick \/ Elsewhere \/ UNCHANGED vars
    <3>1. UNCHANGED <<pc, memory, answer, job, turn>>
      BY <2>3 DEF Take, Tick, Elsewhere, vars
    <3> QED BY <3>1 DEF PastInv
  <2>4. CASE Recalled \/ RecallTimesOut \/ WorkEnds \/ Record \/ Drain \/ Ends \/ Again
    <3>1. pc' # "recall"
      BY <2>4 DEF Recalled, RecallTimesOut, WorkEnds, Record, Drain, Ends, Again, StartsWork
    <3> QED BY <3>1
  <2> QED BY <2>1, <2>2, <2>3, <2>4 DEF Next, Process, Worker
<1>4. Env'
  <2>1. CASE Turn
    BY <2>1 DEF Turn, StartsWork, PastInv
  <2>2. CASE Recalled \/ RecallTimesOut
    <3>1. /\ pc = "recall" /\ pc' = "work" /\ UNCHANGED who
          /\ (env' = {} \/ env' = answer.value)
      BY <2>2 DEF Recalled, RecallTimesOut, StartsWork
    <3> QED BY <3>1 DEF PastInv
  <2>3. CASE WorkEnds \/ Record \/ Drain \/ Ends \/ Again
    <3>1. pc' # "work" /\ (env' = Unset \/ (pc # "work" /\ env' = env))
      BY <2>3 DEF WorkEnds, Record, Drain, Ends, Again
    <3> QED BY <3>1 DEF PastInv
  <2>4. CASE Worker \/ Tick \/ Elsewhere \/ UNCHANGED vars
    <3>1. UNCHANGED <<pc, env, memory, job, turn>>
      BY <2>4 DEF Worker, Take, Done, Tick, Elsewhere, vars
    <3> QED BY <3>1 DEF PastInv
  <2> QED BY <2>1, <2>2, <2>3, <2>4 DEF Next, Process
<1>5. SeesItsOwnPast'
  <2>1. CASE WorkEnds
    <3>1. Wake \in Wakes /\ Wake[1] = job /\ Wake[2] = turn
      BY <2>1, WakeIsWake DEF WorkEnds, TurnInv, Wake
    <3>2. saw' = [saw EXCEPT ![Wake] = env] /\ memory' = memory
      BY <2>1 DEF WorkEnds
    <3>3. env # Unset => job \in memory /\ \A w \in env : w[1] = job /\ w[2] < turn
      BY <2>1 DEF WorkEnds, PastInv
    <3> QED BY <3>1, <3>2, <3>3 DEF PastInv, SeesItsOwnPast
  <2>2. CASE Turn \/ Recalled \/ RecallTimesOut \/ Record \/ Drain \/ Ends \/ Again \/ Worker
             \/ Tick \/ Elsewhere \/ UNCHANGED vars
    <3>1. UNCHANGED <<saw, memory>>
      BY <2>2 DEF Turn, Recalled, RecallTimesOut, Record, Drain, Ends, Again, Worker, Take, Done,
                  Tick, Elsewhere, vars
    <3> QED BY <3>1 DEF PastInv, SeesItsOwnPast
  <2> QED BY <2>1, <2>2 DEF Next, Process
<1> QED BY <1>1, <1>2, <1>3, <1>4, <1>5 DEF PastInv

-----------------------------------------------------------------------------
(* What is remembered                                                      *)

\* The store, the rows and the crowded recalls only grow, and the jobs with memory stay the same.
LEMMA FactsGrow ==
  ASSUME [Next]_vars
  PROVE  /\ memory' = memory /\ facts \subseteq facts' /\ rows \subseteq rows'
         /\ crowded \subseteq crowded'
<1> USE DEF thread, who, scopes
<1>1. CASE Turn
  BY <1>1 DEF Turn
<1>2. CASE Recalled \/ RecallTimesOut
  BY <1>2 DEF Recalled, RecallTimesOut
<1>3. CASE WorkEnds \/ Record \/ Drain \/ Ends \/ Again
  BY <1>3 DEF WorkEnds, Record, Drain, Ends, Again
<1>4. CASE Done
  <2>1. memory' = memory
    BY <1>4 DEF Done
  <2>2. facts \subseteq facts'
    BY <1>4 DEF Done
  <2>3. rows \subseteq rows'
    BY <1>4 DEF Done
  <2>4. crowded \subseteq crowded'
    BY <1>4 DEF Done
  <2> QED BY <2>1, <2>2, <2>3, <2>4
<1>5. CASE Take \/ Tick \/ Elsewhere \/ UNCHANGED vars
  BY <1>5 DEF Take, Tick, Elsewhere, vars
<1> QED BY <1>1, <1>2, <1>3, <1>4, <1>5 DEF Next, Process, Worker

\* Every step keeps the count of what is pending (_memory_submit and the worker).
LEMMA CountStep ==
  ASSUME TypeOK, TurnInv, CountInv, [Next]_vars
  PROVE  CountInv'
<1> USE DEF TypeOK, CountInv, thread, who
<1>1. CASE Turn
  <2>1. doing' = doing
    BY <1>1 DEF Turn
  <2>2. (queue' = queue /\ pending' = pending)
        \/ (Len(queue') = Len(queue) + 1 /\ pending' = pending + 1)
    BY <1>1 DEF Turn
  <2>3. Len(queue) \in Nat
    OBVIOUS
  <2> HIDE DEF TypeOK
  <2> QED BY <2>1, <2>2, <2>3
<1>2. CASE Record
  <2>1. job \in Jobs /\ queue' = queue \o Lessons /\ doing' = doing
        /\ pending' = pending + Len(Lessons)
    BY <1>2, WakeIsWake DEF Record, TurnInv
  <2>2. Lessons \in Seq(Calls)
    BY <2>1, LessonTypes
  <2>3. Len(queue') = Len(queue) + Len(Lessons) /\ Len(Lessons) \in Nat
    BY <2>1, <2>2
  <2> QED BY <2>1, <2>3
<1>3. CASE Take
  <2>1. Head(queue) \in Calls /\ Len(Tail(queue)) = Len(queue) - 1
    BY <1>3 DEF Take
  <2>2. Head(queue) # NoCall
    BY <2>1 DEF Calls, NoCall, Jobs
  <2> QED BY <1>3, <2>1, <2>2 DEF Take
<1>4. CASE Done
  BY <1>4 DEF Done
<1>5. CASE Again
  BY <1>5 DEF Again
<1>6. CASE Recalled \/ RecallTimesOut \/ WorkEnds \/ Drain \/ Ends \/ Tick \/ Elsewhere \/ UNCHANGED vars
  <2>1. UNCHANGED <<queue, doing, pending>>
    BY <1>6 DEF Recalled, RecallTimesOut, WorkEnds, Drain, Ends, Tick, Elsewhere, vars
  <2> QED BY <2>1
<1> QED BY <1>1, <1>2, <1>3, <1>4, <1>5, <1>6 DEF Next, Process, Worker

\* A wake with memory that is over is among what is submitted.
LEMMA LessonsRemember ==
  ASSUME job \in Jobs, job \in memory
  PROVE  \E i \in 1..Len(Lessons) : Lessons[i].what = "remember" /\ Lessons[i].job = job
<1> DEFINE remember == [what |-> "remember", job |-> job]
           teach == [what |-> "teach", job |-> job]
<1>1. remember.what = "remember" /\ remember.job = job
  OBVIOUS
<1> HIDE DEF remember, teach
<1>2. Lessons = <<remember>> \o (IF turn \in Door THEN <<teach>> ELSE <<>>)
  BY DEF Lessons, remember, teach
<1>3. Len(Lessons) >= 1 /\ Lessons[1] = remember /\ Len(Lessons) \in Nat
  <2>1. CASE turn \in Door
    BY <1>2, <2>1
  <2>2. CASE turn \notin Door
    BY <1>2, <2>2
  <2> QED BY <2>1, <2>2
<1> QED BY <1>1, <1>3

\* What is yet to be remembered stays so until the worker has done it.
LEMMA ToRememberStays ==
  ASSUME TypeOK, TurnInv, [Next]_vars, NEW j \in Jobs, ToRemember(j), turn' = turn
  PROVE  ToRemember(j)' \/ <<j, turn>> \in facts' \cup rows'
<1> USE DEF TypeOK, ToRemember, thread, who
<1>1. CASE Turn
  <2>1. queue' \in {queue, Append(queue, [what |-> "recall", job |-> job])} /\ doing' = doing
    BY <1>1 DEF Turn
  <2>3. [what |-> "recall", job |-> job] \in Calls
    BY <1>1, WakeIsWake, CallTypes DEF Turn
  <2>2. ASSUME NEW i \in 1..Len(queue) PROVE i \in 1..Len(queue') /\ queue'[i] = queue[i]
    <3>1. CASE queue' = queue
      BY <3>1
    <3>2. CASE queue' = Append(queue, [what |-> "recall", job |-> job])
      BY <2>3, <3>2
    <3> QED BY <2>1, <3>1, <3>2
  <2> QED BY <2>1, <2>2
<1>2. CASE Record
  <2>1. job \in Jobs /\ queue' = queue \o Lessons /\ doing' = doing
    BY <1>2, WakeIsWake DEF Record, TurnInv
  <2>2. Lessons \in Seq(Calls)
    BY <2>1, LessonTypes
  <2>3. ASSUME NEW i \in 1..Len(queue) PROVE i \in 1..Len(queue') /\ queue'[i] = queue[i]
    BY <2>1, <2>2
  <2> QED BY <2>1, <2>3
<1>3. CASE Take
  <2>1. doing = NoCall /\ queue # <<>> /\ doing' = Head(queue) /\ queue' = Tail(queue)
    BY <1>3 DEF Take
  <2>2. PICK i \in 1..Len(queue) : queue[i].what = "remember" /\ queue[i].job = j
    BY <2>1 DEF NoCall
  <2>3. CASE i = 1
    BY <2>1, <2>2, <2>3
  <2>4. CASE i # 1
    <3>1. i - 1 \in 1..Len(queue') /\ queue'[i - 1] = queue[i]
      BY <2>1, <2>4
    <3> QED BY <2>2, <3>1
  <2> QED BY <2>3, <2>4
<1>4. CASE Done
  <2>1. queue' = queue
    BY <1>4 DEF Done
  <2>2. CASE doing.what = "remember" /\ doing.job = j
    BY <1>4, <2>2 DEF Done
  <2> QED BY <2>1, <2>2
<1>5. CASE Again
  BY <1>5 DEF Again
<1>6. CASE Recalled \/ RecallTimesOut \/ WorkEnds \/ Drain \/ Ends \/ Tick \/ Elsewhere \/ UNCHANGED vars
  <2>1. UNCHANGED <<queue, doing>>
    BY <1>6 DEF Recalled, RecallTimesOut, WorkEnds, Drain, Ends, Tick, Elsewhere, vars
  <2> QED BY <2>1
<1> QED BY <1>1, <1>2, <1>3, <1>4, <1>5, <1>6 DEF Next, Process, Worker

\* Every step keeps it that a wake that is over is remembered or about to be.
LEMMA ToldStep ==
  ASSUME TypeOK, TurnInv, ToldInv, [Next]_vars
  PROVE  ToldInv'
<1> SUFFICES ASSUME NEW j \in memory', j < job'
             PROVE  <<j, turn'>> \in facts' \cup rows' \/ ToRemember(j)'
  BY DEF ToldInv
<1>1. memory' = memory /\ facts \subseteq facts' /\ rows \subseteq rows' /\ j \in Jobs /\ j \in memory
  BY FactsGrow DEF TypeOK
<1>2. CASE Again
  BY <1>1, <1>2 DEF Again, Jobs
<1>3. CASE Record
  <2>1. job \in Jobs /\ job' = job + 1 /\ turn' = turn /\ queue' = queue \o Lessons
    BY <1>3, WakeIsWake DEF Record, TurnInv
  <2>2. CASE j = job
    <3>1. PICK i \in 1..Len(Lessons) : Lessons[i].what = "remember" /\ Lessons[i].job = job
      BY <1>1, <2>1, <2>2, LessonsRemember
    <3>2. Lessons \in Seq(Calls) /\ queue \in Seq(Calls)
      BY <2>1, LessonTypes DEF TypeOK
    <3>3. Len(queue) + i \in 1..Len(queue') /\ queue'[Len(queue) + i] = Lessons[i]
      BY <2>1, <3>2
    <3> QED BY <2>2, <3>1, <3>3 DEF ToRemember
  <2>3. CASE j # job
    <3>1. j < job
      BY <1>1, <2>1, <2>3 DEF Jobs
    <3> QED BY <1>1, <2>1, <3>1, ToRememberStays DEF ToldInv
  <2> QED BY <2>2, <2>3
<1>4. CASE Turn \/ Recalled \/ RecallTimesOut \/ WorkEnds \/ Drain \/ Ends \/ Worker \/ Tick \/ Elsewhere
           \/ UNCHANGED vars
  <2>1. UNCHANGED <<job, turn>>
    BY <1>4 DEF Turn, Recalled, RecallTimesOut, WorkEnds, Drain, Ends, Worker, Take, Done, Tick, Elsewhere,
                vars, who
  <2> QED BY <1>1, <2>1, ToRememberStays DEF ToldInv
<1> QED BY <1>2, <1>3, <1>4 DEF Next, Process

\* Every step keeps it that only a wake whose job has worked has found something.
LEMMA SawStep ==
  ASSUME TypeOK, TurnInv, SawInv, [Next]_vars
  PROVE  SawInv'
<1> SUFFICES ASSUME NEW w \in Wakes, saw'[w] # Unset
             PROVE  \/ w[2] < turn'
                    \/ w[2] = turn' /\ (w[1] < job' \/ (w[1] = job' /\ pc' = "record"))
  BY DEF SawInv
<1>1. w[1] \in Nat /\ w[2] \in Nat /\ turn \in Nat /\ job \in Nat
  BY DEF Wakes, Jobs, TypeOK
<1> USE DEF who
<1>2. CASE WorkEnds
  <2>1. saw' = [saw EXCEPT ![Wake] = env] /\ pc = "work" /\ pc' = "record"
        /\ turn' = turn /\ job' = job
    BY <1>2 DEF WorkEnds
  <2>2. CASE w = Wake
    BY <2>1, <2>2 DEF Wake
  <2>3. CASE w # Wake
    <3>1. saw'[w] = saw[w]
      BY <2>1, <2>3 DEF TypeOK
    <3> QED BY <2>1, <3>1 DEF SawInv
  <2> QED BY <2>2, <2>3
<1>3. CASE Record \/ Again
  <2>1. saw' = saw /\ ((turn' = turn /\ job' = job + 1) \/ (turn' = turn + 1 /\ pc # "record"))
    BY <1>3 DEF Record, Again
  <2>2. w[2] < turn \/ (w[2] = turn /\ w[1] <= job)
    BY <1>1, <2>1 DEF SawInv
  <2> QED BY <1>1, <2>1, <2>2
<1>4. CASE Turn \/ Recalled \/ RecallTimesOut \/ Drain \/ Ends \/ Worker \/ Tick \/ Elsewhere \/ UNCHANGED vars
  <2>1. UNCHANGED <<saw, turn, job>> /\ (pc = "record" => pc' = "record")
    BY <1>4 DEF Turn, Recalled, RecallTimesOut, Drain, Ends, Worker, Take, Done, Tick, Elsewhere, vars
  <2> QED BY <2>1 DEF SawInv
<1> QED BY <1>2, <1>3, <1>4 DEF Next, Process

\* A drain that finds nothing pending leaves no wake of its turn behind
\* (_memory_drain, _MEMORY_PENDING_DONE).
LEMMA NothingPending ==
  ASSUME TypeOK, CountInv, ToldInv, SawInv, pending = 0, pc = "drain",
         NEW w \in Wakes, w[1] \in memory, w[2] = turn, saw[w] # Unset
  PROVE  w \in facts \cup rows
<1>1. Len(queue) \in Nat /\ Len(queue) = 0 /\ doing = NoCall
  BY DEF TypeOK, CountInv
<1>2. w[1] < job
  BY DEF SawInv, TypeOK
<1>3. ~ToRemember(w[1])
  BY <1>1 DEF ToRemember, NoCall
<1>4. w = <<w[1], turn>>
  BY DEF Wakes
<1> QED BY <1>2, <1>3, <1>4 DEF ToldInv

\* Every step keeps it that what a drain saw done is in the store or has a row.
LEMMA DrainedStep ==
  ASSUME TypeOK, TurnInv, CountInv, ToldInv, SawInv, DrainedInv, [Next]_vars
  PROVE  DrainedInv'
<1>1. memory' = memory /\ facts \subseteq facts' /\ rows \subseteq rows'
  BY FactsGrow
<1> USE DEF who
<1>2. CASE WorkEnds
  <2>1. saw' = [saw EXCEPT ![Wake] = env] /\ pc = "work" /\ drained' = drained
        /\ turn' = turn
    BY <1>2 DEF WorkEnds
  <2>2. \A t \in drained : t < turn
    BY <2>1 DEF DrainedInv
  <2>3. turn \notin drained
    BY <2>2 DEF TypeOK
  <2>4. ASSUME NEW w \in Wakes, w[2] \in drained PROVE saw'[w] = saw[w]
    BY <2>1, <2>3, <2>4 DEF TypeOK, Wake
  <2> QED BY <1>1, <2>1, <2>2, <2>4 DEF DrainedInv
<1>3. CASE Ends
  <2>1. saw' = saw /\ turn' = turn /\ pc = "drain" /\ pc' = "over"
        /\ (drained' = drained \/ (pending = 0 /\ drained' = drained \cup {turn}))
    BY <1>3 DEF Ends, AllDone
  <2>2. \A t \in drained' : t < turn \/ t = turn
    BY <2>1 DEF DrainedInv
  <2>3. ASSUME NEW w \in Wakes, w[1] \in memory, w[2] \in drained', saw[w] # Unset
        PROVE  w \in facts \cup rows
    BY <2>1, <2>3, NothingPending DEF DrainedInv
  <2> QED BY <1>1, <2>1, <2>2, <2>3 DEF DrainedInv
<1>4. CASE Again
  <2>1. saw' = saw /\ drained' = drained /\ turn' = turn + 1
    BY <1>4 DEF Again
  <2>2. ASSUME NEW t \in drained PROVE t < turn'
    BY <2>1 DEF DrainedInv, TypeOK
  <2> QED BY <1>1, <2>1, <2>2 DEF DrainedInv
<1>5. CASE Turn \/ Recalled \/ RecallTimesOut \/ Record \/ Drain \/ Worker \/ Tick \/ Elsewhere \/ UNCHANGED vars
  <2>1. UNCHANGED <<saw, drained, turn>> /\ (pc = "over" => pc' = "over")
    BY <1>5 DEF Turn, Recalled, RecallTimesOut, Record, Drain, Worker, Take, Done, Tick, Elsewhere, vars
  <2> QED BY <1>1, <2>1 DEF DrainedInv
<1> QED BY <1>2, <1>3, <1>4, <1>5 DEF Next, Process

\* What a wake up to the turn at hand is owed only shrinks: no earlier turn is
\* drained late, and a wake of an earlier turn found what it found.
LEMMA OwedShrinks ==
  ASSUME TypeOK, TurnInv, [Next]_vars, NEW j \in Jobs, NEW t \in Nat, t <= turn
  PROVE  Owed(j, t)' \subseteq Owed(j, t)
<1> SUFFICES ASSUME NEW w \in Wakes, w[1] = j, w[2] \in drained', w[2] < t, saw'[w] # Unset,
                    w \notin rows'
             PROVE  w[2] \in drained /\ saw[w] # Unset /\ w \notin rows
  BY DEF Owed
<1>1. w \notin rows
  BY FactsGrow
<1>2. w[2] # turn
  BY DEF TypeOK, Wakes
<1> USE DEF who
<1>3. CASE WorkEnds
  <2>1. saw' = [saw EXCEPT ![Wake] = env] /\ drained' = drained
    BY <1>3 DEF WorkEnds
  <2>2. saw'[w] = saw[w]
    BY <1>2, <2>1 DEF TypeOK, Wake
  <2> QED BY <1>1, <2>1, <2>2
<1>4. CASE Ends
  <2>1. saw' = saw /\ drained' \subseteq drained \cup {turn}
    BY <1>4 DEF Ends
  <2> QED BY <1>1, <1>2, <2>1
<1>5. CASE Turn \/ Recalled \/ RecallTimesOut \/ Record \/ Drain \/ Again \/ Worker \/ Tick \/ Elsewhere
           \/ UNCHANGED vars
  <2>1. UNCHANGED <<saw, drained>>
    BY <1>5 DEF Turn, Recalled, RecallTimesOut, Record, Drain, Again, Worker, Take, Done, Tick, Elsewhere, vars
  <2> QED BY <1>1, <2>1
<1> QED BY <1>3, <1>4, <1>5 DEF Next, Process

\* What a wake is owed is in the store before its turn begins.
LEMMA OwedIsInStore ==
  ASSUME TypeOK, DrainedInv, NEW j \in memory, NEW t \in Nat
  PROVE  Owed(j, t) \subseteq {w \in facts : w[1] = j}
BY DEF Owed, DrainedInv

\* Every step keeps it that what is owed reaches the wake, or a row says so.
LEMMA RecallStep ==
  ASSUME TypeOK, TurnInv, PastInv, SawInv, DrainedInv, RecallInv, [Next]_vars
  PROVE  RecallInv'
<1>1. memory' = memory /\ rows \cup crowded \subseteq rows' \cup crowded' /\ crowded \subseteq crowded'
  BY FactsGrow
<1>2. turn \in Nat /\ memory \subseteq Jobs
  BY DEF TypeOK
<1> DEFINE Answer == pc = "recall" /\ answer.state = "ok" =>
                       Owed(job, turn) \subseteq answer.value \/ Wake \in crowded
           Env == pc = "work" /\ job \in memory =>
                    Owed(job, turn) \subseteq env \/ Wake \in rows \cup crowded
           Found == \A w \in Wakes : w[1] \in memory /\ saw[w] # Unset =>
                      Owed(w[1], w[2]) \subseteq saw[w] \/ w \in rows \cup crowded
<1> USE DEF who
<1>3. Answer'
  <2>1. CASE Turn
    BY <2>1 DEF Turn, StartsWork, Silent
  <2>2. CASE Done
    <3>1. /\ pc' = pc /\ job' = job /\ turn' = turn
          /\ \/ answer' = answer
             \/ answer' = [state |-> "error", value |-> {}]
             \/ Wake \in crowded'
             \/ ~Crowded(job) /\ \E value \in Recalls(job) : answer' = [state |-> "ok", value |-> value]
      BY <2>2 DEF Done
    <3> SUFFICES ASSUME pc = "recall", answer'.state = "ok", Wake \notin crowded'
                 PROVE  Owed(job, turn)' \subseteq answer'.value
      BY <3>1 DEF Wake
    <3>5. answer' = answer \/ answer' = [state |-> "ok", value |-> OwnFacts(job)]
      BY <3>1 DEF Recalls
    <3>6. Wake \notin crowded
      BY <1>1
    <3>2. job \in memory
      BY DEF PastInv
    <3>3. Owed(job, turn)' \subseteq Owed(job, turn)
      BY <1>2, <3>1, <3>2, OwedShrinks
    <3>4. Owed(job, turn) \subseteq OwnFacts(job)
      BY <1>2, <3>2, OwedIsInStore DEF OwnFacts
    <3> QED BY <3>1, <3>3, <3>4, <3>5, <3>6 DEF RecallInv
  <2>3. CASE Take \/ Tick \/ Elsewhere \/ UNCHANGED vars
    <3>1. UNCHANGED <<pc, answer, job, turn>>
      BY <2>3 DEF Take, Tick, Elsewhere, vars, thread
    <3>2. CASE pc = "recall"
      <4>1. job \in Jobs /\ turn \in Nat
        BY <1>2, <3>2 DEF PastInv
      <4>2. Owed(job, turn)' \subseteq Owed(job, turn)
        BY <3>1, <4>1, OwedShrinks
      <4> QED BY <1>1, <3>1, <4>2 DEF RecallInv, Wake
    <3>3. CASE pc # "recall"
      BY <3>1, <3>3
    <3> QED BY <3>2, <3>3
  <2>4. CASE Recalled \/ RecallTimesOut \/ WorkEnds \/ Record \/ Drain \/ Ends \/ Again
    <3>1. pc' # "recall"
      BY <2>4 DEF Recalled, RecallTimesOut, WorkEnds, Record, Drain, Ends, Again, StartsWork
    <3> QED BY <3>1
  <2> QED BY <2>1, <2>2, <2>3, <2>4 DEF Next, Process, Worker
<1>4. Env'
  <2>1. CASE Turn
    <3>1. pc' = "work" /\ job' \in memory' => Wake' \in rows'
      BY <2>1 DEF Turn, Wake
    <3> QED BY <3>1
  <2>2. CASE Recalled \/ RecallTimesOut
    <3>1. pc = "recall" /\ job' = job /\ turn' = turn
          /\ ((answer.state = "ok" /\ env' = answer.value) \/ Wake \in rows')
      BY <2>2 DEF Recalled, RecallTimesOut, StartsWork
    <3>2. job \in memory
      BY <3>1 DEF PastInv
    <3>3. Owed(job, turn)' \subseteq Owed(job, turn)
      BY <1>2, <3>1, <3>2, OwedShrinks
    <3> QED BY <1>1, <3>1, <3>3 DEF RecallInv, Wake
  <2>3. CASE WorkEnds \/ Record \/ Drain \/ Ends \/ Again
    <3>1. pc' # "work"
      BY <2>3 DEF WorkEnds, Record, Drain, Ends, Again
    <3> QED BY <3>1
  <2>4. CASE Worker \/ Tick \/ Elsewhere \/ UNCHANGED vars
    <3>1. UNCHANGED <<pc, env, job, turn>>
      BY <2>4 DEF Worker, Take, Done, Tick, Elsewhere, vars
    <3>2. job \in memory => Owed(job, turn)' \subseteq Owed(job, turn)
      BY <1>2, <3>1, OwedShrinks
    <3> QED BY <1>1, <3>1, <3>2 DEF RecallInv, Wake
  <2> QED BY <2>1, <2>2, <2>3, <2>4 DEF Next, Process
<1>5. Found'
  <2> SUFFICES ASSUME NEW w \in Wakes, w[1] \in memory, saw'[w] # Unset
               PROVE  Owed(w[1], w[2])' \subseteq saw'[w] \/ w \in rows' \cup crowded'
    BY <1>1
  <2>1. w[1] \in Jobs /\ w[2] \in Nat /\ w[2] <= turn'
    <3>1. w[1] \in Jobs /\ w[2] \in Nat
      BY DEF Wakes
    <3>2. SawInv' /\ turn' \in Nat
      <4>1. SawInv'
        BY SawStep
      <4>2. TypeOK'
        BY TypeStep
      <4> QED BY <4>1, <4>2 DEF TypeOK
    <3>3. w[2] < turn' \/ w[2] = turn'
      BY <3>2 DEF SawInv
    <3> QED BY <3>1, <3>2, <3>3
  <2>2. CASE WorkEnds /\ w = Wake
    <3>1. /\ pc = "work" /\ saw' = [saw EXCEPT ![Wake] = env]
          /\ turn' = turn /\ job' = job
      BY <2>2 DEF WorkEnds
    <3>2. w[1] = job /\ w[2] = turn /\ saw'[w] = env
      BY <2>2, <3>1 DEF Wake, TypeOK
    <3>3. Owed(w[1], w[2])' \subseteq Owed(job, turn)
      BY <1>2, <2>1, <3>2, OwedShrinks
    <3> QED BY <1>1, <2>2, <3>1, <3>2, <3>3 DEF RecallInv
  <2>3. CASE saw'[w] = saw[w]
    <3>1. w[2] <= turn
      BY <2>1, <2>3 DEF SawInv, TypeOK
    <3>2. Owed(w[1], w[2])' \subseteq Owed(w[1], w[2])
      BY <2>1, <3>1, OwedShrinks
    <3> QED BY <1>1, <2>3, <3>2 DEF RecallInv
  <2>4. (WorkEnds /\ w = Wake) \/ saw'[w] = saw[w]
    <3>1. CASE WorkEnds
      BY <3>1 DEF WorkEnds, TypeOK
    <3>2. CASE Turn \/ Recalled \/ RecallTimesOut \/ Record \/ Drain \/ Ends \/ Again \/ Worker
               \/ Tick \/ Elsewhere \/ UNCHANGED vars
      BY <3>2 DEF Turn, Recalled, RecallTimesOut, Record, Drain, Ends, Again, Worker, Take, Done,
                  Tick, Elsewhere, vars
    <3> QED BY <3>1, <3>2 DEF Next, Process
  <2> QED BY <2>2, <2>3, <2>4
<1> QED BY <1>3, <1>4, <1>5 DEF RecallInv

\* Init establishes the invariant of what is remembered.
LEMMA InitFactsInv == Init => FactsInv
<1> SUFFICES ASSUME Init PROVE FactsInv
  OBVIOUS
<1>1. CountInv
  BY DEF Init, CountInv
<1>2. ToldInv
  BY DEF Init, ToldInv, Jobs
<1>3. SawInv /\ DrainedInv /\ RecallInv
  BY DEF Init, SawInv, DrainedInv, RecallInv, Wakes
<1> QED BY <1>1, <1>2, <1>3 DEF FactsInv

-----------------------------------------------------------------------------

\* The inductive invariant: types, turns, the cost of waits and the past.
THEOREM MemoryInvariant == Spec => []MemoryInv
<1>1. MemoryInv /\ [Next]_vars => MemoryInv'
  BY TypeStep, TurnStep, CostStep, PastStep DEF MemoryInv
<1> QED BY InitMemoryInv, <1>1, PTL DEF Spec

\* Every variable of the memory's model keeps its type.
THEOREM MemoryTypeCorrect == Spec => []TypeOK
<1>1. MemoryInv => TypeOK
  BY DEF MemoryInv
<1> QED BY MemoryInvariant, <1>1, PTL

\* For any number of jobs, a store that hangs costs an invocation one timeout
\* for all recalls together and one drain (cli.py:2147-2150, 879-889).
THEOREM RecallsCostOneTimeout == Spec => []MemoryCostsOneTimeout
<1>1. MemoryInv => MemoryCostsOneTimeout
  BY DEF MemoryInv, CostInv, MemoryCostsOneTimeout
<1> QED BY MemoryInvariant, <1>1, PTL

\* For any number of jobs and invocations, whatever the worker is late with,
\* a wake is shown earlier wakes of its own job or nothing (cli.py:933-966).
THEOREM WakesSeeTheirOwnPast == Spec => []SeesItsOwnPast
<1>1. MemoryInv => SeesItsOwnPast
  BY DEF MemoryInv, PastInv
<1> QED BY MemoryInvariant, <1>1, PTL

\* The invariant of what is remembered: what is pending, what is still to be
\* remembered, what a drain saw done, and what a recall brings.
THEOREM FactsInvariant == Spec => []FactsInv
<1>1. MemoryInv /\ FactsInv /\ [Next]_vars => FactsInv'
  BY CountStep, ToldStep, SawStep, DrainedStep, RecallStep DEF MemoryInv, FactsInv
<1> QED BY MemoryInvariant, InitFactsInv, <1>1, PTL DEF Spec

\* For any number of jobs and invocations: once a drain said that all is done,
\* every later wake of the job finds the fact, unless one of the two has a
\* report_error row, or the later one's recall had more facts to choose from than
\* the limit (README.md:190-193, cli.py:933-966).
THEOREM DrainedFactsReachLaterWakes == Spec => []DrainedFactsAreRecalled
<1>1. MemoryInv /\ FactsInv => DrainedFactsAreRecalled
  <2> SUFFICES ASSUME TypeOK, RecallInv, NEW j \in memory, NEW t \in 1..Passes,
                      NEW later \in 1..Passes, t \in drained, t < later,
                      saw[<<j, t>>] # Unset, saw[<<j, later>>] # Unset,
                      rows \cap {<<j, t>>, <<j, later>>} = {}, <<j, later>> \notin crowded
               PROVE  <<j, t>> \in saw[<<j, later>>]
    BY DEF MemoryInv, FactsInv, DrainedFactsAreRecalled
  <2>1. <<j, t>> \in Wakes /\ <<j, later>> \in Wakes
    BY DEF Wakes, TypeOK
  <2>2. <<j, t>> \in Owed(j, later)
    BY <2>1 DEF Owed
  <2> QED BY <2>1, <2>2 DEF RecallInv
<1> QED BY MemoryInvariant, FactsInvariant, <1>1, PTL

=============================================================================
