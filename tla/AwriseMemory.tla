---------------------------- MODULE AwriseMemory ----------------------------
(***************************************************************************)
(* The memory of jobs (cli.py): a pass recalls a job's own past wakes into *)
(* its environment before it runs and remembers the finished wake after    *)
(* it.  Every call to the store, and every lesson to the decide door, goes *)
(* through one worker thread of the process, which may be held up in a     *)
(* call for ever.  The pass waits for a recall no longer than what is left *)
(* of its budget, never for a remember, and drains the worker once, at its *)
(* end.                                                                    *)
(*                                                                         *)
(* Invocations follow each other: a process that ends takes its worker,    *)
(* and what is queued for it, along.  Time passes while an invocation      *)
(* waits or a job works.  A recall answers with a limited number of facts  *)
(* of all that the job's scope may see, its own and those of the scopes    *)
(* above it, which anybody may add to.                                     *)
(***************************************************************************)
EXTENDS Naturals, Sequences, FiniteSets

CONSTANTS
  JobCount,    \* the jobs of a pass, all due, 1 to JobCount
  Passes,      \* bound: how many invocations follow each other
  Timeout,     \* MEMORY_TIMEOUT_S
  Limit,       \* MEMORY_RECALL_LIMIT
  MaxAbove,    \* bound: how many facts the scopes above the jobs' hold
  WorkTimes,   \* how long a job may work
  Door,        \* the invocations that find the decide door configured
  Unset        \* no such variable in the environment

ASSUME MemoryAssumption ==
  /\ JobCount \in Nat \ {0} /\ Passes \in Nat \ {0}
  /\ Timeout \in Nat \ {0} /\ WorkTimes \subseteq Nat
  /\ Limit \in Nat \ {0} /\ MaxAbove \in Nat

Jobs == 1..JobCount
Wakes == Jobs \X (1..Passes)

\* MEMORY_DRAIN_TIMEOUT_S
DrainTimeout == 2 * Timeout

Calls == [what : {"recall", "remember", "teach"}, job : Jobs]
NoCall == [what |-> "none", job |-> 0]

VARIABLES
  memory,   \* the jobs with report.memory
  form,     \* what is running: a pass, or `awrise run` of one job
  turn,     \* its number
  job,      \* the job whose turn it is
  pc,       \* where it is
  now,      \* the time
  until,    \* when the wait it is in ends
  deadline, \* memory_deadline
  env,      \* AWRISE_MEMORY_JSON
  queue,    \* _MEMORY_WORK_Q
  doing,    \* the call the worker is in
  pending,  \* _MEMORY_PENDING_COUNT
  answer,   \* the result queue of the recall that is waited for
  facts,    \* the wakes in the store
  saw,      \* what each wake found in its environment
  rows,     \* the wakes with a report_error row of the memory
  drained,  \* the turns that ended with everything done
  above,    \* how many facts of the scopes above every job may see
  crowded,  \* the wakes whose recall had more to choose from than its limit
  spent     \* the time this invocation has waited for the memory

scopes == <<above, crowded>>
vars == <<memory, form, turn, job, pc, now, until, deadline, env, queue, doing,
          pending, answer, facts, saw, rows, drained, scopes, spent>>
thread == <<queue, doing, pending, answer, facts>>
who == <<memory, form, turn, job>>

TypeOK ==
  /\ memory \subseteq Jobs
  /\ form \in {"pass", "run"}
  /\ turn \in 1..Passes
  /\ job \in 1..(JobCount + 1)
  /\ pc \in {"turn", "recall", "work", "record", "drain", "over"}
  /\ now \in Nat /\ until \in Nat /\ deadline \in Nat
  /\ env \in (SUBSET Wakes) \cup {Unset}
  /\ queue \in Seq(Calls)
  /\ doing \in Calls \cup {NoCall}
  /\ pending \in Nat
  /\ answer \in [state : {"none", "ok", "error"}, value : SUBSET Wakes]
  /\ facts \subseteq Wakes
  /\ saw \in [Wakes -> (SUBSET Wakes) \cup {Unset}]
  /\ rows \subseteq Wakes
  /\ drained \subseteq 1..Passes
  /\ above \in 0..MaxAbove /\ crowded \subseteq Wakes
  /\ spent \in [recall : Nat, drain : Nat]

Silent == [state |-> "none", value |-> {}]

Init ==
  /\ memory \in (SUBSET Jobs) \ {{}}
  /\ form \in {"pass", "run"}
  /\ turn = 1 /\ job = 1 /\ pc = "turn"
  /\ now = 0 /\ until = 0 /\ deadline = Timeout
  /\ env = Unset
  /\ queue = <<>> /\ doing = NoCall /\ pending = 0 /\ answer = Silent
  /\ facts = {}
  /\ saw = [w \in Wakes |-> Unset]
  /\ rows = {}
  /\ drained = {}
  /\ above \in 0..MaxAbove /\ crowded = {}
  /\ spent = [recall |-> 0, drain |-> 0]

Wake == <<job, turn>>

\* The jobs that the invocation has a turn for.
LastJob == IF form = "run" THEN 1 ELSE JobCount

-----------------------------------------------------------------------------
(* The process                                                             *)

\* A slip: every job has a budget of its own.
FreshBudget == Timeout

\* _execute: what is left of the budget of the pass; a manual run has one job.
Remaining ==
  IF form = "run" THEN Timeout
  ELSE IF now >= deadline THEN 0
  ELSE IF deadline - now < Timeout THEN deadline - now ELSE Timeout

\* _execute, from the started row to the executor: without memory, nothing of
\* it is touched; with a budget, the recall is submitted; without, it is
\* skipped with a row.
StartsWork(value) ==
  /\ env' = value
  /\ pc' = "work"
  /\ \E d \in WorkTimes : until' = now + d

Turn ==
  /\ pc = "turn" /\ job <= LastJob
  /\ \/ /\ job \notin memory
        /\ StartsWork(env)
        /\ UNCHANGED <<thread, rows>>
     \/ /\ job \in memory /\ Remaining = 0
        /\ StartsWork({})
        /\ rows' = rows \cup {Wake}
        /\ UNCHANGED thread
     \/ /\ job \in memory /\ Remaining > 0
        /\ queue' = Append(queue, [what |-> "recall", job |-> job])
        /\ pending' = pending + 1
        /\ answer' = Silent
        /\ pc' = "recall" /\ until' = now + Remaining
        /\ UNCHANGED <<env, rows, doing, facts>>
  /\ UNCHANGED <<who, scopes, now, deadline, saw, drained, spent>>

\* _call_with_timeout: the answer of this call's own queue.
Recalled ==
  /\ pc = "recall" /\ answer.state # "none"
  /\ StartsWork(IF answer.state = "ok" THEN answer.value ELSE {})
  /\ rows' = IF answer.state = "ok" THEN rows ELSE rows \cup {Wake}
  /\ UNCHANGED <<who, scopes, now, deadline, thread, saw, drained, spent>>

RecallTimesOut ==
  /\ pc = "recall" /\ answer.state = "none" /\ now >= until
  /\ StartsWork({})
  /\ rows' = rows \cup {Wake}
  /\ UNCHANGED <<who, scopes, now, deadline, thread, saw, drained, spent>>

\* The executor has run with what was in the environment, and the `finally`
\* around it took the variable out.
WorkEnds ==
  /\ pc = "work" /\ now >= until
  /\ saw' = [saw EXCEPT ![Wake] = env]
  /\ env' = Unset
  /\ pc' = "record"
  /\ UNCHANGED <<who, scopes, now, until, deadline, thread, rows, drained, spent>>

\* _record: remember and teach are submitted, and nobody waits for them.
Lessons == (IF job \in memory THEN <<[what |-> "remember", job |-> job]>> ELSE <<>>)
           \o (IF turn \in Door THEN <<[what |-> "teach", job |-> job]>> ELSE <<>>)

Record ==
  /\ pc = "record"
  /\ queue' = queue \o Lessons
  /\ pending' = pending + Len(Lessons)
  /\ job' = job + 1
  /\ pc' = "turn"
  /\ UNCHANGED <<memory, form, turn, scopes, now, until, deadline, env, doing, answer, facts,
                 saw, rows, drained, spent>>

Drain ==
  /\ pc = "turn" /\ job > LastJob
  /\ pc' = "drain" /\ until' = now + DrainTimeout
  /\ UNCHANGED <<who, scopes, now, deadline, env, thread, saw, rows, drained, spent>>

\* A slip: the last call taken is as good as done.
QueueIsEmpty == queue = <<>>

\* _MEMORY_PENDING_DONE
AllDone == pending = 0

\* A slip: the drain waits for the worker.
EndsWhenDone ==
  /\ pc = "drain" /\ AllDone
  /\ pc' = "over"
  /\ drained' = drained \cup {turn}
  /\ UNCHANGED <<who, scopes, now, until, deadline, env, thread, saw, rows, spent>>

\* _memory_drain: either way, the invocation ends.
Ends ==
  /\ pc = "drain" /\ (AllDone \/ now >= until)
  /\ pc' = "over"
  /\ drained' = IF AllDone THEN drained \cup {turn} ELSE drained
  /\ UNCHANGED <<who, scopes, now, until, deadline, env, thread, saw, rows, spent>>

\* A process ends with its daemon thread; the next one starts.
Again ==
  /\ pc = "over" /\ turn < Passes
  /\ turn' = turn + 1 /\ job' = 1 /\ pc' = "turn"
  /\ form' \in {"pass", "run"}
  /\ now' = 0 /\ until' = 0 /\ deadline' = Timeout
  /\ env' = Unset
  /\ queue' = <<>> /\ doing' = NoCall /\ pending' = 0 /\ answer' = Silent
  /\ spent' = [recall |-> 0, drain |-> 0]
  /\ UNCHANGED <<memory, scopes, facts, saw, rows, drained>>

-----------------------------------------------------------------------------
(* The worker thread                                                       *)

Take ==
  /\ doing = NoCall /\ queue # <<>> /\ pc # "over"
  /\ doing' = Head(queue)
  /\ queue' = Tail(queue)
  /\ UNCHANGED <<who, scopes, pc, now, until, deadline, env, pending, answer, facts, saw, rows,
                 drained, spent>>

\* A slip: what any scope above may hold is recalled too.
AllFacts(j) == facts

\* Facts of the job's exact scope.
OwnFacts(j) == {w \in facts : w[1] = j}

\* There is more to recall than the limit.
Crowded(j) == Cardinality(OwnFacts(j)) + above > Limit

\* _memory_recall_json: the store answers with so many of the facts that the
\* scope may see - which of them is its own affair - and only those of the exact
\* scope are kept.
Recalls(j) ==
  IF ~Crowded(j) THEN {OwnFacts(j)}
  ELSE {some \in SUBSET OwnFacts(j) :
          Cardinality(some) <= Limit /\ Limit <= Cardinality(some) + above}

\* _memory_worker_loop: a result goes to the queue of its own call; whoever
\* waited for it may have given up.
WaitedFor == pc = "recall" /\ doing.what = "recall" /\ doing.job = job

Done ==
  /\ doing # NoCall /\ pc # "over"
  /\ doing' = NoCall
  /\ pending' = IF pending = 0 THEN 0 ELSE pending - 1
  /\ \/ /\ IF WaitedFor
           THEN /\ \E value \in Recalls(job) : answer' = [state |-> "ok", value |-> value]
                /\ crowded' = IF Crowded(job) THEN crowded \cup {Wake} ELSE crowded
           ELSE UNCHANGED <<answer, crowded>>
        /\ facts' = IF doing.what = "remember" THEN facts \cup {<<doing.job, turn>>} ELSE facts
        /\ UNCHANGED rows
     \/ /\ doing.what # "teach"
        /\ answer' = IF WaitedFor THEN [state |-> "error", value |-> {}] ELSE answer
        /\ rows' = IF doing.what = "remember" THEN rows \cup {<<doing.job, turn>>} ELSE rows
        /\ UNCHANGED <<facts, crowded>>
  /\ UNCHANGED <<who, above, pc, now, until, deadline, env, queue, saw, drained, spent>>

\* Somebody remembers something in a scope above.
Elsewhere ==
  /\ above < MaxAbove
  /\ above' = above + 1
  /\ UNCHANGED <<who, crowded, pc, now, until, deadline, env, thread, saw, rows, drained, spent>>

\* Time passes up to the end of the wait.
Tick ==
  /\ pc \in {"recall", "work", "drain"} /\ now < until
  /\ pc = "recall" => answer.state = "none"
  /\ pc = "drain" => ~AllDone
  /\ now' = now + 1
  /\ spent' = [recall |-> IF pc = "recall" THEN spent.recall + 1 ELSE spent.recall,
               drain |-> IF pc = "drain" THEN spent.drain + 1 ELSE spent.drain]
  /\ UNCHANGED <<who, scopes, pc, until, deadline, env, thread, saw, rows, drained>>

-----------------------------------------------------------------------------
Process == Turn \/ Recalled \/ RecallTimesOut \/ WorkEnds \/ Record \/ Drain \/ Ends \/ Again
Worker == Take \/ Done
Next == Process \/ Worker \/ Elsewhere \/ Tick

Spec == Init /\ [][Next]_vars

\* The worker owes nothing: it may be in one call for ever.
FairSpec == Spec /\ WF_vars(Process) /\ WF_vars(Tick)

-----------------------------------------------------------------------------
(* Properties                                                              *)

\* However the store hangs, an invocation waits for all recalls together no
\* longer than one timeout, and once more for the drain (cli.py:2147-2150).
MemoryCostsOneTimeout == spent.recall <= Timeout /\ spent.drain <= DrainTimeout

\* A wake finds its own past and nobody else's: with memory, facts of its own
\* job from earlier invocations, or none and a row that says so; without,
\* nothing at all (_memory_recall_json, and the `finally` of _execute).
SeesItsOwnPast ==
  \A w \in Wakes : saw[w] # Unset =>
    /\ w[1] \in memory
    /\ \A past \in saw[w] : past[1] = w[1] /\ past[2] < w[2]

\* README.md:190-193: what is remembered is in the next wake's recall.  When
\* the drain of an earlier invocation said that all is done, a later wake sees
\* the fact, unless one of the two has a report_error row, or there was more to
\* recall than the limit: own facts and those of the scopes above compete for
\* it before the latter are filtered out (cli.py:958-960).
DrainedFactsAreRecalled ==
  \A j \in memory : \A t, later \in 1..Passes :
    /\ t \in drained /\ t < later
    /\ saw[<<j, t>>] # Unset /\ saw[<<j, later>>] # Unset
    /\ rows \cap {<<j, t>>, <<j, later>>} = {} /\ <<j, later>> \notin crowded
    => <<j, t>> \in saw[<<j, later>>]

\* No invocation is held up for ever, though the worker may be.
InvocationEnds == \A t \in 1..Passes : turn = t ~> (turn = t /\ pc = "over")

\* README.md:190: "awrise recalls its own last 20 finished wakes".  Facts of the
\* scopes above take places of the 20, and are filtered out after.
LastTwentyAreRecalled ==
  \A j \in memory : \A t, later \in 1..Passes :
    /\ t \in drained /\ t < later /\ later - t <= Limit
    /\ saw[<<j, t>>] # Unset /\ saw[<<j, later>>] # Unset
    /\ rows \cap {<<j, t>>, <<j, later>>} = {}
    => <<j, t>> \in saw[<<j, later>>]

\* README.md:190, again.  As long as the store answers at once, no recall should be skipped;
\* the budget is a point in time, and the work of other jobs uses it up.
HealthyMemoryIsRecalled ==
  pc = "turn" /\ job <= LastJob /\ job \in memory /\ spent.recall = 0 => Remaining > 0

=============================================================================
