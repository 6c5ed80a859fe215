----------------------------- MODULE AwriseWake -----------------------------
(***************************************************************************)
(* What a wake does once its started row is written: executors.run and the *)
(* executors, with what they leave outside of the process - a child, a     *)
(* session of the local daemon, an item of the run queue, a unit that was  *)
(* woken - and the request and result files by which the unit's host agent *)
(* is asked.                                                               *)
(*                                                                         *)
(* Each wake belongs to an awrise process of its own (a pass, a manual     *)
(* run).  All of them name the same unit.  The agent, the queue's other    *)
(* workers and the daemon are external: they are modelled from the files   *)
(* and calls the executors use.  Every wait of the code but one has a      *)
(* deadline, which may pass at any time: a drain hands its item to the     *)
(* dispatcher in its own process, for as long as that takes.  The process  *)
(* may be interrupted from the keyboard in any wait.                       *)
(***************************************************************************)
EXTENDS Naturals, FiniteSets

CONSTANTS
  Wakes,    \* the wakes at work
  Casts,    \* the jobs they may be of
  Theirs,   \* an item of the run queue that another actor submitted
  Peer,     \* the queue's other workers
  Nobody

\* job.executor; "child" is shell, python and the adk chat of an agent.
Kinds == {"child", "http", "session", "queue"}

Jobs == [kind : Kinds, detach : BOOLEAN, drain : BOOLEAN,
         wake : BOOLEAN, required : BOOLEAN, park : BOOLEAN]

\* Only a child can be detached, only an item drained (AwriseSpec: a park
\* needs a unit, and no detached child).
Sound(j) == /\ j.detach => j.kind = "child" /\ ~j.park
            /\ j.drain => j.kind = "queue"
            /\ j.park => j.wake
            /\ j.required => j.wake

ASSUME WakeAssumption ==
  /\ Casts \subseteq [Wakes -> {j \in Jobs : Sound(j)}]
  /\ Theirs \notin Wakes /\ Peer \notin Wakes /\ Nobody \notin Wakes \cup {Peer}

Requests == Wakes \X {"wake", "park"}

ASSUME NobodyAssumption == Nobody \notin Requests

Items == Wakes \cup {Theirs}

\* What ask_unit_agent answers for: the agent's own verdict, or why there is none.
Verdicts == {"none", "ok", "failed", "refused", "withdrawn", "stuck", "taken"}

\* Closed states with the work still outstanding.
Unfinished == {"detached", "queued"}
\* A timeout and what is skipped stand with "error": nothing tells them apart
\* here.  "raised" is the error of an executor that did not return.
Ends == {"success", "failure", "error", "raised"} \cup Unfinished

VARIABLES
  job,      \* the job of each wake
  at,       \* where each wake is
  said,     \* the verdict on each request
  state,    \* how each wake closed
  child,    \* the child it started, with whatever of it holds its pipes
  doubted,  \* the wakes whose row says that a kill may be incomplete or a wait failed
  session,  \* the session it asked for: "open" is one that it has the id of
  item,     \* the run queue
  files,    \* the unit plane: requests/ and results/
  agent,    \* the request that the agent has taken
  up        \* whether the unit is up

children == <<child, doubted>>
vars == <<job, at, said, state, children, session, item, files, agent, up>>
work == <<children, session, item>>
plane == <<files, agent, up>>

TypeOK ==
  /\ job \in Casts
  /\ at \in [Wakes -> {"run", "ask", "wait", "withdraw", "work", "child", "claim", "dispatch",
                       "send", "follow", "delete", "park", "close", "over"}]
  /\ said \in [Requests -> Verdicts]
  /\ state \in [Wakes -> Ends \cup {"none", "interrupted"}]
  /\ child \in [Wakes -> {"none", "running", "ended"}]
  /\ doubted \subseteq Wakes
  /\ session \in [Wakes -> {"none", "open", "unnamed", "undeleted", "gone"}]
  /\ item \in [Items -> [at : {"absent", "queued", "claimed", "done", "failed"},
                         by : Wakes \cup {Peer, Nobody}]]
  /\ files \in [requests : SUBSET Requests, results : [Requests -> {"none", "ok", "failed"}]]
  /\ agent \in Requests \cup {Nobody}
  /\ up \in BOOLEAN

Init ==
  /\ job \in Casts
  /\ at = [w \in Wakes |-> "run"]
  /\ said = [r \in Requests |-> "none"]
  /\ state = [w \in Wakes |-> "none"]
  /\ child = [w \in Wakes |-> "none"]
  /\ doubted = {}
  /\ session = [w \in Wakes |-> "none"]
  /\ item = [i \in Items |-> [at |-> IF i = Theirs /\ \E w \in Wakes : job[w].drain
                               THEN "queued" ELSE "absent",
                             by |-> Nobody]]
  /\ files = [requests |-> {}, results |-> [r \in Requests |-> "none"]]
  /\ agent = Nobody
  /\ up = FALSE

Goto(w, place) == at' = [at EXCEPT ![w] = place]

-----------------------------------------------------------------------------
(* The wrap around every executor                                          *)

\* run: a job without a unit goes straight to its executor.
Run(w) ==
  /\ at[w] = "run"
  /\ Goto(w, IF job[w].wake THEN "ask" ELSE "work")
  /\ UNCHANGED <<job, said, state, work, plane>>

\* run_woken, when the inner executor has returned: only a unit that this wake
\* woke may be parked.
AfterWork(w) == IF said[<<w, "wake">>] = "ok" THEN "park" ELSE "close"

Returns(w, end) ==
  /\ state' = [state EXCEPT ![w] = end]
  /\ Goto(w, AfterWork(w))

\* _execute: an executor that raised is an error; run_woken did not get to park.
Raises(w) ==
  /\ state' = [state EXCEPT ![w] = "raised"]
  /\ Goto(w, "close")

\* A slip: the policy is forgotten.
WorksAnyway(w, verdict) == Goto(w, "work") /\ UNCHANGED state

\* run_woken, when the unit's agent has answered or not: a wake that is
\* required and failed ends here.
AfterWake(w, verdict) ==
  IF verdict = "ok" \/ ~job[w].required
  THEN Goto(w, "work") /\ UNCHANGED state
  ELSE Goto(w, "close") /\ state' = [state EXCEPT ![w] = "error"]

\* A slip: whether the job asked is all that counts.
ParkAlways(w) == job[w].park

\* park_unit: nothing is asked for while the work is outstanding.
ParkWanted(w) == job[w].park /\ ~job[w].detach /\ state[w] \notin Unfinished

Park(w) ==
  /\ at[w] = "park"
  /\ Goto(w, IF ParkWanted(w) THEN "ask" ELSE "close")
  /\ UNCHANGED <<job, said, state, work, plane>>

\* _execute: the finished row, and the lock is released.
Close(w) ==
  /\ at[w] = "close"
  /\ Goto(w, "over")
  /\ UNCHANGED <<job, said, state, work, plane>>

-----------------------------------------------------------------------------
(* ask_unit_agent                                                          *)

\* The wake is asked for first, the park after it.
Asking(w) == IF said[<<w, "wake">>] = "none" THEN "wake" ELSE "park"

Answered(w, act, verdict) ==
  /\ said' = [said EXCEPT ![<<w, act>>] = verdict]
  /\ IF act = "wake" THEN AfterWake(w, verdict) ELSE Goto(w, "close") /\ UNCHANGED state

\* No plane, no fresh heartbeat, or a disk that refuses: nothing is written.
Refused(w, act) ==
  /\ at[w] = "ask" /\ act = Asking(w)
  /\ Answered(w, act, "refused")
  /\ UNCHANGED <<job, work, plane>>

Ask(w, act) ==
  /\ at[w] = "ask" /\ act = Asking(w)
  /\ files' = [files EXCEPT !.requests = @ \cup {<<w, act>>}]
  /\ Goto(w, "wait")
  /\ UNCHANGED <<job, said, state, work, agent, up>>

Answer(w, act) ==
  /\ at[w] = "wait" /\ act = Asking(w)
  /\ files.results[<<w, act>>] # "none"
  /\ Answered(w, act, files.results[<<w, act>>])
  /\ UNCHANGED <<job, work, plane>>

\* A slip: the deadline is not looked at.
WaitOn(w, act) ==
  /\ at[w] = "wait" /\ act = Asking(w)
  /\ files.results[<<w, act>>] = "none"
  /\ UNCHANGED vars

\* The last look found nothing, and the deadline has passed.
GiveUp(w, act) ==
  /\ at[w] = "wait" /\ act = Asking(w)
  /\ files.results[<<w, act>>] = "none"
  /\ Goto(w, "withdraw")
  /\ UNCHANGED <<job, said, state, work, plane>>

\* A slip: a request that is gone counts as withdrawn.
WithdrawQuietly(w, act) ==
  /\ at[w] = "withdraw" /\ act = Asking(w)
  /\ files' = [files EXCEPT !.requests = @ \ {<<w, act>>}]
  /\ Answered(w, act, "withdrawn")
  /\ UNCHANGED <<job, work, agent, up>>

\* The request is unlinked; it may be gone, or the disk may refuse.
Withdraw(w, act) ==
  /\ at[w] = "withdraw" /\ act = Asking(w)
  /\ IF <<w, act>> \in files.requests
     THEN \/ /\ files' = [files EXCEPT !.requests = @ \ {<<w, act>>}]
             /\ Answered(w, act, "withdrawn")
          \/ /\ Answered(w, act, "stuck")
             /\ UNCHANGED files
     ELSE Answered(w, act, "taken") /\ UNCHANGED files
  /\ UNCHANGED <<job, work, agent, up>>

-----------------------------------------------------------------------------
(* The executors                                                           *)

\* An empty command, a refused field, a tool that is not there: nothing runs.
Refuses(w) ==
  /\ at[w] = "work"
  /\ Returns(w, "error")
  /\ UNCHANGED <<job, said, work, plane>>

\* _run_process: spawn and note the child; a detached one is left to itself.
Spawn(w) ==
  /\ at[w] = "work"
  /\ job[w].kind = "child"
  /\ child' = [child EXCEPT ![w] = "running"]
  /\ IF job[w].detach THEN Returns(w, "detached") ELSE Goto(w, "child") /\ UNCHANGED state
  /\ UNCHANGED <<job, said, doubted, session, item, plane>>

ChildEnds(w) ==
  /\ child[w] = "running"
  /\ child' = [child EXCEPT ![w] = "ended"]
  /\ UNCHANGED <<job, at, said, state, doubted, session, item, plane>>

Wait(w) ==
  /\ at[w] = "child"
  /\ child[w] = "ended"
  /\ \E end \in {"success", "failure"} : Returns(w, end)
  /\ UNCHANGED <<job, said, work, plane>>

\* The timeout has passed, or the wait itself failed: kill_tree.  The kill may
\* fail, or the pipes stay open; the row says so, and the wake goes on.
Kill(w) ==
  /\ at[w] = "child"
  /\ \/ child' = [child EXCEPT ![w] = "ended"] /\ UNCHANGED doubted
     \/ /\ child' \in {child, [child EXCEPT ![w] = "ended"]}
        /\ doubted' = doubted \cup {w}
  /\ Returns(w, "error")
  /\ UNCHANGED <<job, said, session, item, plane>>

\* run_http: one request; an answer that breaks off is not caught.
Request(w) ==
  /\ at[w] = "work"
  /\ job[w].kind = "http"
  /\ \/ \E end \in {"success", "failure", "error"} : Returns(w, end)
     \/ Raises(w)
  /\ UNCHANGED <<job, said, work, plane>>

\* The daemon may have made a session that the wake has no id of.
MayBeUnnamed(w) == session' \in {session, [session EXCEPT ![w] = "unnamed"]}

\* run_session: the daemon makes a session; its answer may not come back, or
\* break off, which is not caught.
Open(w) ==
  /\ at[w] = "work"
  /\ job[w].kind = "session"
  /\ \/ /\ session' = [session EXCEPT ![w] = "open"]
        /\ Goto(w, "send")
        /\ UNCHANGED state
     \/ /\ MayBeUnnamed(w)
        /\ (\E end \in {"failure", "error"} : Returns(w, end)) \/ Raises(w)
  /\ UNCHANGED <<job, said, children, item, plane>>

\* From here on, how the wake ends is settled before the session is deleted.
Send(w) ==
  /\ at[w] = "send"
  /\ \/ Goto(w, "follow") /\ UNCHANGED state
     \/ /\ \E end \in {"failure", "error", "raised"} : state' = [state EXCEPT ![w] = end]
        /\ Goto(w, "delete")
  /\ UNCHANGED <<job, said, work, plane>>

\* A slip: the poll's errors return past the delete.
FollowAndLeave(w) ==
  /\ at[w] = "follow"
  /\ \/ /\ state' = [state EXCEPT ![w] = "success"]
        /\ Goto(w, "delete")
     \/ \E end \in {"failure", "error"} : Returns(w, end)
  /\ UNCHANGED <<job, said, work, plane>>

\* The poll ends with the turn, an error, the deadline or the session's end, or
\* with an answer that breaks off.
Follow(w) ==
  /\ at[w] = "follow"
  /\ \E end \in {"success", "failure", "error", "raised"} : state' = [state EXCEPT ![w] = end]
  /\ Goto(w, "delete")
  /\ UNCHANGED <<job, said, work, plane>>

\* The daemon's own: a session ends whenever it does.
Live == {"open", "unnamed", "undeleted"}

SessionExits(w) ==
  /\ session[w] \in Live
  /\ session' = [session EXCEPT ![w] = "gone"]
  /\ UNCHANGED <<job, at, said, state, children, item, plane>>

\* DELETE; one that fails is passed over.
AsksToDelete(w) ==
  \/ session' = [session EXCEPT ![w] = "gone"]
  \/ session[w] = "open" /\ session' = [session EXCEPT ![w] = "undeleted"]

\* The `finally` of run_session.
Delete(w) ==
  /\ at[w] = "delete"
  /\ AsksToDelete(w)
  /\ Goto(w, CASE state[w] = "interrupted" -> "over"
               [] state[w] = "raised" -> "close"
               [] OTHER -> AfterWork(w))
  /\ UNCHANGED <<job, said, state, children, item, plane>>

\* run_awrun: submit; without a drain the wake closes `queued`.
Submit(w) ==
  /\ at[w] = "work"
  /\ job[w].kind = "queue"
  /\ item' = [item EXCEPT ![w].at = "queued"]
  /\ IF job[w].drain THEN Goto(w, "claim") /\ UNCHANGED state ELSE Returns(w, "queued")
  /\ UNCHANGED <<job, said, children, session, plane>>

\* A slip: the bare queue.
OfferedAny(w) == Items

\* _ClaimOnlyMine: what claim_next may hand back.
Offered(w) == {w}

Claimed(i, worker) == item[i].at = "claimed" /\ item[i].by = worker

\* dispatch_once: claim, if there is something to claim; it may find nothing that
\* the queue gives out, not be installed, or raise instead.
Claim(w) ==
  /\ at[w] = "claim"
  /\ \/ \E i \in Offered(w) :
          /\ item[i].at = "queued"
          /\ item' = [item EXCEPT ![i] = [at |-> "claimed", by |-> w]]
          /\ Goto(w, "dispatch")
          /\ UNCHANGED state
     \/ (\E end \in {"queued", "error"} : Returns(w, end)) /\ UNCHANGED item
  /\ UNCHANGED <<job, said, children, session, plane>>

\* run_awrun: how the item that was drained closes the wake.
DrainEnd(w, i, status) ==
  IF i # w \/ status = "queued" THEN "queued"
  ELSE IF status = "done" THEN "success" ELSE "failure"

Dispatch(w) ==
  /\ at[w] = "dispatch"
  /\ \/ \E i \in Items, status \in {"done", "failed", "queued"} :
          /\ Claimed(i, w)
          /\ item' = [item EXCEPT ![i].at = status]
          /\ Returns(w, DrainEnd(w, i, status))
     \/ Returns(w, "error") /\ UNCHANGED item
  /\ UNCHANGED <<job, said, children, session, plane>>

\* Ctrl-C in a wait: only run_session has a `finally`, once it has an id; the
\* child is in a process group of its own and lives.  _execute releases the lock.
Interrupt(w) ==
  /\ \/ /\ at[w] \in {"wait", "child", "claim", "dispatch", "send", "follow"}
        /\ UNCHANGED session
     \/ at[w] = "work" /\ job[w].kind = "http" /\ UNCHANGED session
     \/ at[w] = "work" /\ job[w].kind = "session" /\ MayBeUnnamed(w)
     \/ at[w] = "delete" /\ AsksToDelete(w)
  /\ state' = [state EXCEPT ![w] = "interrupted"]
  /\ Goto(w, IF at[w] \in {"send", "follow"} THEN "delete" ELSE "over")
  /\ UNCHANGED <<job, said, children, item, plane>>

-----------------------------------------------------------------------------
(* The host agent, and the queue's other workers                           *)

\* The agent takes a request by removing its file.
Take ==
  /\ agent = Nobody
  /\ \E r \in files.requests :
       /\ agent' = r
       /\ files' = [files EXCEPT !.requests = @ \ {r}]
  /\ UNCHANGED <<job, at, said, state, work, up>>

\* It starts or stops the unit, or fails to; then it writes its answer.
Act ==
  /\ agent # Nobody
  /\ files.results[agent] = "none"
  /\ \/ up' = (agent[2] = "wake") /\ files' = [files EXCEPT !.results[agent] = "ok"]
     \/ files' = [files EXCEPT !.results[agent] = "failed"] /\ UNCHANGED up
  /\ agent' = Nobody
  /\ UNCHANGED <<job, at, said, state, work>>

\* It dies, before or after it acted on what it had taken.
Dies ==
  /\ agent # Nobody
  /\ agent' = Nobody
  /\ up' \in {up, agent[2] = "wake"}
  /\ UNCHANGED <<job, at, said, state, work, files>>

PeerClaims(i) ==
  /\ item[i].at = "queued"
  /\ item' = [item EXCEPT ![i] = [at |-> "claimed", by |-> Peer]]
  /\ UNCHANGED <<job, at, said, state, children, session, plane>>

PeerEnds(i) ==
  /\ Claimed(i, Peer)
  /\ \E status \in {"done", "failed", "queued"} : item' = [item EXCEPT ![i].at = status]
  /\ UNCHANGED <<job, at, said, state, children, session, plane>>

\* The lease of a worker that is gone runs out.
LeaseEnds(w) ==
  /\ at[w] \notin {"claim", "dispatch"}
  /\ \E i \in Items : Claimed(i, w) /\ item' = [item EXCEPT ![i].at = "queued"]
  /\ UNCHANGED <<job, at, said, state, children, session, plane>>

-----------------------------------------------------------------------------
Asks(w, act) ==
  Refused(w, act) \/ Ask(w, act) \/ Answer(w, act) \/ GiveUp(w, act) \/ Withdraw(w, act)

\* The dispatcher, in the process of the wake: nothing limits how long it takes.
Drains(w) == Claim(w) \/ Dispatch(w)

\* A step of the process that the wake belongs to, but for a drain's.
Step(w) ==
  \/ Run(w) \/ Park(w) \/ Close(w)
  \/ \E act \in {"wake", "park"} : Asks(w, act)
  \/ Refuses(w) \/ Spawn(w) \/ Wait(w) \/ Kill(w) \/ Request(w)
  \/ Open(w) \/ Send(w) \/ Follow(w) \/ Delete(w)
  \/ Submit(w)

Outside ==
  \/ Take \/ Act \/ Dies
  \/ \E i \in Items : PeerClaims(i) \/ PeerEnds(i)

Next ==
  \/ \E w \in Wakes : \/ Step(w) \/ Drains(w) \/ Interrupt(w)
                     \/ ChildEnds(w) \/ SessionExits(w) \/ LeaseEnds(w)
  \/ Outside

Spec == Init /\ [][Next]_vars

\* Nothing outside of the process owes it anything: a wait ends by its deadline,
\* and a drain, which has none, may never end.
FairSpec == Spec /\ \A w \in Wakes : WF_vars(Step(w))

-----------------------------------------------------------------------------
(* Properties                                                              *)

\* What a wake started and is not over, whether the wake knows it or not.
WorkIsOut(w) ==
  \/ child[w] = "running"
  \/ session[w] \in Live
  \/ item[w].at \in {"queued", "claimed"}

\* A request that was withdrawn is never served, neither then nor later: what
\* its row says ("no agent answered") stays true (executors.py:976-986).
WithdrawnIsNeverServed ==
  \A r \in Requests : said[r] = "withdrawn" =>
    r \notin files.requests /\ agent # r /\ files.results[r] = "none"

\* A job whose unit is required starts nothing unless the agent said that the
\* unit is up, whatever became of the request (run_woken, 1071-1082).
FailedWakeRunsNothing ==
  \A w \in Wakes : job[w].required /\ said[<<w, "wake">>] # "ok" =>
    child[w] = "none" /\ session[w] = "none" /\ item[w].at = "absent"

\* The work of a wake that is out though the wake was told, or left, otherwise: a
\* drain that raised or was interrupted, a kill or a wait that failed, a session
\* that was not deleted or never named.
OutUnawares(w) ==
  \/ job[w].drain /\ state[w] \in {"error", "interrupted"}
  \/ w \in doubted
  \/ session[w] \in {"undeleted", "unnamed"}

\* Once woken, the unit is up for as long as the work that needs it is out
\* (park_unit, 1022-1044) - unless another wake parks the unit they share, or the
\* wake took its work for done: a drain raised, was interrupted in the park
\* that follows, or left its item behind; the row doubts a kill or a wait
\* (136-161, 210-225); the DELETE of its session failed (813-822), or the wake
\* never had the id.
UnitStaysUpForItsWork ==
  \A w \in Wakes : job[w].required /\ WorkIsOut(w) /\ ~up =>
    \/ OutUnawares(w)
    \/ \E v \in Wakes \ {w} : job[v].park /\ said[<<v, "wake">>] # "none"

\* A drain works on the item of its own wake only, and the wake closes with
\* success or failure only by that item's end (_ClaimOnlyMine).
DrainIsItsOwn ==
  /\ item[Theirs].by \notin Wakes
  /\ \A w \in Wakes : job[w].kind = "queue" /\ state[w] \in {"success", "failure"} =>
       item[w] = [at |-> IF state[w] = "success" THEN "done" ELSE "failed", by |-> w]

\* A wake that closed leaves no child but a detached one, one that an interrupt
\* left, or one whose kill or wait its row doubts; and no session whose id it was
\* given without having asked for its DELETE, interrupted or not (813-822).
NothingIsLeftBehind ==
  \A w \in Wakes : at[w] = "over" =>
    /\ session[w] # "open"
    /\ child[w] = "running" => job[w].detach \/ state[w] = "interrupted" \/ w \in doubted

\* Every wake closes, though the agent, the daemon, the child and the queue's
\* other workers may never do anything again - or it is in a drain for ever:
\* dispatch_once runs the item in the process, without a deadline (546).
EveryWakeCloses ==
  \A w \in Wakes : <>(at[w] = "over") \/ <>[](at[w] \in {"claim", "dispatch"})

\* README.md:107: a park is "skipped whenever the wake closed with the work
\* still outstanding".  The code parks when the drain of an item raised, a kill
\* failed, or a session was not deleted.
ParkWaitsForTheWork ==
  \A w \in Wakes : at[w] \in {"ask", "wait"} /\ Asking(w) = "park" => ~WorkIsOut(w)

\* executors.py:703-704: "a wake that got an id deletes it whatever happened
\* next".  A DELETE that fails is passed over, and nobody asks again.
EverySessionIsDeleted == \A w \in Wakes : at[w] = "over" => session[w] # "undeleted"

\* cli.py:2033-2035: a pass "runs its due jobs one after another, so the largest
\* [timeout] is what one wake may take".  A wake that drains may take for ever.
EveryWakeIsTimedOut == \A w \in Wakes : <>(at[w] = "over")

\* executors.py:217-221: "the one thing that must not happen is returning
\* without killing it".  A keyboard interrupt does.
NoChildIsLeft ==
  \A w \in Wakes : at[w] = "over" /\ child[w] = "running" => job[w].detach

\* executors.py:930-932: "an agent that wakes up late cannot start or stop a
\* unit for a job that already gave up on it".  One that has taken the request
\* can, and one that finds the request of an interrupted job.
NoServiceForTheGone ==
  agent # Nobody => said[agent] = "none" /\ state[agent[1]] # "interrupted"

=============================================================================
