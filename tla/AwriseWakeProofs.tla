-------------------------- MODULE AwriseWakeProofs --------------------------
(***************************************************************************)
(* Theorems about AwriseWake for every set of wakes and every cast of      *)
(* jobs: the types, what becomes of a request that was withdrawn, and what *)
(* a wake may have started when its unit did not come up.                  *)
(***************************************************************************)
EXTENDS AwriseWake, TLAPS

\* Nothing of a request is on the plane, and no agent is at work on it.
Unasked(r) == r \notin files.requests /\ agent # r /\ files.results[r] = "none"

\* A request is in one place: its file, the agent's hands, or its result.
PlaneInv ==
  /\ \A r \in files.requests : agent # r /\ files.results[r] = "none"
  /\ agent # Nobody => files.results[agent] = "none"

\* A wake asks for each act once: before that, nothing of the request is out.
AskInv ==
  \A w \in Wakes :
    /\ at[w] = "run" => said[<<w, "wake">>] = "none"
    /\ at[w] = "park" => said[<<w, "wake">>] = "ok"
    /\ at[w] \notin {"close", "over"} => said[<<w, "park">>] = "none"
    /\ at[w] \in {"run", "ask"} => Unasked(<<w, Asking(w)>>)
    /\ at[w] \notin {"close", "over"} /\ ~(at[w] \in {"wait", "withdraw"} /\ Asking(w) = "park")
         => Unasked(<<w, "park">>)

\* Nothing of the wake's work exists yet.
NothingStarted(w) == child[w] = "none" /\ session[w] = "none" /\ item[w].at = "absent"

\* A job whose unit is required does not reach its executor without it.
FailInv ==
  \A w \in Wakes : job[w].required /\ said[<<w, "wake">>] # "ok" =>
    at[w] \in {"run", "ask", "wait", "withdraw", "close", "over"} /\ NothingStarted(w)

\* The inductive invariant.
WakeInv == TypeOK /\ PlaneInv /\ AskInv /\ WithdrawnIsNeverServed /\ FailInv

\* A worker claims its own item or is another worker.
ByInv == \A i \in Items : item[i].by \in Wakes => item[i].by = i

\* The wake is not at work yet.
Before(w) ==
  at[w] \in {"run", "work"} \/ (at[w] \in {"ask", "wait", "withdraw"} /\ said[<<w, "wake">>] = "none")

\* The wake is past its work, and asks for the park or is over.
Past(w) ==
  at[w] \in {"ask", "wait", "withdraw", "close", "over"} /\ said[<<w, "wake">>] # "none"

\* What the wake started is over, as far as it was told.
Settled(w) == WorkIsOut(w) => OutUnawares(w)

\* What a wake may have started, by its kind and by where it is.
KindInv(w) ==
  /\ Before(w) => NothingStarted(w) /\ state[w] = "none"
  /\ at[w] = "child" => job[w].kind = "child"
  /\ at[w] \in {"send", "follow", "delete"} => job[w].kind = "session"
  /\ at[w] \in {"claim", "dispatch"} => job[w].drain
  /\ child[w] # "none" => job[w].kind = "child"
  /\ session[w] # "none" => job[w].kind = "session"
  /\ item[w].at # "absent" => job[w].kind = "queue"

\* What is running is waited for, detached, doubted or left by an interrupt.
LeftInv(w) ==
  /\ session[w] = "open" => at[w] \in {"send", "follow", "delete"}
  /\ child[w] = "running" => \/ at[w] = "child" \/ job[w].detach
                            \/ (at[w] = "over" /\ state[w] = "interrupted")
                            \/ w \in doubted

\* A drain that closed with success or failure has seen its item end so.
DrainInv(w) ==
  job[w].kind = "queue" /\ state[w] \in {"success", "failure"} =>
    item[w] = [at |-> IF state[w] = "success" THEN "done" ELSE "failed", by |-> w]

\* A park is asked for when the work is over.
ParkInv(w) ==
  /\ at[w] = "park" /\ ~job[w].detach /\ state[w] \notin Unfinished => Settled(w)
  /\ at[w] \in {"ask", "wait", "withdraw"} /\ said[<<w, "wake">>] # "none" =>
       job[w].park /\ Settled(w)

\* All of it, for one wake.
OneInv(w) == KindInv(w) /\ LeftInv(w) /\ DrainInv(w) /\ ParkInv(w)

\* Another wake may have parked the unit.
Shared(w) == \E v \in Wakes \ {w} : job[v].park /\ said[<<v, "wake">>] # "none"

\* A park that was asked for is of a wake past its work; the unit that came up
\* for a wake is up until then.
UpInv ==
  \A w \in Wakes :
    /\ ~Unasked(<<w, "park">>) => job[w].park /\ Past(w) /\ Settled(w)
    /\ said[<<w, "wake">>] = "ok" => files.results[<<w, "wake">>] = "ok"
    /\ files.results[<<w, "wake">>] = "ok" /\ ~up => Shared(w) \/ (Past(w) /\ Settled(w))

\* What the wakes have started and the unit is for.
WorkInv == ByInv /\ (\A w \in Wakes : OneInv(w)) /\ UpInv

\* The cast has sound jobs only.
LEMMA JobsAreSound ==
  ASSUME TypeOK, NEW w \in Wakes
  PROVE  job[w] \in Jobs /\ Sound(job[w])
  BY WakeAssumption DEF TypeOK

\* A wake asks for the unit to be started, or stopped.
LEMMA AskingAct == \A w \in Wakes : Asking(w) \in {"wake", "park"}
  BY DEF Asking

\* Init establishes the invariant.
LEMMA InitWakeInv == Init => WakeInv
<1> SUFFICES ASSUME Init PROVE WakeInv
  OBVIOUS
<1>1. TypeOK
  <2>1. item \in [Items -> [at : {"absent", "queued", "claimed", "done", "failed"},
                           by : Wakes \cup {Peer, Nobody}]]
    BY DEF Init
  <2>2. files \in [requests : SUBSET Requests, results : [Requests -> {"none", "ok", "failed"}]]
    BY DEF Init
  <2>3. said \in [Requests -> Verdicts] /\ state \in [Wakes -> Ends \cup {"none", "interrupted"}]
    BY DEF Init, Verdicts
  <2>4. /\ job \in Casts /\ agent = Nobody /\ up = FALSE
        /\ at = [w \in Wakes |-> "run"]
        /\ child = [w \in Wakes |-> "none"] /\ session = [w \in Wakes |-> "none"]
        /\ doubted = {}
    BY DEF Init
  <2>5. /\ at \in [Wakes -> {"run", "ask", "wait", "withdraw", "work", "child", "claim",
                            "dispatch", "send", "follow", "delete", "park", "close", "over"}]
        /\ child \in [Wakes -> {"none", "running", "ended"}]
        /\ session \in [Wakes -> {"none", "open", "unnamed", "undeleted", "gone"}]
    BY <2>4
  <2>6. job \in Casts /\ agent \in Requests \cup {Nobody} /\ up \in BOOLEAN /\ doubted \subseteq Wakes
    BY <2>4
  <2> QED BY <2>1, <2>2, <2>3, <2>5, <2>6 DEF TypeOK
<1>2. PlaneInv /\ AskInv /\ WithdrawnIsNeverServed
  <2>1. /\ \A r \in Requests : said[r] = "none" /\ files.results[r] = "none"
        /\ files.requests = {} /\ agent = Nobody
    BY DEF Init
  <2>3. \A r \in Requests : Unasked(r)
    BY <2>1, NobodyAssumption DEF Unasked
  <2>4. \A w \in Wakes : <<w, "wake">> \in Requests /\ <<w, "park">> \in Requests
    BY DEF Requests
  <2>5. \A w \in Wakes : /\ said[<<w, "wake">>] = "none" /\ said[<<w, "park">>] = "none"
                           /\ Unasked(<<w, Asking(w)>>) /\ Unasked(<<w, "park">>)
    BY <2>1, <2>3, <2>4, AskingAct
  <2>6. \A w \in Wakes : at[w] = "run"
    BY DEF Init
  <2> QED BY <2>1, <2>5, <2>6 DEF PlaneInv, AskInv, WithdrawnIsNeverServed
<1>3. FailInv
  BY WakeAssumption DEF Init, FailInv, NothingStarted, Items
<1> QED BY <1>1, <1>2, <1>3 DEF WakeInv

\* An answer keeps the types of what it sets.
LEMMA AnsweredTypes ==
  ASSUME TypeOK, NEW w \in Wakes, NEW act \in {"wake", "park"}, NEW verdict \in Verdicts,
         Answered(w, act, verdict)
  PROVE  /\ said' \in [Requests -> Verdicts]
         /\ at' \in [Wakes -> {"run", "ask", "wait", "withdraw", "work", "child", "claim",
                               "dispatch", "send", "follow", "delete", "park", "close", "over"}]
         /\ state' \in [Wakes -> Ends \cup {"none", "interrupted"}]
  BY DEF TypeOK, Answered, AfterWake, Goto, Ends

\* Every step keeps the types.
LEMMA TypeStep == TypeOK /\ [Next]_vars => TypeOK'
<1> SUFFICES ASSUME TypeOK, [Next]_vars PROVE TypeOK'
  OBVIOUS
<1> USE DEF TypeOK, Goto, work, children, plane, Returns, Raises, AfterWork
<1>1. ASSUME NEW w \in Wakes, Run(w) \/ Park(w) \/ Close(w) \/ Refuses(w) \/ Wait(w) \/ Request(w)
             \/ Send(w) \/ Follow(w)
      PROVE  TypeOK'
  BY <1>1 DEF Run, Park, Close, Refuses, Wait, Request, Send, Follow, Ends, Unfinished
<1>2. ASSUME NEW w \in Wakes, NEW act \in {"wake", "park"}, Asks(w, act) PROVE TypeOK'
  <2>1. <<w, act>> \in Requests
    BY DEF Requests
  <2>2. CASE Refused(w, act)
    <3>1. Answered(w, act, "refused") /\ UNCHANGED <<job, work, plane>>
      BY <2>2 DEF Refused
    <3> QED BY <3>1, AnsweredTypes DEF Verdicts
  <2>3. CASE Ask(w, act)
    BY <2>1, <2>3 DEF Ask
  <2>4. CASE Answer(w, act)
    <3>1. Answered(w, act, files.results[<<w, act>>]) /\ UNCHANGED <<job, work, plane>>
          /\ files.results[<<w, act>>] \in Verdicts
      BY <2>1, <2>4 DEF Answer, Verdicts
    <3> QED BY <3>1, AnsweredTypes
  <2>5. CASE GiveUp(w, act)
    BY <2>5 DEF GiveUp
  <2>6. CASE Withdraw(w, act)
    <3>1. PICK verdict \in {"withdrawn", "stuck", "taken"} : Answered(w, act, verdict)
      BY <2>6 DEF Withdraw
    <3>2. files' \in {files, [files EXCEPT !.requests = @ \ {<<w, act>>}]}
          /\ UNCHANGED <<job, work, agent, up>>
      BY <2>6 DEF Withdraw
    <3> QED BY <3>1, <3>2, AnsweredTypes DEF Verdicts
  <2> QED BY <1>2, <2>2, <2>3, <2>4, <2>5, <2>6 DEF Asks
<1>3. ASSUME NEW w \in Wakes, Spawn(w) \/ Kill(w) \/ ChildEnds(w) PROVE TypeOK'
  <2>1. CASE Spawn(w) \/ ChildEnds(w)
    BY <2>1 DEF Spawn, ChildEnds, Ends, Unfinished
  <2>2. CASE Kill(w)
    <3>1. /\ child' \in {child, [child EXCEPT ![w] = "ended"]} /\ doubted' \in {doubted, doubted \cup {w}}
          /\ Returns(w, "error") /\ UNCHANGED <<job, said, session, item, plane>>
      BY <2>2 DEF Kill
    <3> QED BY <3>1 DEF Ends
  <2> QED BY <1>3, <2>1, <2>2
<1>4. ASSUME NEW w \in Wakes, Open(w) \/ Delete(w) \/ SessionExits(w) \/ Interrupt(w) PROVE TypeOK'
  <2>1. session' \in [Wakes -> {"none", "open", "unnamed", "undeleted", "gone"}]
    BY <1>4 DEF Open, Delete, SessionExits, Interrupt, MayBeUnnamed, AsksToDelete
  <2>2. /\ at' \in [Wakes -> {"run", "ask", "wait", "withdraw", "work", "child", "claim", "dispatch",
                               "send", "follow", "delete", "park", "close", "over"}]
        /\ state' \in [Wakes -> Ends \cup {"none", "interrupted"}]
    BY <1>4 DEF Open, Delete, SessionExits, Interrupt, Ends
  <2>3. UNCHANGED <<job, said, children, item, plane>>
    BY <1>4 DEF Open, Delete, SessionExits, Interrupt
  <2> QED BY <2>1, <2>2, <2>3
<1>5. ASSUME NEW w \in Wakes, Submit(w) \/ Claim(w) \/ Dispatch(w) \/ LeaseEnds(w) PROVE TypeOK'
  <2>1. w \in Items /\ Offered(w) \subseteq Items
    BY DEF Items, Offered
  <2>2. CASE Submit(w)
    <3>1. /\ item' = [item EXCEPT ![w].at = "queued"] /\ UNCHANGED <<job, said, children, session, plane>>
          /\ (Goto(w, "claim") /\ UNCHANGED state) \/ Returns(w, "queued")
      BY <2>2 DEF Submit
    <3>2. item' \in [Items -> [at : {"absent", "queued", "claimed", "done", "failed"},
                               by : Wakes \cup {Peer, Nobody}]]
      BY <2>1, <3>1
    <3>3. /\ at' \in [Wakes -> {"run", "ask", "wait", "withdraw", "work", "child", "claim", "dispatch",
                                 "send", "follow", "delete", "park", "close", "over"}]
          /\ state' \in [Wakes -> Ends \cup {"none", "interrupted"}]
      BY <3>1 DEF Ends, Unfinished
    <3> QED BY <3>1, <3>2, <3>3
  <2>5. CASE LeaseEnds(w)
    <3>1. PICK i \in Items : item' = [item EXCEPT ![i].at = "queued"]
      BY <2>5 DEF LeaseEnds
    <3> QED BY <2>5, <3>1 DEF LeaseEnds
  <2>3. CASE Claim(w)
    BY <2>1, <2>3, SMTT(30) DEF Claim, Ends, Unfinished
  <2>4. CASE Dispatch(w)
    <3>1. CASE Returns(w, "error") /\ UNCHANGED item
      BY <2>4, <3>1 DEF Dispatch, Ends
    <3>2. ASSUME NEW i \in Items, NEW status \in {"done", "failed", "queued"},
                 item' = [item EXCEPT ![i].at = status], Returns(w, DrainEnd(w, i, status))
          PROVE  TypeOK'
      <4>1. DrainEnd(w, i, status) \in Ends
        BY DEF DrainEnd, Ends, Unfinished
      <4> QED BY <2>4, <3>2, <4>1 DEF Dispatch
    <3> QED BY <2>4, <3>1, <3>2 DEF Dispatch
  <2> QED BY <1>5, <2>2, <2>3, <2>4, <2>5
<1>6. ASSUME NEW i \in Items, PeerClaims(i) \/ PeerEnds(i) PROVE TypeOK'
  <2>1. CASE PeerClaims(i)
    BY <2>1 DEF PeerClaims
  <2>2. CASE PeerEnds(i)
    <3>1. PICK status \in {"done", "failed", "queued"} : item' = [item EXCEPT ![i].at = status]
      BY <2>2 DEF PeerEnds
    <3> QED BY <2>2, <3>1 DEF PeerEnds
  <2> QED BY <1>6, <2>1, <2>2
<1>7. CASE Take
  BY <1>7 DEF Take
<1>8. CASE Act
  <2>1. files' \in [requests : SUBSET Requests, results : [Requests -> {"none", "ok", "failed"}]]
    BY <1>8 DEF Act
  <2>2. up' \in BOOLEAN
    BY <1>8 DEF Act
  <2> QED BY <1>8, <2>1, <2>2 DEF Act
<1>9. CASE Dies
  BY <1>9 DEF Dies
<1>10. CASE UNCHANGED vars
  BY <1>10 DEF vars, children
<1> QED BY <1>1, <1>2, <1>3, <1>4, <1>5, <1>6, <1>7, <1>8, <1>9, <1>10 DEF Next, Step, Drains, Outside

\* What a step of a wake does to the plane, when it does not ask.
LEMMA PlaneFrame ==
  ASSUME NEW w \in Wakes,
         Run(w) \/ Park(w) \/ Close(w) \/ Refuses(w) \/ Wait(w) \/ Request(w) \/ Send(w) \/ Follow(w)
         \/ Interrupt(w) \/ Spawn(w) \/ Kill(w) \/ ChildEnds(w) \/ Open(w) \/ Delete(w)
         \/ SessionExits(w) \/ Submit(w) \/ Claim(w) \/ Dispatch(w) \/ LeaseEnds(w)
  PROVE  UNCHANGED <<job, said, files, agent>>
  BY DEF Run, Park, Close, Refuses, Wait, Request, Send, Follow, Interrupt, Spawn, Kill, ChildEnds,
         Open, Delete, SessionExits, Submit, Claim, Dispatch, LeaseEnds, plane

\* Where such a step may lead: to the request of a park after a wake that was
\* answered, and never back to a request.
LEMMA PlaceFrame ==
  ASSUME TypeOK, NEW w \in Wakes,
         Run(w) \/ Park(w) \/ Close(w) \/ Refuses(w) \/ Wait(w) \/ Request(w) \/ Send(w) \/ Follow(w)
         \/ Interrupt(w) \/ Spawn(w) \/ Kill(w) \/ ChildEnds(w) \/ Open(w) \/ Delete(w)
         \/ SessionExits(w) \/ Submit(w) \/ Claim(w) \/ Dispatch(w) \/ LeaseEnds(w)
  PROVE  /\ \A v \in Wakes \ {w} : at'[v] = at[v]
         /\ at'[w] # "run" \/ at'[w] = at[w]
         /\ at'[w] = "ask" => at[w] \in {"run", "ask", "park"}
         /\ at'[w] = "park" => at[w] = "park" \/ said[<<w, "wake">>] = "ok"
         /\ at'[w] \in {"wait", "withdraw"} => at'[w] = at[w]
         /\ at[w] \in {"close", "over"} => at'[w] \in {"close", "over"}
         /\ at[w] \in {"wait", "withdraw"} => at'[w] \in {at[w], "over"}
<1> USE DEF TypeOK, Goto, Returns, Raises, AfterWork
<1>1. CASE Run(w)
  BY <1>1 DEF Run
<1>2. CASE Park(w)
  BY <1>2 DEF Park
<1>3. CASE Close(w)
  BY <1>3 DEF Close
<1>4. CASE Refuses(w)
  BY <1>4 DEF Refuses
<1>5. CASE Wait(w)
  BY <1>5 DEF Wait
<1>6. CASE Request(w)
  BY <1>6 DEF Request
<1>7. CASE Send(w)
  BY <1>7 DEF Send
<1>8. CASE Follow(w)
  BY <1>8 DEF Follow
<1>9. CASE Interrupt(w)
  BY <1>9 DEF Interrupt
<1>10. CASE Spawn(w)
  BY <1>10 DEF Spawn
<1>11. CASE Kill(w)
  BY <1>11 DEF Kill
<1>12. CASE Open(w)
  BY <1>12 DEF Open
<1>13. CASE Delete(w)
  BY <1>13 DEF Delete
<1>14. CASE Submit(w)
  BY <1>14 DEF Submit
<1>15. CASE Claim(w)
  BY <1>15 DEF Claim
<1>16. CASE Dispatch(w)
  BY <1>16 DEF Dispatch
<1>17. CASE ChildEnds(w) \/ SessionExits(w) \/ LeaseEnds(w)
  <2>1. at' = at
    BY <1>17 DEF ChildEnds, SessionExits, LeaseEnds
  <2> QED BY <2>1
<1> QED
  BY <1>1, <1>2, <1>3, <1>4, <1>5, <1>6, <1>7, <1>8, <1>9, <1>10, <1>11, <1>12, <1>13, <1>14, <1>15, <1>16, <1>17

\* The steps that do not ask, as one.
Quiet(w) ==
  \/ Run(w) \/ Park(w) \/ Close(w) \/ Refuses(w) \/ Wait(w) \/ Request(w) \/ Send(w) \/ Follow(w)
  \/ Interrupt(w) \/ Spawn(w) \/ Kill(w) \/ ChildEnds(w) \/ Open(w) \/ Delete(w)
  \/ SessionExits(w) \/ Submit(w) \/ Claim(w) \/ Dispatch(w) \/ LeaseEnds(w)

\* The steps that do not ask leave the child and the session of other wakes alone.
LEMMA OthersKeepTheirs ==
  ASSUME TypeOK, NEW w \in Wakes, Quiet(w), NEW v \in Wakes \ {w}
  PROVE  /\ child'[v] = child[v] /\ session'[v] = session[v]
         /\ v \in doubted' <=> v \in doubted
<1> USE DEF TypeOK, work, children
<1>1. child' = child \/ child' = [child EXCEPT ![w] = "running"] \/ child' = [child EXCEPT ![w] = "ended"]
  BY DEF Quiet, Run, Park, Close, Refuses, Wait, Request, Send, Follow, Interrupt, Spawn, Kill,
         ChildEnds, Open, Delete, SessionExits, Submit, Claim, Dispatch, LeaseEnds
<1>2. doubted' = doubted \/ doubted' = doubted \cup {w}
  BY DEF Quiet, Run, Park, Close, Refuses, Wait, Request, Send, Follow, Interrupt, Spawn, Kill,
         ChildEnds, Open, Delete, SessionExits, Submit, Claim, Dispatch, LeaseEnds
<1>3. session' = session \/ \E s : session' = [session EXCEPT ![w] = s]
  <2>1. CASE Open(w) \/ Delete(w) \/ SessionExits(w) \/ Interrupt(w)
    BY <2>1 DEF Open, Delete, SessionExits, Interrupt, MayBeUnnamed, AsksToDelete
  <2>2. CASE ~(Open(w) \/ Delete(w) \/ SessionExits(w) \/ Interrupt(w))
    BY <2>2 DEF Quiet, Run, Park, Close, Refuses, Wait, Request, Send, Follow, Spawn, Kill,
                ChildEnds, Submit, Claim, Dispatch, LeaseEnds
  <2> QED BY <2>1, <2>2
<1> QED BY <1>1, <1>2, <1>3

\* Every step is of one of these kinds.
LEMMA StepKinds ==
  ASSUME [Next]_vars
  PROVE  \/ \E w \in Wakes : Quiet(w)
         \/ \E w \in Wakes : \E act \in {"wake", "park"} : Asks(w, act)
         \/ Take \/ Act \/ Dies
         \/ UNCHANGED <<job, at, said, state, child, session, files, agent>>
<1>1. CASE \E w \in Wakes : Step(w) \/ Drains(w) \/ Interrupt(w) \/ ChildEnds(w) \/ SessionExits(w) \/ LeaseEnds(w)
  BY <1>1 DEF Step, Drains, Quiet
<1>2. CASE Outside
  BY <1>2 DEF Outside, PeerClaims, PeerEnds, plane, children
<1>3. CASE UNCHANGED vars
  BY <1>3 DEF vars, children
<1> QED BY <1>1, <1>2, <1>3 DEF Next

\* A request stays in one place.
LEMMA PlaneStep == TypeOK /\ PlaneInv /\ AskInv /\ [Next]_vars => PlaneInv'
<1> SUFFICES ASSUME TypeOK, PlaneInv, AskInv, [Next]_vars PROVE PlaneInv'
  OBVIOUS
<1> USE NobodyAssumption DEF TypeOK, PlaneInv
<1>1. CASE \E w \in Wakes : Quiet(w)
  <2>1. UNCHANGED <<files, agent>>
    BY <1>1, PlaneFrame DEF Quiet
  <2> QED BY <2>1
<1>2. ASSUME NEW w \in Wakes, NEW act \in {"wake", "park"}, Asks(w, act) PROVE PlaneInv'
  <2>1. CASE Ask(w, act)
    <3>1. Unasked(<<w, act>>) /\ <<w, act>> \in Requests
      BY <2>1 DEF Ask, AskInv, Requests
    <3>2. files' = [files EXCEPT !.requests = @ \cup {<<w, act>>}] /\ agent' = agent
      BY <2>1 DEF Ask
    <3> QED BY <3>1, <3>2 DEF Unasked
  <2>2. CASE Refused(w, act) \/ Answer(w, act) \/ GiveUp(w, act)
    <3>1. UNCHANGED <<files, agent>>
      BY <2>2 DEF Refused, Answer, GiveUp, plane
    <3> QED BY <3>1
  <2>3. CASE Withdraw(w, act)
    <3>1. files' \in {files, [files EXCEPT !.requests = @ \ {<<w, act>>}]} /\ agent' = agent
      BY <2>3 DEF Withdraw
    <3> QED BY <3>1
  <2> QED BY <1>2, <2>1, <2>2, <2>3 DEF Asks
<1>3. CASE Take
  BY <1>3 DEF Take
<1>4. CASE Act
  BY <1>4 DEF Act
<1>5. CASE Dies
  BY <1>5 DEF Dies
<1>6. CASE UNCHANGED <<job, at, said, state, child, session, files, agent>>
  BY <1>6
<1> QED BY <1>1, <1>2, <1>3, <1>4, <1>5, <1>6, StepKinds

\* A withdrawn request stays withdrawn: it is not on the plane again, and
\* what the agent takes, answers or drops is another one.
LEMMA WithdrawStep ==
  TypeOK /\ PlaneInv /\ AskInv /\ WithdrawnIsNeverServed /\ [Next]_vars => WithdrawnIsNeverServed'
<1> SUFFICES ASSUME TypeOK, PlaneInv, AskInv, WithdrawnIsNeverServed, [Next]_vars
             PROVE  WithdrawnIsNeverServed'
  OBVIOUS
<1> USE NobodyAssumption DEF TypeOK, PlaneInv, WithdrawnIsNeverServed
<1>1. CASE \E w \in Wakes : Quiet(w)
  <2>1. UNCHANGED <<said, files, agent>>
    BY <1>1, PlaneFrame DEF Quiet
  <2> QED BY <2>1
<1>2. ASSUME NEW w \in Wakes, NEW act \in {"wake", "park"}, Asks(w, act)
      PROVE  WithdrawnIsNeverServed'
  <2>0. <<w, act>> \in Requests
    BY DEF Requests
  <2>1. CASE Ask(w, act)
    <3>1. said[<<w, act>>] # "withdrawn"
      BY <2>1 DEF Ask, AskInv, Asking
    <3>2. files' = [files EXCEPT !.requests = @ \cup {<<w, act>>}] /\ UNCHANGED <<agent, said>>
      BY <2>1 DEF Ask
    <3> QED BY <3>1, <3>2
  <2>2. CASE Refused(w, act) \/ Answer(w, act) \/ GiveUp(w, act)
    <3>1. /\ UNCHANGED <<files, agent>>
          /\ \A r \in Requests : said'[r] = said[r] \/ said'[r] # "withdrawn"
      BY <2>0, <2>2 DEF Refused, Answer, GiveUp, plane, Answered
    <3> QED BY <3>1
  <2>3. CASE Withdraw(w, act)
    <3>1. CASE /\ files' = [files EXCEPT !.requests = @ \ {<<w, act>>}]
               /\ <<w, act>> \in files.requests
      <4>1. said' \in [Requests -> Verdicts] /\ agent' = agent
            /\ \A r \in Requests \ {<<w, act>>} : said'[r] = said[r]
        BY <2>0, <2>3, <3>1 DEF Withdraw, Answered, Verdicts
      <4> QED BY <3>1, <4>1
    <3>2. CASE files' = files /\ \A r \in Requests : said'[r] = said[r] \/ said'[r] # "withdrawn"
      BY <2>3, <3>2 DEF Withdraw
    <3> QED BY <2>0, <2>3, <3>1, <3>2 DEF Withdraw, Answered
  <2> QED BY <1>2, <2>1, <2>2, <2>3 DEF Asks
<1>3. CASE Take
  BY <1>3 DEF Take
<1>4. CASE Act
  BY <1>4 DEF Act
<1>5. CASE Dies
  BY <1>5 DEF Dies
<1>6. CASE UNCHANGED <<job, at, said, state, child, session, files, agent>>
  BY <1>6
<1> QED BY <1>1, <1>2, <1>3, <1>4, <1>5, <1>6, StepKinds

\* A wake asks for each act once.
LEMMA AskStep == TypeOK /\ PlaneInv /\ AskInv /\ [Next]_vars => AskInv'
<1> SUFFICES ASSUME TypeOK, PlaneInv, AskInv, [Next]_vars PROVE AskInv'
  OBVIOUS
<1> DEFINE Asked(v) ==
      /\ at[v] = "run" => said[<<v, "wake">>] = "none"
      /\ at[v] = "park" => said[<<v, "wake">>] = "ok"
      /\ at[v] \notin {"close", "over"} => said[<<v, "park">>] = "none"
      /\ at[v] \in {"run", "ask"} => Unasked(<<v, Asking(v)>>)
      /\ at[v] \notin {"close", "over"} /\ ~(at[v] \in {"wait", "withdraw"} /\ Asking(v) = "park")
           => Unasked(<<v, "park">>)
<1>a. \A v \in Wakes : Asked(v)
  BY DEF AskInv
<1>b. \A v \in Wakes : <<v, "wake">> \in Requests /\ <<v, "park">> \in Requests
  BY DEF Requests
<1> SUFFICES ASSUME NEW v \in Wakes PROVE Asked(v)'
  BY DEF AskInv
<1>1. ASSUME NEW w \in Wakes, Quiet(w) PROVE Asked(v)'
  <2>1. UNCHANGED <<said, files, agent>>
    BY <1>1, PlaneFrame DEF Quiet
  <2>2. Asking(v)' = Asking(v) /\ Unasked(<<v, Asking(v)>>)' = Unasked(<<v, Asking(v)>>)
        /\ Unasked(<<v, "park">>)' = Unasked(<<v, "park">>)
    BY <2>1 DEF Asking, Unasked
  <2>3. CASE v # w
    <3>1. at'[v] = at[v]
      BY <1>1, <2>3, PlaceFrame DEF Quiet
    <3> QED BY <1>a, <2>1, <2>2, <3>1
  <2>4. CASE v = w
    <3>1. /\ at'[w] # "run" \/ at'[w] = at[w]
          /\ at'[w] = "ask" => at[w] \in {"run", "ask", "park"}
          /\ at'[w] = "park" => at[w] = "park" \/ said[<<w, "wake">>] = "ok"
          /\ at'[w] \in {"wait", "withdraw"} => at'[w] = at[w]
          /\ at[w] \in {"close", "over"} => at'[w] \in {"close", "over"}
          /\ at[w] \in {"wait", "withdraw"} => at'[w] \in {at[w], "over"}
      BY <1>1, PlaceFrame DEF Quiet
    <3>2. at[w] = "park" => Asking(w) = "park"
      BY <1>a DEF Asking
    <3> QED BY <1>a, <2>1, <2>2, <2>4, <3>1, <3>2
  <2> QED BY <2>3, <2>4
<1>2. ASSUME NEW w \in Wakes, NEW act \in {"wake", "park"}, Asks(w, act) PROVE Asked(v)'
  <2>1. act = Asking(w) /\ at[w] \in {"ask", "wait", "withdraw"}
    BY <1>2 DEF Asks, Refused, Ask, Answer, GiveUp, Withdraw
  <2>2. \A r \in Requests : r # <<w, act>> /\ Unasked(r) => Unasked(r)'
    <3>1. agent' = agent /\ files' \in {files, [files EXCEPT !.requests = @ \cup {<<w, act>>}],
                                        [files EXCEPT !.requests = @ \ {<<w, act>>}]}
      BY <1>2 DEF Asks, Refused, Ask, Answer, GiveUp, Withdraw, plane
    <3> QED BY <3>1 DEF Unasked, TypeOK
  <2>3. /\ \A u \in Wakes \ {w} : at'[u] = at[u]
        /\ \A r \in Requests \ {<<w, act>>} : said'[r] = said[r]
    BY <1>2 DEF Asks, Refused, Ask, Answer, GiveUp, Withdraw, Answered, AfterWake, Goto, TypeOK
  <2>4. \/ at'[w] \in {"work", "close"} /\ (act = "park" => at'[w] = "close")
        \/ at'[w] \in {"wait", "withdraw"} /\ said' = said
    BY <1>2 DEF Asks, Refused, Ask, Answer, GiveUp, Withdraw, Answered, AfterWake, Goto, TypeOK
  <2>5. CASE v # w
    <3>1. <<v, "wake">> # <<w, act>> /\ <<v, "park">> # <<w, act>>
      BY <2>5
    <3>2. at'[v] = at[v] /\ said'[<<v, "wake">>] = said[<<v, "wake">>]
          /\ said'[<<v, "park">>] = said[<<v, "park">>]
      BY <1>b, <2>3, <2>5, <3>1
    <3>3. Asking(v)' = Asking(v)
      BY <3>2 DEF Asking
    <3>4. <<v, Asking(v)>> # <<w, act>> /\ <<v, Asking(v)>> \in Requests
      BY <1>b, <3>1, AskingAct
    <3> QED BY <1>a, <1>b, <2>2, <3>1, <3>2, <3>3, <3>4
  <2>6. CASE v = w /\ act = "park"
    <3>1. \/ at'[w] = "close"
          \/ at'[w] \in {"wait", "withdraw"} /\ said' = said
      BY <2>4, <2>6
    <3>2. said' = said => Asking(w)' = "park"
      BY <2>1, <2>6 DEF Asking
    <3> QED BY <1>a, <2>1, <2>6, <3>1, <3>2
  <2>7. CASE v = w /\ act = "wake"
    <3>1. Unasked(<<w, "park">>) /\ said[<<w, "park">>] = "none"
      BY <1>a, <2>1, <2>7
    <3>2. Unasked(<<w, "park">>)' /\ said'[<<w, "park">>] = "none"
      BY <1>b, <2>2, <2>3, <2>7, <3>1
    <3> QED BY <2>4, <2>7, <3>2
  <2> QED BY <2>5, <2>6, <2>7
<1>3. CASE Take \/ Act \/ Dies
  <2>1. UNCHANGED <<at, said>>
    BY <1>3 DEF Take, Act, Dies
  <2>2. \A r \in Requests : Unasked(r) => Unasked(r)'
    BY <1>3, NobodyAssumption DEF Take, Act, Dies, Unasked, TypeOK
  <2>3. Asking(v)' = Asking(v) /\ <<v, Asking(v)>> \in Requests
    BY <1>b, <2>1, AskingAct DEF Asking
  <2> QED BY <1>a, <1>b, <2>1, <2>2, <2>3
<1>4. CASE UNCHANGED <<job, at, said, state, child, session, files, agent>>
  <2>1. UNCHANGED <<at, said>> /\ Asking(v)' = Asking(v)
        /\ Unasked(<<v, Asking(v)>>)' = Unasked(<<v, Asking(v)>>)
        /\ Unasked(<<v, "park">>)' = Unasked(<<v, "park">>)
    BY <1>4 DEF Asking, Unasked
  <2> QED BY <1>a, <2>1
<1> QED BY <1>1, <1>2, <1>3, <1>4, StepKinds

\* A job whose unit is required and did not come up stays short of its
\* executor, and what it would have started stays unstarted.
LEMMA FailStep == TypeOK /\ FailInv /\ [Next]_vars => FailInv'
<1> SUFFICES ASSUME TypeOK, FailInv, [Next]_vars PROVE FailInv'
  OBVIOUS
<1> USE DEF TypeOK
<1> DEFINE Short(v) ==
      job[v].required /\ said[<<v, "wake">>] # "ok" =>
        at[v] \in {"run", "ask", "wait", "withdraw", "close", "over"} /\ NothingStarted(v)
<1>a. \A v \in Wakes : Short(v)
  BY DEF FailInv
<1> SUFFICES ASSUME NEW v \in Wakes PROVE Short(v)'
  BY DEF FailInv
<1>b. v \in Items /\ <<v, "wake">> \in Requests /\ Sound(job[v])
  BY JobsAreSound DEF Items, Requests
<1>1. ASSUME NEW w \in Wakes, Quiet(w) PROVE Short(v)'
  <2>1. UNCHANGED <<job, said>>
    BY <1>1, PlaneFrame DEF Quiet
  <2>2. CASE v # w
    <3>1. at'[v] = at[v]
      <4> HIDE DEF TypeOK
      <4> QED BY <1>1, <2>2, PlaceFrame DEF Quiet
    <3>2. child'[v] = child[v] /\ session'[v] = session[v]
      BY <1>1, <2>2, OthersKeepTheirs
    <3>3. item[v].at = "absent" => item'[v].at = "absent"
      <4>1. CASE Submit(w) \/ Claim(w) \/ Dispatch(w) \/ LeaseEnds(w)
        BY <1>b, <2>2, <4>1 DEF Submit, Claim, Dispatch, LeaseEnds, Offered, Claimed
      <4>2. CASE item' = item
        BY <4>2
      <4> QED BY <1>1, <4>1, <4>2 DEF Quiet, Run, Park, Close, Refuses, Wait, Request, Send, Follow,
                 Interrupt, Spawn, Kill, ChildEnds, Open, Delete, SessionExits, work, children
    <3> QED BY <1>a, <2>1, <3>1, <3>2, <3>3 DEF NothingStarted
  <2>3. CASE v = w /\ job[w].required /\ said[<<w, "wake">>] # "ok"
    <3>1. at[w] \in {"run", "ask", "wait", "withdraw", "close", "over"} /\ NothingStarted(w)
      BY <1>a, <2>3
    <3>2. \/ Run(w) \/ Close(w) \/ Interrupt(w)
          \/ at' = at /\ child' = child /\ session' = session /\ item'[w].at = "absent"
      <4>1. ~(Park(w) \/ Refuses(w) \/ Wait(w) \/ Request(w) \/ Send(w) \/ Follow(w))
        BY <3>1 DEF Park, Refuses, Wait, Request, Send, Follow
      <4>2. ~(Spawn(w) \/ Kill(w) \/ Open(w) \/ Delete(w) \/ Submit(w) \/ Claim(w) \/ Dispatch(w))
        BY <3>1 DEF Spawn, Kill, Open, Delete, Submit, Claim, Dispatch
      <4>3. ~(ChildEnds(w) \/ SessionExits(w))
        BY <3>1 DEF ChildEnds, SessionExits, NothingStarted, Live
      <4>4. LeaseEnds(w) => /\ at' = at /\ child' = child /\ session' = session
                            /\ item'[w].at = "absent"
        BY <3>1, <1>b, <2>3 DEF LeaseEnds, Claimed, NothingStarted, children
      <4> QED BY <1>1, <4>1, <4>2, <4>3, <4>4 DEF Quiet
    <3>3. ASSUME Run(w) \/ Close(w) \/ Interrupt(w)
          PROVE  at'[w] \in {"ask", "over"} /\ UNCHANGED <<child, session, item>>
      BY <1>b, <2>3, <3>1, <3>3 DEF Run, Close, Interrupt, Goto, Sound, work, children
    <3> QED BY <2>1, <2>3, <3>1, <3>2, <3>3 DEF NothingStarted
  <2> QED BY <2>1, <2>2, <2>3
<1>2. ASSUME NEW w \in Wakes, NEW act \in {"wake", "park"}, Asks(w, act) PROVE Short(v)'
  <2>1. UNCHANGED <<job, child, session, item>>
    BY <1>2 DEF Asks, Refused, Ask, Answer, GiveUp, Withdraw, plane, work, children
  <2>2. NothingStarted(v)' = NothingStarted(v)
    BY <2>1 DEF NothingStarted
  <2>3. CASE v # w
    <3>1. at'[v] = at[v] /\ said'[<<v, "wake">>] = said[<<v, "wake">>]
      BY <1>2, <1>b, <2>3
         DEF Asks, Refused, Ask, Answer, GiveUp, Withdraw, Answered, AfterWake, Goto
    <3> QED BY <1>a, <2>1, <2>2, <3>1
  <2>4. CASE v = w
    <3>1. CASE Ask(w, act) \/ GiveUp(w, act)
      <4>1. said' = said /\ at'[w] \in {"wait", "withdraw"}
        BY <3>1 DEF Ask, GiveUp, Goto
      <4> QED BY <1>a, <2>1, <2>2, <2>4, <4>1
    <3>2. ASSUME NEW verdict, Answered(w, act, verdict), act = Asking(w) PROVE Short(v)'
      <4>1. CASE act = "park"
        <5>1. at'[w] = "close" /\ said'[<<w, "wake">>] = said[<<w, "wake">>]
          BY <1>b, <2>4, <3>2, <4>1 DEF Answered, Goto
        <5> QED BY <1>a, <2>1, <2>2, <2>4, <5>1
      <4>2. CASE act = "wake"
        <5>1. said'[<<w, "wake">>] = verdict
              /\ (verdict = "ok" \/ ~job[w].required \/ at'[w] = "close")
          BY <1>b, <2>4, <3>2, <4>2 DEF Answered, AfterWake, Goto
        <5>2. said[<<w, "wake">>] = "none"
          BY <3>2, <4>2 DEF Asking
        <5> QED BY <1>a, <2>1, <2>2, <2>4, <5>1, <5>2
      <4> QED BY <4>1, <4>2
    <3> QED BY <1>2, <3>1, <3>2 DEF Asks, Refused, Answer, Withdraw
  <2> QED BY <2>3, <2>4
<1>3. CASE Take \/ Act \/ Dies
  <2>1. UNCHANGED <<job, at, said, child, session, item>>
    BY <1>3 DEF Take, Act, Dies, work, children
  <2> QED BY <1>a, <2>1 DEF NothingStarted
<1>4. CASE UNCHANGED vars
  BY <1>a, <1>4 DEF vars, children, NothingStarted
<1>5. ASSUME NEW i \in Items, PeerClaims(i) \/ PeerEnds(i) PROVE Short(v)'
  <2>1. UNCHANGED <<job, at, said, child, session>>
    BY <1>5 DEF PeerClaims, PeerEnds, children
  <2>2. item[v].at = "absent" => item'[v].at = "absent"
    BY <1>b, <1>5 DEF PeerClaims, PeerEnds, Claimed
  <2> QED BY <1>a, <2>1, <2>2 DEF NothingStarted
<1> QED BY <1>1, <1>2, <1>3, <1>4, <1>5 DEF Next, Step, Drains, Outside, Quiet

\* Nobody claims the item of another wake.
LEMMA ByStep == TypeOK /\ ByInv /\ [Next]_vars => ByInv'
<1> SUFFICES ASSUME TypeOK, ByInv, [Next]_vars, NEW i \in Items, item'[i].by \in Wakes
             PROVE  item'[i].by = i
  BY DEF ByInv
<1> USE DEF ByInv, work, children
<1>t. item \in [Items -> [at : {"absent", "queued", "claimed", "done", "failed"},
                         by : Wakes \cup {Peer, Nobody}]]
  BY DEF TypeOK
<1>1. ASSUME NEW j \in Items, NEW place, item' = [item EXCEPT ![j].at = place]
      PROVE  item'[i].by = i
  BY <1>1, <1>t
<1>2. ASSUME NEW w \in Wakes, item' = [item EXCEPT ![w] = [at |-> "claimed", by |-> w]]
      PROVE  item'[i].by = i
  BY <1>2, <1>t
<1>3. CASE item' = item
  BY <1>3
<1>4. ASSUME NEW w \in Wakes, Submit(w) \/ Claim(w) \/ Dispatch(w) \/ LeaseEnds(w)
      PROVE  item'[i].by = i
  <2>1. w \in Items
    BY DEF Items
  <2>2. \/ \E j \in Items : \E place : item' = [item EXCEPT ![j].at = place]
        \/ item' = [item EXCEPT ![w] = [at |-> "claimed", by |-> w]]
        \/ item' = item
    BY <1>4, <2>1 DEF Submit, Claim, Dispatch, LeaseEnds, Offered
  <2> QED BY <1>1, <1>2, <1>3, <2>2
<1>5. ASSUME NEW j \in Items, PeerClaims(j) \/ PeerEnds(j) PROVE item'[i].by = i
  <2>1. CASE PeerClaims(j)
    BY <1>t, <2>1, WakeAssumption DEF PeerClaims
  <2>2. CASE PeerEnds(j)
    BY <1>1, <2>2 DEF PeerEnds
  <2> QED BY <1>5, <2>1, <2>2
<1>6. ASSUME NEW w \in Wakes, Quiet(w), ~(Submit(w) \/ Claim(w) \/ Dispatch(w) \/ LeaseEnds(w))
      PROVE  item' = item
  BY <1>6 DEF Quiet, Run, Park, Close, Refuses, Wait, Request, Send, Follow, Interrupt, Spawn, Kill,
              ChildEnds, Open, Delete, SessionExits
<1>7. ASSUME NEW w \in Wakes, NEW act \in {"wake", "park"}, Asks(w, act) PROVE item' = item
  BY <1>7 DEF Asks, Refused, Ask, Answer, GiveUp, Withdraw
<1>8. CASE Take \/ Act \/ Dies \/ UNCHANGED vars
  BY <1>3, <1>8 DEF Take, Act, Dies, vars, children
<1> QED BY <1>3, <1>4, <1>5, <1>6, <1>7, <1>8 DEF Next, Step, Drains, Outside, Quiet

\* What a step of the wake itself is.
Acts(w) == Step(w) \/ Drains(w) \/ Interrupt(w) \/ ChildEnds(w) \/ SessionExits(w)

\* Nothing of the wake changes, but perhaps its item, which somebody else has.
Still(w) ==
  /\ at'[w] = at[w] /\ state'[w] = state[w] /\ child'[w] = child[w] /\ session'[w] = session[w]
  /\ (w \in doubted' <=> w \in doubted)
  /\ said'[<<w, "wake">>] = said[<<w, "wake">>] /\ said'[<<w, "park">>] = said[<<w, "park">>]
  /\ item'[w] = item[w] \/ (item[w].at \in {"queued", "claimed"} /\ item'[w].at # "absent")

\* A step is the wake's own, or leaves it still.
LEMMA OwnOrStill ==
  ASSUME TypeOK, ByInv, [Next]_vars, NEW v \in Wakes
  PROVE  job' = job /\ (Acts(v) \/ Still(v))
<1> USE DEF TypeOK, work, children, plane
<1>b. v \in Items /\ <<v, "wake">> \in Requests /\ <<v, "park">> \in Requests
  BY DEF Items, Requests
<1>1. ASSUME NEW w \in Wakes, Quiet(w), w # v PROVE job' = job /\ Still(v)
  <2>1. job' = job /\ said' = said
    BY <1>1, PlaneFrame DEF Quiet
  <2>2. at'[v] = at[v]
    <3> HIDE DEF TypeOK
    <3> QED BY <1>1, PlaceFrame DEF Quiet
  <2>3. state'[v] = state[v]
    BY <1>1 DEF Quiet, Run, Park, Close, Refuses, Wait, Request, Send, Follow, Interrupt, Spawn, Kill,
                ChildEnds, Open, Delete, SessionExits, Submit, Claim, Dispatch, LeaseEnds, Returns, Raises
  <2>4. child'[v] = child[v] /\ session'[v] = session[v] /\ (v \in doubted' <=> v \in doubted)
    BY <1>1, OthersKeepTheirs
  <2>5. item'[v] = item[v]
    <3>1. CASE Submit(w) \/ Claim(w)
      BY <1>1, <1>b, <3>1 DEF Submit, Claim, Offered
    <3>2. CASE Dispatch(w) \/ LeaseEnds(w)
      <4>1. item' = item \/ \E i \in Items : item[i].by = w /\ \E place : item' = [item EXCEPT ![i].at = place]
        BY <3>2, ZenonT(40) DEF Dispatch, LeaseEnds, Claimed
      <4> QED BY <1>1, <1>b, <4>1 DEF ByInv
    <3>3. CASE item' = item
      BY <3>3
    <3> QED BY <1>1, <3>1, <3>2, <3>3 DEF Quiet, Run, Park, Close, Refuses, Wait, Request, Send, Follow,
               Interrupt, Spawn, Kill, ChildEnds, Open, Delete, SessionExits
  <2> QED BY <2>1, <2>2, <2>3, <2>4, <2>5 DEF Still
<1>2. ASSUME NEW w \in Wakes, NEW act \in {"wake", "park"}, Asks(w, act), w # v
      PROVE  job' = job /\ Still(v)
  <2>1. UNCHANGED <<job, children, session, item>>
    BY <1>2 DEF Asks, Refused, Ask, Answer, GiveUp, Withdraw
  <2>2. at'[v] = at[v] /\ state'[v] = state[v]
    BY <1>2 DEF Asks, Refused, Ask, Answer, GiveUp, Withdraw, Answered, AfterWake, Goto
  <2>3. said'[<<v, "wake">>] = said[<<v, "wake">>] /\ said'[<<v, "park">>] = said[<<v, "park">>]
    BY <1>2, <1>b DEF Asks, Refused, Ask, Answer, GiveUp, Withdraw, Answered
  <2> QED BY <2>1, <2>2, <2>3 DEF Still
<1>3. CASE Take \/ Act \/ Dies \/ UNCHANGED vars
  BY <1>3 DEF Take, Act, Dies, vars, children, Still
<1>4. ASSUME NEW i \in Items, PeerClaims(i) \/ PeerEnds(i) PROVE job' = job /\ Still(v)
  <2>1. UNCHANGED <<job, at, said, state, children, session>>
    BY <1>4 DEF PeerClaims, PeerEnds
  <2>2. CASE PeerClaims(i)
    BY <1>b, <2>1, <2>2 DEF PeerClaims, Still
  <2>3. CASE PeerEnds(i)
    <3>1. item[i].at = "claimed" /\ \E status \in {"done", "failed", "queued"} : item' = [item EXCEPT ![i].at = status]
      BY <2>3 DEF PeerEnds, Claimed
    <3> QED BY <1>b, <2>1, <3>1 DEF Still
  <2> QED BY <1>4, <2>2, <2>3
<1>5. CASE LeaseEnds(v)
  <2>1. UNCHANGED <<job, at, said, state, children, session>>
    BY <1>5 DEF LeaseEnds
  <2>2. PICK i \in Items : item[i].at = "claimed" /\ item' = [item EXCEPT ![i].at = "queued"]
    BY <1>5 DEF LeaseEnds, Claimed
  <2> QED BY <1>b, <2>1, <2>2 DEF Still
<1>6. ASSUME NEW w \in Wakes, Step(w) \/ Drains(w) \/ Interrupt(w) \/ ChildEnds(w) \/ SessionExits(w) \/ LeaseEnds(w)
      PROVE  Quiet(w) \/ \E act \in {"wake", "park"} : Asks(w, act)
  BY <1>6 DEF Step, Drains, Quiet
<1>7. Acts(v) => job' = job
  <2>1. Quiet(v) => job' = job
    BY PlaneFrame DEF Quiet
  <2>2. \A act \in {"wake", "park"} : Asks(v, act) => job' = job
    BY DEF Asks, Refused, Ask, Answer, GiveUp, Withdraw
  <2> QED BY <1>6, <2>1, <2>2 DEF Acts
<1> QED
  <2> HIDE DEF TypeOK
  <2>1. ASSUME NEW w \in Wakes, Step(w) \/ Drains(w) \/ Interrupt(w) \/ ChildEnds(w) \/ SessionExits(w) \/ LeaseEnds(w), w # v
        PROVE  job' = job /\ Still(v)
    BY <1>1, <1>2, <1>6, <2>1
  <2>2. ASSUME Step(v) \/ Drains(v) \/ Interrupt(v) \/ ChildEnds(v) \/ SessionExits(v) \/ LeaseEnds(v)
        PROVE  job' = job /\ (Acts(v) \/ Still(v))
    BY <1>5, <1>7, <2>2 DEF Acts, LeaseEnds
  <2> QED BY <1>3, <1>4, <2>1, <2>2 DEF Next, Outside

\* A wake that stands still keeps what is true of its work.
LEMMA OneStill ==
  ASSUME NEW v \in Wakes, OneInv(v), Still(v), job' = job
  PROVE  OneInv(v)'
<1>1. CASE item'[v] = item[v]
  BY <1>1 DEF Still, OneInv, KindInv, LeftInv, DrainInv, ParkInv, Before, Settled, OutUnawares,
                     WorkIsOut, NothingStarted
<1>2. CASE item[v].at \in {"queued", "claimed"} /\ item'[v].at # "absent"
  <2>1. ~Before(v) /\ ~Before(v)' /\ WorkIsOut(v)
    BY <1>2 DEF Still, OneInv, KindInv, Before, NothingStarted, WorkIsOut
  <2>2. KindInv(v)' /\ LeftInv(v)'
    BY <1>2, <2>1 DEF Still, OneInv, KindInv, LeftInv
  <2>3. ~(job[v].kind = "queue" /\ state[v] \in {"success", "failure"})
    BY <1>2 DEF OneInv, DrainInv
  <2>4. DrainInv(v)' /\ ParkInv(v)'
    BY <2>1, <2>3, SMTT(30) DEF Still, OneInv, DrainInv, ParkInv, Settled, OutUnawares
  <2> QED BY <2>2, <2>4 DEF OneInv
<1> QED BY <1>1, <1>2 DEF Still

\* So does one that its own process or child takes a step for.
LEMMA OneActs ==
  ASSUME TypeOK, AskInv, ByInv, NEW v \in Wakes, OneInv(v), Acts(v), job' = job
  PROVE  OneInv(v)'
<1> USE DEF OneInv, KindInv, LeftInv, DrainInv, ParkInv, Before, Past, Settled, OutUnawares, WorkIsOut, Live,
            NothingStarted, Unfinished
<1>a. Sound(job[v]) /\ job[v] \in Jobs
  BY JobsAreSound
<1>b. /\ v \in Items /\ <<v, "wake">> \in Requests /\ <<v, "park">> \in Requests
      /\ at \in [Wakes -> {"run", "ask", "wait", "withdraw", "work", "child", "claim", "dispatch",
                           "send", "follow", "delete", "park", "close", "over"}]
      /\ state \in [Wakes -> Ends \cup {"none", "interrupted"}]
      /\ said \in [Requests -> Verdicts]
      /\ child \in [Wakes -> {"none", "running", "ended"}]
      /\ session \in [Wakes -> {"none", "open", "unnamed", "undeleted", "gone"}]
      /\ item \in [Items -> [at : {"absent", "queued", "claimed", "done", "failed"},
                             by : Wakes \cup {Peer, Nobody}]]
  BY DEF TypeOK, Items, Requests
<1>r. /\ at[v] = "run" => said[<<v, "wake">>] = "none"
      /\ at[v] = "park" => said[<<v, "wake">>] = "ok"
  BY DEF AskInv
<1> USE DEF work, children
<1> DEFINE Same == /\ child'[v] = child[v] /\ session'[v] = session[v] /\ item'[v] = item[v]
                   /\ said'[<<v, "wake">>] = said[<<v, "wake">>] /\ doubted' = doubted
<1>1. CASE Run(v)
  <2>1. Same /\ state'[v] = state[v] /\ at'[v] \in {"ask", "work"}
    BY <1>b, <1>1 DEF Run, Goto
  <2> QED BY <1>a, <1>b, <1>r, <1>1, <2>1 DEF Run
<1>2. CASE Park(v)
  <2>1. /\ Same /\ state'[v] = state[v]
        /\ at'[v] = IF ParkWanted(v) THEN "ask" ELSE "close"
    BY <1>b, <1>2 DEF Park, Goto
  <2> QED BY <1>a, <1>b, <1>r, <1>2, <2>1 DEF Park, ParkWanted, Sound
<1>3. CASE Close(v)
  <2>1. Same /\ state'[v] = state[v] /\ at'[v] = "over"
    BY <1>b, <1>3 DEF Close, Goto
  <2> QED BY <1>a, <1>b, <1>3, <2>1 DEF Close
<1>4. ASSUME NEW act \in {"wake", "park"}, Ask(v, act) \/ GiveUp(v, act) PROVE OneInv(v)'
  <2>1. Same /\ state'[v] = state[v] /\ at'[v] \in {"wait", "withdraw"} /\ at[v] \in {"ask", "wait"}
    BY <1>b, <1>4 DEF Ask, GiveUp, Goto
  <2> QED BY <1>a, <1>b, <2>1
<1>5. ASSUME NEW act \in {"wake", "park"}, Refused(v, act) \/ Answer(v, act) \/ Withdraw(v, act)
      PROVE OneInv(v)'
  <2>1. PICK verdict : verdict # "none" /\ Answered(v, act, verdict)
    <3>1. CASE Refused(v, act)
      BY <3>1 DEF Refused
    <3>2. CASE Answer(v, act)
      BY <3>2 DEF Answer
    <3>3. CASE Withdraw(v, act)
      BY <3>3 DEF Withdraw
    <3> QED BY <1>5, <3>1, <3>2, <3>3
  <2>2. /\ children' = children /\ session'[v] = session[v] /\ item'[v] = item[v]
        /\ at[v] \in {"ask", "wait", "withdraw"} /\ act = Asking(v)
    BY <1>5 DEF Refused, Answer, Withdraw
  <2>3. CASE act = "wake"
    <3>1. /\ said'[<<v, "wake">>] = verdict /\ said[<<v, "wake">>] = "none"
          /\ (at'[v] = "work" /\ state'[v] = state[v]) \/ (at'[v] = "close" /\ state'[v] = "error")
      BY <1>b, <2>1, <2>2, <2>3 DEF Answered, AfterWake, Goto, Asking
    <3> QED BY <1>a, <1>b, <2>1, <2>2, <3>1
  <2>4. CASE act = "park"
    <3>1. said'[<<v, "wake">>] = said[<<v, "wake">>] /\ at'[v] = "close" /\ state'[v] = state[v]
      BY <1>b, <2>1, <2>2, <2>4 DEF Answered, Goto
    <3> QED BY <1>a, <1>b, <2>2, <3>1
  <2> QED BY <2>3, <2>4
<1>6. CASE Refuses(v)
  <2>1. Same /\ state'[v] = "error" /\ at'[v] \in {"park", "close"} /\ at[v] = "work"
    BY <1>b, <1>6 DEF Refuses, Returns, Goto, AfterWork
  <2> QED BY <1>a, <1>b, <2>1
<1>7. CASE Spawn(v)
  <2>1. /\ child'[v] = "running" /\ session'[v] = session[v] /\ item'[v] = item[v] /\ doubted' = doubted
        /\ said' = said /\ at[v] = "work" /\ job[v].kind = "child"
        /\ \/ job[v].detach /\ state'[v] = "detached" /\ at'[v] \in {"park", "close"}
           \/ at'[v] = "child" /\ state'[v] = state[v]
    BY <1>b, <1>7 DEF Spawn, Returns, Goto, AfterWork
  <2> QED BY <1>a, <1>b, <2>1
<1>8. CASE ChildEnds(v)
  <2>1. /\ child'[v] = "ended" /\ session'[v] = session[v] /\ item'[v] = item[v] /\ doubted' = doubted
        /\ said' = said /\ at' = at /\ state' = state /\ child[v] = "running"
    BY <1>b, <1>8 DEF ChildEnds
  <2> QED BY <1>a, <1>b, <2>1
<1>9. CASE Wait(v) \/ Kill(v)
  <2>1. /\ session'[v] = session[v] /\ item'[v] = item[v]
        /\ said' = said /\ at[v] = "child" /\ at'[v] \in {"park", "close"}
    BY <1>b, <1>9 DEF Wait, Kill, Returns, Goto, AfterWork
  <2>2. child'[v] = "ended" \/ (child'[v] \in {"none", "running", "ended"} /\ v \in doubted')
    BY <1>b, <1>9 DEF Wait, Kill
  <2>3. child'[v] # "none" => job[v].kind = "child"
    BY <2>1
  <2> QED BY <1>a, <1>b, <2>1, <2>2, <2>3
<1>10. CASE Request(v)
  <2>1. /\ Same /\ at[v] = "work" /\ job[v].kind = "http" /\ at'[v] \in {"park", "close"}
    BY <1>b, <1>10 DEF Request, Returns, Raises, Goto, AfterWork
  <2> QED BY <1>a, <1>b, <2>1
<1>11. CASE Open(v)
  <2>1. /\ children' = children /\ item'[v] = item[v] /\ said' = said
        /\ at[v] = "work" /\ job[v].kind = "session"
        /\ \/ at'[v] = "send" /\ session'[v] = "open" /\ state' = state
           \/ at'[v] \in {"park", "close"} /\ session'[v] \in {session[v], "unnamed"}
    BY <1>b, <1>11 DEF Open, MayBeUnnamed, Returns, Raises, Goto, AfterWork
  <2> QED BY <1>a, <1>b, <2>1
<1>12. CASE Send(v) \/ Follow(v)
  <2>1. Same /\ at[v] \in {"send", "follow"} /\ at'[v] \in {"follow", "delete"}
    BY <1>b, <1>12 DEF Send, Follow, Goto
  <2> QED BY <1>a, <1>b, <2>1
<1>13. CASE SessionExits(v)
  <2>1. /\ children' = children /\ item' = item /\ said' = said /\ at' = at /\ state' = state
        /\ session[v] # "none" /\ session'[v] = "gone"
    BY <1>b, <1>13 DEF SessionExits
  <2> QED BY <1>a, <1>b, <2>1
<1>14. CASE Delete(v)
  <2>1. /\ children' = children /\ item'[v] = item[v] /\ said' = said /\ state' = state
        /\ at[v] = "delete" /\ session'[v] \in {"gone", "undeleted"} /\ at'[v] \in {"over", "park", "close"}
    BY <1>b, <1>14 DEF Delete, AsksToDelete, Goto, AfterWork
  <2> QED BY <1>a, <1>b, <2>1
<1>15. CASE Submit(v)
  <2>1. /\ children' = children /\ session'[v] = session[v] /\ item'[v].at = "queued" /\ said' = said
        /\ at[v] = "work" /\ job[v].kind = "queue"
        /\ \/ at'[v] = "claim" /\ job[v].drain /\ state' = state
           \/ at'[v] \in {"park", "close"} /\ state'[v] = "queued"
    BY <1>b, <1>15 DEF Submit, Returns, Goto, AfterWork
  <2> QED BY <1>a, <1>b, <2>1
<1>16. CASE Claim(v)
  <2>1. /\ children' = children /\ session'[v] = session[v] /\ said' = said /\ at[v] = "claim"
        /\ \/ /\ item[v].at = "queued" /\ item'[v].at = "claimed"
              /\ at'[v] = "dispatch" /\ state' = state
           \/ /\ item' = item /\ at'[v] \in {"park", "close"} /\ state'[v] \in {"queued", "error"}
    BY <1>b, <1>16 DEF Claim, Offered, Returns, Goto, AfterWork
  <2> QED BY <1>a, <1>b, <2>1 DEF Sound
<1>17. CASE Dispatch(v)
  <2>1. /\ children' = children /\ session'[v] = session[v] /\ said' = said /\ at[v] = "dispatch"
        /\ at'[v] \in {"park", "close"}
    BY <1>b, <1>17 DEF Dispatch, Returns, Goto, AfterWork
  <2>2. CASE state'[v] = "error" /\ item' = item
    BY <1>a, <1>b, <2>1, <2>2 DEF Sound
  <2>3. ASSUME NEW i \in Items, NEW status \in {"done", "failed", "queued"}, Claimed(i, v),
               item' = [item EXCEPT ![i].at = status], state'[v] = DrainEnd(v, i, status)
        PROVE  OneInv(v)'
    <3>1. i = v
      BY <2>3 DEF Claimed, ByInv
    <3>2. item'[v] = [at |-> status, by |-> v]
      BY <1>b, <2>3, <3>1 DEF Claimed
    <3>3. state'[v] = IF status = "queued" THEN "queued" ELSE IF status = "done" THEN "success" ELSE "failure"
      BY <2>3, <3>1 DEF DrainEnd
    <3>4. item[v].at # "absent"
      BY <2>3, <3>1 DEF Claimed
    <3> QED BY <1>a, <1>b, <2>1, <3>2, <3>3, <3>4
  <2> QED BY <1>b, <1>17, <2>2, <2>3 DEF Dispatch, Returns
<1>18. CASE Interrupt(v)
  <2>1. /\ children' = children /\ item' = item /\ said' = said /\ state'[v] = "interrupted"
        /\ at'[v] = IF at[v] \in {"send", "follow"} THEN "delete" ELSE "over"
    BY <1>b, <1>18 DEF Interrupt, Goto
  <2>2. CASE session' = session /\ at[v] \in {"wait", "child", "claim", "dispatch", "send", "follow", "work"}
    BY <1>a, <1>b, <2>1, <2>2
  <2>3. CASE at[v] = "work" /\ job[v].kind = "session" /\ session'[v] = "unnamed"
    BY <1>a, <1>b, <2>1, <2>3
  <2>4. CASE at[v] = "delete" /\ session'[v] \in {"gone", "undeleted"}
    BY <1>a, <1>b, <2>1, <2>4
  <2> QED BY <1>b, <1>18, <2>2, <2>3, <2>4 DEF Interrupt, MayBeUnnamed, AsksToDelete
<1> QED
  BY <1>1, <1>2, <1>3, <1>4, <1>5, <1>6, <1>7, <1>8, <1>9, <1>10, <1>11, <1>12, <1>13, <1>14, <1>15,
     <1>16, <1>17, <1>18 DEF Acts, Step, Drains, Asks

\* A wake past its work stays so, and what it settled stays settled.
LEMMA PastStays ==
  ASSUME TypeOK, AskInv, ByInv, [Next]_vars, NEW v \in Wakes, OneInv(v), Past(v), Settled(v)
  PROVE  Past(v)' /\ Settled(v)'
<1>1. job' = job /\ (Acts(v) \/ Still(v))
  BY OwnOrStill
<1>2. CASE Still(v)
  BY <1>1, <1>2 DEF Still, Past, Settled, OutUnawares, WorkIsOut
<1>3. CASE Acts(v)
  <2>1. at[v] \in {"ask", "wait", "withdraw", "close", "over"} /\ said[<<v, "wake">>] # "none"
    BY DEF Past
  <2>2. /\ at \in [Wakes -> {"run", "ask", "wait", "withdraw", "work", "child", "claim", "dispatch",
                             "send", "follow", "delete", "park", "close", "over"}]
        /\ said \in [Requests -> Verdicts] /\ <<v, "wake">> \in Requests
        /\ state \in [Wakes -> Ends \cup {"none", "interrupted"}]
        /\ child \in [Wakes -> {"none", "running", "ended"}]
    BY DEF TypeOK, Requests
  <2>3. CASE ChildEnds(v)
    BY <1>1, <2>1, <2>2, <2>3 DEF ChildEnds, Past, Settled, OutUnawares, WorkIsOut
  <2>8. CASE SessionExits(v)
    <3>1. /\ UNCHANGED <<at, said, state, children, item>>
          /\ session[v] # "none" /\ session'[v] = "gone"
      BY <2>8 DEF SessionExits, Live, TypeOK
    <3>2. child[v] = "none" /\ item[v].at = "absent"
      BY <3>1 DEF OneInv, KindInv
    <3> QED BY <1>1, <2>1, <3>1, <3>2 DEF Past, Settled, WorkIsOut, Live, children
  <2>4. ~Run(v) /\ ~Park(v) /\ ~Refuses(v) /\ ~Spawn(v) /\ ~Wait(v) /\ ~Kill(v)
        /\ ~Request(v) /\ ~Open(v) /\ ~Send(v) /\ ~Follow(v) /\ ~Delete(v) /\ ~Submit(v) /\ ~Claim(v)
        /\ ~Dispatch(v)
    BY <2>1 DEF Run, Park, Refuses, Spawn, Wait, Kill, Request, Open, Send, Follow, Delete,
               Submit, Claim, Dispatch
  <2>5. CASE Close(v)
    <3>1. UNCHANGED <<said, state, children, session, item>> /\ at'[v] = "over"
      BY <2>2, <2>5 DEF Close, Goto, work, children
    <3> QED BY <1>1, <2>1, <3>1 DEF Past, Settled, OutUnawares, WorkIsOut, children
  <2>6. CASE Interrupt(v)
    <3>1. UNCHANGED <<said, children, session, item>> /\ at'[v] = "over" /\ state'[v] = "interrupted"
      BY <2>1, <2>2, <2>6 DEF Interrupt, Goto, work, children
    <3> QED BY <1>1, <2>1, <3>1 DEF Past, Settled, OutUnawares, WorkIsOut, children
  <2>7. ASSUME NEW act \in {"wake", "park"}, Asks(v, act)
        PROVE  Past(v)' /\ Settled(v)'
    <3>1. act = "park" /\ UNCHANGED <<children, session, item>>
      BY <2>1, <2>7 DEF Asks, Refused, Ask, Answer, GiveUp, Withdraw, Asking, work, children
    <3>2. /\ said'[<<v, "wake">>] = said[<<v, "wake">>] /\ state' = state
          /\ at'[v] \in {"wait", "withdraw", "close"}
      BY <2>2, <2>7, <3>1 DEF Asks, Refused, Ask, Answer, GiveUp, Withdraw, Answered, Goto
    <3> QED BY <1>1, <2>1, <3>1, <3>2 DEF Past, Settled, OutUnawares, WorkIsOut, children
  <2> QED BY <1>3, <2>3, <2>4, <2>5, <2>6, <2>7, <2>8 DEF Acts, Step, Drains
<1> QED BY <1>1, <1>2, <1>3

\* Once another wake may have parked the unit, that stays so.
LEMMA SharedStays ==
  ASSUME TypeOK, ByInv, [Next]_vars, NEW w \in Wakes, Shared(w)
  PROVE  Shared(w)'
<1>1. PICK v \in Wakes \ {w} : job[v].park /\ said[<<v, "wake">>] # "none"
  BY DEF Shared
<1>2. <<v, "wake">> \in Requests /\ said \in [Requests -> Verdicts]
  BY DEF TypeOK, Requests
<1>3. job' = job /\ said'[<<v, "wake">>] # "none"
  <2>1. CASE \E u \in Wakes : Quiet(u)
    BY <1>1, <2>1, PlaneFrame DEF Quiet
  <2>2. ASSUME NEW u \in Wakes, NEW act \in {"wake", "park"}, Asks(u, act)
        PROVE  job' = job /\ said'[<<v, "wake">>] # "none"
    BY <1>1, <1>2, <2>2 DEF Asks, Refused, Ask, Answer, GiveUp, Withdraw, Answered
  <2>3. CASE Take \/ Act \/ Dies \/ UNCHANGED <<job, at, said, state, child, session, files, agent>>
    BY <1>1, <2>3 DEF Take, Act, Dies
  <2> QED BY <2>1, <2>2, <2>3, StepKinds
<1> QED BY <1>1, <1>3 DEF Shared

\* What a step does to a request that is not, or is, on the plane already.
LEMMA ParkRequests ==
  ASSUME TypeOK, [Next]_vars, NEW w \in Wakes, Unasked(<<w, "park">>), ~Unasked(<<w, "park">>)'
  PROVE  at[w] = "ask" /\ Asking(w) = "park"
<1>1. <<w, "park">> \in Requests
  BY DEF Requests
<1>2. CASE \E u \in Wakes : Quiet(u)
  <2>1. UNCHANGED <<files, agent>>
    BY <1>2, PlaneFrame DEF Quiet
  <2> QED BY <2>1 DEF Unasked
<1>3. ASSUME NEW u \in Wakes, NEW act \in {"wake", "park"}, Asks(u, act)
      PROVE  at[w] = "ask" /\ Asking(w) = "park"
  <2>1. CASE Ask(u, act)
    <3>1. files' = [files EXCEPT !.requests = @ \cup {<<u, act>>}] /\ agent' = agent
      BY <2>1 DEF Ask
    <3>2. <<u, act>> = <<w, "park">>
      BY <1>1, <3>1 DEF Unasked, TypeOK
    <3> QED BY <2>1, <3>2 DEF Ask
  <2>2. CASE Refused(u, act) \/ Answer(u, act) \/ GiveUp(u, act) \/ Withdraw(u, act)
    <3>1. agent' = agent /\ files' \in {files, [files EXCEPT !.requests = @ \ {<<u, act>>}]}
      BY <2>2 DEF Refused, Answer, GiveUp, Withdraw, plane
    <3> QED BY <3>1 DEF Unasked, TypeOK
  <2> QED BY <1>3, <2>1, <2>2 DEF Asks
<1>4. CASE Take \/ Act \/ Dies
  BY <1>1, <1>4, NobodyAssumption DEF Take, Act, Dies, Unasked, TypeOK
<1>5. CASE UNCHANGED <<job, at, said, state, child, session, files, agent>>
  BY <1>5 DEF Unasked
<1> QED BY <1>2, <1>3, <1>4, <1>5, StepKinds

\* An answer, once written, stays; a wake knows of no other.
LEMMA AnswersStay ==
  ASSUME TypeOK, [Next]_vars, NEW r \in Requests, said[r] = "ok" => files.results[r] = "ok"
  PROVE  /\ files.results[r] # "none" => files'.results[r] = files.results[r]
         /\ said'[r] = "ok" => files'.results[r] = "ok"
<1> USE DEF TypeOK, plane
<1>1. CASE \E u \in Wakes : Quiet(u)
  <2>1. UNCHANGED <<said, files>>
    BY <1>1, PlaneFrame DEF Quiet
  <2> QED BY <2>1
<1>2. ASSUME NEW u \in Wakes, NEW act \in {"wake", "park"}, Asks(u, act)
      PROVE  files'.results = files.results /\ (said'[r] = "ok" => files.results[r] = "ok")
  <2>1. files'.results = files.results
    BY <1>2 DEF Asks, Refused, Ask, Answer, GiveUp, Withdraw
  <2>2. <<u, act>> \in Requests
    BY DEF Requests
  <2>3. said'[r] = said[r] \/ said'[r] # "ok" \/ (r = <<u, act>> /\ said'[r] = files.results[r])
    BY <1>2, <2>2 DEF Asks, Refused, Ask, Answer, GiveUp, Withdraw, Answered
  <2> QED BY <2>1, <2>3
<1>3. CASE Take \/ Act \/ Dies
  BY <1>3 DEF Take, Act, Dies
<1>4. CASE UNCHANGED <<job, at, said, state, child, session, files, agent>>
  BY <1>4
<1> QED BY <1>1, <1>2, <1>3, <1>4, StepKinds

\* The unit goes down for a park that was asked for, and comes up for a wake.
LEMMA UnitMoves ==
  ASSUME TypeOK, [Next]_vars, NEW w \in Wakes, files'.results[<<w, "wake">>] = "ok", ~up'
  PROVE  \/ files.results[<<w, "wake">>] = "ok" /\ ~up
         \/ \E v \in Wakes : agent = <<v, "park">>
<1>1. <<w, "wake">> \in Requests
  BY DEF Requests
<1>2. CASE \E u \in Wakes : Quiet(u)
  <2>1. files' = files /\ up' = up
    BY <1>2 DEF Quiet, Run, Park, Close, Refuses, Wait, Request, Send, Follow, Interrupt, Spawn, Kill,
                ChildEnds, Open, Delete, SessionExits, Submit, Claim, Dispatch, LeaseEnds, plane
  <2> QED BY <2>1
<1>3. ASSUME NEW u \in Wakes, NEW act \in {"wake", "park"}, Asks(u, act)
      PROVE  files'.results = files.results /\ up' = up
  BY <1>3 DEF Asks, Refused, Ask, Answer, GiveUp, Withdraw, plane, TypeOK
<1>4. CASE Take
  BY <1>4 DEF Take, TypeOK
<1>5. CASE Act \/ Dies
  <2>1. agent \in Requests
    BY <1>5 DEF Act, Dies, TypeOK
  <2>2. PICK v \in Wakes, act \in {"wake", "park"} : agent = <<v, act>>
    BY <2>1 DEF Requests
  <2>3. CASE act = "wake"
    <3>1. \/ up'
          \/ up' = up /\ files'.results[<<w, "wake">>] \in {files.results[<<w, "wake">>], "failed"}
      <4>1. agent[2] = "wake" /\ files \in [requests : SUBSET Requests, results : [Requests -> {"none", "ok", "failed"}]]
        BY <2>2, <2>3 DEF TypeOK
      <4>2. CASE Act
        <5>1. up' \/ (up' = up /\ files' = [files EXCEPT !.results[agent] = "failed"])
          BY <4>1, <4>2, Zenon DEF Act
        <5> QED BY <1>1, <2>1, <4>1, <5>1
      <4>3. CASE Dies
        <5>1. files' = files /\ (up' = up \/ up')
          BY <4>1, <4>3 DEF Dies
        <5> QED BY <1>5, <5>1 DEF TypeOK
      <4> QED BY <1>5, <4>2, <4>3
    <3> QED BY <3>1
  <2>4. CASE act = "park"
    BY <2>2, <2>4
  <2> QED BY <2>3, <2>4
<1>6. ASSUME NEW i \in Items, PeerClaims(i) \/ PeerEnds(i) PROVE files' = files /\ up' = up
  BY <1>6 DEF PeerClaims, PeerEnds, plane
<1>7. CASE UNCHANGED vars
  BY <1>7 DEF vars, children
<1> QED BY <1>2, <1>3, <1>4, <1>5, <1>6, <1>7 DEF Next, Step, Drains, Outside, Quiet

\* The unit that came up for a wake stays up until its work is over, or
\* another wake may have parked it.
LEMMA UpStep ==
  TypeOK /\ AskInv /\ WorkInv /\ [Next]_vars => UpInv'
<1> SUFFICES ASSUME TypeOK, AskInv, WorkInv, [Next]_vars, NEW w \in Wakes
             PROVE  /\ ~Unasked(<<w, "park">>)' => job'[w].park /\ Past(w)' /\ Settled(w)'
                    /\ said'[<<w, "wake">>] = "ok" => files'.results[<<w, "wake">>] = "ok"
                    /\ files'.results[<<w, "wake">>] = "ok" /\ ~up' =>
                         Shared(w)' \/ (Past(w)' /\ Settled(w)')
  BY DEF UpInv
<1>1. ByInv /\ OneInv(w) /\ UpInv /\ job' = job
  BY OwnOrStill DEF WorkInv
<1>2. Past(w) /\ Settled(w) => Past(w)' /\ Settled(w)'
  BY <1>1, PastStays
<1>3. ~Unasked(<<w, "park">>)' => job'[w].park /\ Past(w)' /\ Settled(w)'
  <2>1. CASE ~Unasked(<<w, "park">>)
    BY <1>1, <1>2, <2>1 DEF UpInv
  <2>2. CASE Unasked(<<w, "park">>) /\ ~Unasked(<<w, "park">>)'
    <3>1. at[w] = "ask" /\ said[<<w, "wake">>] # "none"
      BY <2>2, ParkRequests DEF Asking
    <3>2. job[w].park /\ Past(w) /\ Settled(w)
      BY <1>1, <3>1 DEF OneInv, ParkInv, Past
    <3> QED BY <1>1, <1>2, <3>2
  <2> QED BY <2>1, <2>2
<1>4. <<w, "wake">> \in Requests /\ (said[<<w, "wake">>] = "ok" => files.results[<<w, "wake">>] = "ok")
  BY <1>1 DEF UpInv, Requests
<1>5. ASSUME files'.results[<<w, "wake">>] = "ok", ~up'
      PROVE  Shared(w)' \/ (Past(w)' /\ Settled(w)')
  <2>1. Shared(w) \/ (Past(w) /\ Settled(w))
    <3>1. CASE files.results[<<w, "wake">>] = "ok" /\ ~up
      BY <1>1, <3>1 DEF UpInv
    <3>2. ASSUME NEW v \in Wakes, agent = <<v, "park">>
          PROVE  Shared(w) \/ (Past(w) /\ Settled(w))
      <4>1. job[v].park /\ Past(v) /\ Settled(v)
        BY <1>1, <3>2 DEF UpInv, Unasked
      <4> QED BY <4>1 DEF Shared, Past
    <3> QED BY <1>5, <3>1, <3>2, UnitMoves
  <2> QED BY <1>1, <1>2, <2>1, SharedStays
<1> QED BY <1>3, <1>4, <1>5, AnswersStay

\* Init establishes what the wakes have started and what the unit is for.
LEMMA InitWorkInv == Init => WorkInv
<1> SUFFICES ASSUME Init PROVE WorkInv
  OBVIOUS
<1>1. \A i \in Items : item[i].by = Nobody
  BY DEF Init
<1>2. ByInv
  BY <1>1, WakeAssumption DEF ByInv
<1>3. ASSUME NEW w \in Wakes PROVE OneInv(w)
  <2>1. w \in Items /\ w # Theirs /\ <<w, "wake">> \in Requests
    BY WakeAssumption DEF Items, Requests
  <2>2. /\ at[w] = "run" /\ state[w] = "none" /\ child[w] = "none" /\ session[w] = "none"
        /\ item[w].at = "absent" /\ said[<<w, "wake">>] = "none"
    BY <2>1 DEF Init
  <2> QED BY <2>2 DEF OneInv, KindInv, LeftInv, DrainInv, ParkInv, Settled, WorkIsOut, Live, NothingStarted
<1>4. UpInv
  <2>1. \A r \in Requests : said[r] = "none" /\ files.results[r] = "none"
    BY DEF Init
  <2>2. files.requests = {} /\ agent = Nobody
    BY DEF Init
  <2>3. \A w \in Wakes : <<w, "wake">> \in Requests /\ <<w, "park">> \in Requests
    BY DEF Requests
  <2> QED BY <2>1, <2>2, <2>3, NobodyAssumption DEF UpInv, Unasked
<1> QED BY <1>2, <1>3, <1>4 DEF WorkInv

-----------------------------------------------------------------------------

\* The inductive invariant: types, the places of a request, and what a wake
\* may have asked for and started.
THEOREM WakeInvariant == Spec => []WakeInv
<1>1. WakeInv /\ [Next]_vars => WakeInv'
  BY TypeStep, PlaneStep, AskStep, WithdrawStep, FailStep DEF WakeInv
<1> QED BY InitWakeInv, <1>1, PTL DEF Spec

\* Every variable of the wakes keeps its type.
THEOREM WakeTypeCorrect == Spec => []TypeOK
<1>1. WakeInv => TypeOK
  BY DEF WakeInv
<1> QED BY WakeInvariant, <1>1, PTL

\* For any number of wakes that share a unit: a request whose withdrawal was
\* reported is on no plane, with no agent and without a result, from then on
\* (executors.py:973-986).
THEOREM WithdrawnRequestsAreGone == Spec => []WithdrawnIsNeverServed
<1>1. WakeInv => WithdrawnIsNeverServed
  BY DEF WakeInv
<1> QED BY WakeInvariant, <1>1, PTL

\* For any number of wakes: a job whose unit is required starts neither child
\* nor session nor item before the agent said that the unit is up
\* (executors.py:1071-1082).
THEOREM RequiredUnitComesFirst == Spec => []FailedWakeRunsNothing
<1>1. WakeInv => FailedWakeRunsNothing
  BY DEF WakeInv, FailInv, NothingStarted, FailedWakeRunsNothing
<1> QED BY WakeInvariant, <1>1, PTL

\* What a wake has started, settled and asked for, and what the unit is for.
THEOREM WorkInvariant == Spec => []WorkInv
<1>1. WakeInv /\ WorkInv /\ [Next]_vars => WorkInv'
  <2> SUFFICES ASSUME WakeInv, WorkInv, [Next]_vars PROVE WorkInv'
    OBVIOUS
  <2>1. TypeOK /\ AskInv /\ ByInv
    BY DEF WakeInv, WorkInv
  <2>2. ASSUME NEW v \in Wakes PROVE OneInv(v)'
    BY <2>1, OwnOrStill, OneActs, OneStill DEF WorkInv
  <2> QED BY <2>1, <2>2, ByStep, UpStep DEF WorkInv
<1> QED BY WakeInvariant, InitWorkInv, <1>1, PTL DEF Spec

\* For any number of wakes that share a unit: it is up for as long as the work
\* of a wake that needs it is out, unless another wake parks it or the wake took
\* its work for done: a drain that raised or was interrupted, a kill or a wait that
\* its row doubts, a session whose DELETE failed or that it had no id of (park_unit,
\* executors.py:1022-1044).
THEOREM UnitIsUpForItsWork == Spec => []UnitStaysUpForItsWork
<1>1. ASSUME WakeInv, WorkInv, NEW w \in Wakes, job[w].required, WorkIsOut(w), ~up
      PROVE  \/ OutUnawares(w)
             \/ \E v \in Wakes \ {w} : job[v].park /\ said[<<v, "wake">>] # "none"
  <2>1. said[<<w, "wake">>] = "ok"
    BY <1>1 DEF WakeInv, FailInv, NothingStarted, WorkIsOut, Live
  <2>2. Shared(w) \/ Settled(w)
    BY <1>1, <2>1 DEF WorkInv, UpInv
  <2> QED BY <1>1, <2>2 DEF Shared, Settled
<1>2. WakeInv /\ WorkInv => UnitStaysUpForItsWork
  BY <1>1 DEF UnitStaysUpForItsWork
<1> QED BY WakeInvariant, WorkInvariant, <1>2, PTL

\* A drain works on the item of its own wake only, and closes with success or
\* failure by that item's end (_ClaimOnlyMine).
THEOREM DrainsAreTheirOwn == Spec => []DrainIsItsOwn
<1>1. WorkInv => DrainIsItsOwn
  <2> SUFFICES ASSUME WorkInv PROVE DrainIsItsOwn
    OBVIOUS
  <2>1. item[Theirs].by \notin Wakes
    BY WakeAssumption DEF WorkInv, ByInv, Items
  <2>2. \A w \in Wakes : DrainInv(w)
    BY DEF WorkInv, OneInv
  <2> QED BY <2>1, <2>2 DEF DrainIsItsOwn, DrainInv
<1> QED BY WorkInvariant, <1>1, PTL

\* For any number of wakes: one that closed left no session whose id it was given
\* without having asked for its DELETE, and no child but a detached one, one that an
\* interrupt left, or one whose kill or wait its row doubts (executors.py:208-232,
\* 813-822).
THEOREM NothingStaysBehind == Spec => []NothingIsLeftBehind
<1>1. WorkInv => NothingIsLeftBehind
  BY DEF WorkInv, OneInv, LeftInv, NothingIsLeftBehind
<1> QED BY WorkInvariant, <1>1, PTL

=============================================================================
