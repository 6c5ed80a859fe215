----------------------- MODULE AwriseHostClockProofs -----------------------
(***************************************************************************)
(* Theorems about AwriseHostClock for any hosts, intervals, rounding and   *)
(* any number of verbs and of things that happen beside them: the types,   *)
(* what `check` tells, what a reported install and a reported removal are  *)
(* worth, and that nothing foreign is changed.                             *)
(***************************************************************************)
EXTENDS AwriseHostClock, TLAPS

\* Which step belongs to which verb, and to which kinds.
VerbInv ==
  /\ me.at \in {"payload", "probe", "record"} => me.verb = "install"
  /\ me.at \in {"clean", "forget", "probe_gone"} => me.verb = "uninstall"
  /\ me.at # "idle" => me.verb # "none" /\ me.said = "nothing"
  /\ me.at # "idle" \/ me.said \in {"installed", "current", "gone"} => me.kind \in Kinds
  /\ me.verb = "install" => me.every \in Everies
  /\ me.at \in {"read", "write"} => me.kind = "cron"
  /\ me.at = "look" => me.kind = "task"
  /\ me.at = "command" /\ me.kind = "task" /\ ~me.blind => entry["task"].by # "them"
  /\ me.at = "command" => me.kind # "cron"
  /\ \A k \in Kinds : entry[k].by = "them" => k # "cron"
  /\ \A k \in Kinds : ~HasFile(k) => file[k] = NoFile

\* The user's lines are those the verb read, but for the user's edits since.
LinesInv ==
  me.at = "write" => (lines \ me.kept) \cup (me.kept \ lines) \subseteq me.unread

\* The last scheduled tick row is of the last pass the scheduler started, or of
\* a later day.
FiredInv == ticks.clock = fired \/ (fired # Never /\ ticks.clock # Never /\ LateRow)

\* The payload of the kind holds what was rendered for the interval.
Delivered(k, e) == HasFile(k) => file[k] = Rendered(k, e)

\* What an install that nothing disturbed has done so far.
InstallInv ==
  ~touched =>
    /\ me.verb = "install" /\ me.at \in {"read", "write", "look", "command", "probe", "record"} =>
         Delivered(me.kind, me.every)
    /\ me.at = "record" => Enabled(me.kind)
    /\ me.said = "installed" =>
         /\ Delivered(me.kind, me.every) /\ Enabled(me.kind)
         /\ record.kind = me.kind /\ record.every = me.every

\* The types, in parts.
Mes(K) ==
  [verb : {"none", "install", "uninstall"}, kind : K \cup {"none"}, every : Everies \cup {0},
   at : {"idle", "payload", "read", "write", "look", "command", "clean", "forget", "probe", "record",
         "probe_gone"},
   said : {"nothing", "installed", "current", "gone", "no", "unjudged", "died"},
   kept : SUBSET Lines, unread : SUBSET Lines, blind : BOOLEAN]
HostType ==
  /\ Kinds \in Hosts /\ entry \in [Kinds -> Entries] /\ file \in [Kinds -> Files]
  /\ lines \subseteq Lines /\ failing \subseteq Kinds
  /\ record \in {NoRecord} \cup [kind : Kinds, every : Everies, at : 0..MaxNow]
TimeType ==
  /\ now \in 0..MaxNow
  /\ ticks \in [clock : 0..Never, hand : 0..Never]
  /\ fired \in 0..Never
  /\ lock \in {"free", "pass", "manual", "detached"}
CountType ==
  /\ verbs \in 0..MaxVerbs /\ touches \in 0..MaxTouches
  /\ touched \in BOOLEAN

\* The inductive invariant.
ClockInv == TypeOK /\ VerbInv /\ LinesInv /\ FiredInv /\ InstallInv /\ GoneIsGone

\* What a kind is, and the values that entries and payloads take.
LEMMA KindTypes ==
  ASSUME TypeOK, NEW k \in Kinds
  PROVE  /\ k \in {"cron", "timer", "task"} /\ k # "none"
         /\ entry[k] \in Entries /\ file[k] \in Files
  BY HostClockAssumption DEF TypeOK, Kinds

\* What awrise renders and registers has the type of a payload and an entry.
LEMMA OurTypes ==
  ASSUME NEW k, NEW e \in Everies
  PROVE  /\ Ours(e) \in Entries /\ NoEntry \in Entries /\ Theirs \in Entries
         /\ Rendered(k, e) \in Files /\ NoFile \in Files /\ Foreign \in Files
  BY HostClockAssumption DEF Ours, NoEntry, Theirs, Entries, Rendered, NoFile, Foreign, Files

\* TypeOK is the conjunction of its parts.
LEMMA TypeParts == TypeOK <=> HostType /\ TimeType /\ CountType /\ me \in Mes(Kinds)
  BY SMTT(30) DEF TypeOK, HostType, TimeType, CountType, Mes

\* The adapters of a host stay what they are.
LEMMA KindsStay ==
  ASSUME TypeOK, [Next]_vars
  PROVE  Kinds' = Kinds
  BY DEF TypeOK, Kinds, vars, host, Next, Verb, Else, Install, InstallClock, Uninstall, Begin,
         WritePayload,
         ReadCrontab, WriteCrontab, Look, Command, Unasked, Probe, WriteRecord, Clean, Forget,
         ProbeGone, Dies,
         EditLines, EditOurs, Fails, Damage, Fires, HandPass, Lock, Tick, StepBack, Beside

\* The verb at work keeps its type.
LEMMA MeStep ==
  ASSUME TypeOK, VerbInv, [Next]_vars
  PROVE  me' \in Mes(Kinds)
<1>1. me \in Mes(Kinds)
  BY TypeParts
<1>2. ASSUME NEW k \in Kinds, NEW e \in Everies, Install(k, e) \/ InstallClock(k, e)
      PROVE  me' \in Mes(Kinds)
  <2>1. \/ me' = [Idle EXCEPT !.verb = "install", !.kind = k, !.every = e, !.at = "payload"]
        \/ me' = [Idle EXCEPT !.verb = "install", !.kind = k, !.every = e, !.said = "current"]
    BY <1>2 DEF Install, InstallClock, Begin
  <2> QED BY <2>1 DEF Mes, Idle
<1>3. ASSUME NEW k \in Kinds, Uninstall(k)
      PROVE  me' \in Mes(Kinds)
  <2>1. \E place \in {"read", "look", "command"} :
          me' = [Idle EXCEPT !.verb = "uninstall", !.kind = k, !.every = 0, !.at = place]
    BY <1>3 DEF Uninstall, Begin, FirstAsk
  <2> QED BY <2>1 DEF Mes, Idle
<1>4. CASE WritePayload
  <2>1. \/ me' = [me EXCEPT !.at = "idle", !.said = "no"]
        \/ me' = [me EXCEPT !.at = "read"]
        \/ me' = [me EXCEPT !.at = "look"]
        \/ me' = [me EXCEPT !.at = "command"]
    BY <1>4 DEF WritePayload, Says, Goes, FirstAsk
  <2>2. CASE me' = [me EXCEPT !.at = "idle", !.said = "no"]
    BY <1>1, <2>2 DEF Mes
  <2>3. CASE me' = [me EXCEPT !.at = "read"]
    BY <1>1, <2>3 DEF Mes
  <2>4. CASE me' = [me EXCEPT !.at = "command"]
    BY <1>1, <2>4 DEF Mes
  <2>5. CASE me' = [me EXCEPT !.at = "look"]
    BY <1>1, <2>5 DEF Mes
  <2> QED BY <2>1, <2>2, <2>3, <2>4, <2>5
<1>11. CASE Dies \/ Unasked
  BY <1>1, <1>11, ZenonT(40) DEF Mes, Dies, Unasked, Says
<1>12. CASE Look
  <2>1. \/ me' = [me EXCEPT !.at = "idle", !.said = "no"]
        \/ me' = [me EXCEPT !.at = "command", !.blind = TRUE]
        \/ me' = [me EXCEPT !.at = "command"]
    BY <1>12 DEF Look, Says, Goes
  <2> QED BY <1>1, <2>1, ZenonT(40) DEF Mes
<1>5. CASE ReadCrontab
  <2>1. lines \subseteq Lines
    BY DEF TypeOK
  <2> QED BY <1>1, <1>5, <2>1, ZenonT(40) DEF Mes, ReadCrontab, Says
<1>6. CASE WriteCrontab \/ Command
  <2>1. \E well \in BOOLEAN : Ended(well)
    BY <1>6 DEF WriteCrontab, Command
  <2>2. \/ \E place \in {"clean", "probe"} : me' = [me EXCEPT !.at = place]
        \/ me' = [me EXCEPT !.at = "idle", !.said = "no"]
    BY <2>1 DEF Ended, Says, Goes
  <2> QED BY <1>1, <2>2 DEF Mes
<1>7. CASE Probe \/ WriteRecord \/ Clean \/ Forget
  <2>1. \/ \E place \in {"record", "forget", "probe_gone"} : me' = [me EXCEPT !.at = place]
        \/ \E word \in {"no", "installed"} : me' = [me EXCEPT !.at = "idle", !.said = word]
    BY <1>7 DEF Probe, WriteRecord, Clean, Forget, Says, Goes
  <2> QED BY <1>1, <2>1 DEF Mes
<1>8. CASE ProbeGone
  <2>1. (me.kind \in failing) \in BOOLEAN
    OBVIOUS
  <2> QED BY <1>1, <1>8, <2>1 DEF Mes, ProbeGone
<1>9. CASE EditLines
  <2>1. me.unread \subseteq Lines
    BY <1>1 DEF Mes
  <2> QED BY <1>1, <1>9, <2>1 DEF Mes, EditLines
<1>10. CASE EditOurs \/ Fails \/ Damage \/ Fires \/ HandPass \/ Lock \/ Tick \/ StepBack \/ UNCHANGED vars
  BY <1>1, <1>10 DEF EditOurs, Fails, Damage, Fires, HandPass, Lock, Tick, StepBack, Beside, vars
<1> QED
  BY <1>2, <1>3, <1>4, <1>5, <1>6, <1>7, <1>8, <1>9, <1>10, <1>11, <1>12
  DEF Next, Verb, Else

\* The host's scheduler, files and record keep their types.
LEMMA HostStep ==
  ASSUME TypeOK, VerbInv, [Next]_vars
  PROVE  HostType'
<1> USE DEF host
<1>1. HostType /\ Kinds' = Kinds
  BY TypeParts, KindsStay
<1>2. now \in 0..MaxNow /\ Kinds \subseteq {"cron", "timer", "task"}
  BY HostClockAssumption DEF TypeOK
<1>3. CASE WritePayload
  <2>1. me.kind \in Kinds /\ Rendered(me.kind, me.every) \in Files
    BY <1>3, OurTypes DEF WritePayload, VerbInv
  <2> QED BY <1>1, <1>3, <2>1 DEF HostType, WritePayload
<1>15. Wanted \in Entries /\ NoEntry \in Entries
  BY OurTypes DEF VerbInv, Entries, Wanted, NoEntry
<1>16. me.kept \subseteq Lines
  BY TypeParts DEF Mes
<1>4. CASE WriteCrontab
  BY <1>1, <1>4, <1>15, <1>16 DEF HostType, WriteCrontab
<1>5. CASE Command
  <2>1. PICK e \in {entry[me.kind], Wanted, NoEntry} : entry' = [entry EXCEPT ![me.kind] = e]
    BY <1>5 DEF Command
  <2>2. me.kind \in Kinds
    BY <1>5 DEF Command, VerbInv
  <2>3. e \in Entries
    BY <1>1, <1>15, <2>1, <2>2 DEF HostType
  <2>4. entry' \in [Kinds -> Entries]
    BY <1>1, <2>1, <2>3 DEF HostType
  <2> QED BY <1>1, <1>5, <2>4 DEF HostType, Command
<1>17. CASE Unasked
  <2>1. entry' \in {entry, [entry EXCEPT ![me.kind] = Wanted]} /\ lines' \in {lines, me.kept}
    BY <1>17 DEF Unasked
  <2>2. entry' \in [Kinds -> Entries] /\ lines' \subseteq Lines
    BY <1>1, <1>15, <1>16, <2>1 DEF HostType
  <2> QED BY <1>1, <1>17, <2>2 DEF HostType, Unasked
<1>6. CASE WriteRecord
  <2>1. me.kind \in Kinds /\ me.every \in Everies
    BY <1>6 DEF WriteRecord, VerbInv
  <2> QED BY <1>1, <1>2, <1>6, <2>1 DEF HostType, WriteRecord, NewRecord
<1>7. CASE Clean
  <2>1. NoFile \in Files
    BY DEF NoFile, Files
  <2> QED BY <1>1, <1>7, <2>1 DEF HostType, Clean
<1>8. CASE Forget
  BY <1>1, <1>8 DEF HostType, Forget
<1>9. CASE EditLines
  BY <1>1, <1>9 DEF HostType, EditLines
<1>10. CASE EditOurs
  <2>1. PICK k \in Kinds : /\ entry[k].by = "us"
                           /\ entry' \in {[entry EXCEPT ![k] = NoEntry], [entry EXCEPT ![k].on = FALSE]}
    BY <1>10 DEF EditOurs
  <2>2. entry[k] \in [by : {"us", "them"}, every : Everies, on : BOOLEAN]
    BY <1>1, <2>1 DEF HostType, Entries, NoEntry
  <2>3. [entry[k] EXCEPT !.on = FALSE] \in Entries /\ NoEntry \in Entries
    BY <2>2 DEF Entries
  <2>4. entry' \in [Kinds -> Entries]
    BY <1>1, <2>1, <2>3 DEF HostType
  <2> QED BY <1>1, <1>10, <2>4 DEF HostType, EditOurs
<1>11. CASE Damage
  <2>1. PICK k \in Kinds :
          file' \in {[file EXCEPT ![k] = NoFile], [file EXCEPT ![k].intact = FALSE],
                     [file EXCEPT ![k] = Foreign]}
    BY <1>11 DEF Damage
  <2>2. [file[k] EXCEPT !.intact = FALSE] \in Files
    BY <1>1 DEF HostType, Files
  <2>3. NoFile \in Files /\ Foreign \in Files
    BY DEF NoFile, Foreign, Files
  <2>4. file' \in [Kinds -> Files]
    BY <1>1, <2>1, <2>2, <2>3 DEF HostType
  <2> QED BY <1>1, <1>11, <2>4 DEF HostType, Damage
<1>12. CASE Fails
  BY <1>1, <1>12 DEF HostType, Fails
<1>13. CASE /\ UNCHANGED host
  BY <1>1, <1>13, Zenon DEF HostType
<1>14. (\E k \in Kinds, e \in Everies : Install(k, e) \/ InstallClock(k, e)) \/ (\E k \in Kinds : Uninstall(k))
       \/ ReadCrontab \/ Look \/ Probe \/ ProbeGone \/ Dies \/ Fires \/ HandPass \/ Lock \/ Tick
       \/ StepBack \/ UNCHANGED vars => UNCHANGED host
  BY DEF Install, InstallClock, Uninstall, Begin, ReadCrontab, Look, Probe, ProbeGone, Dies, Fires,
         HandPass,
         Lock, Tick, StepBack, Beside, vars
<1> QED
  BY <1>3, <1>4, <1>5, <1>6, <1>7, <1>8, <1>9, <1>10, <1>11, <1>12, <1>13, <1>14, <1>17 DEF Next, Verb,
         Else

\* So do the clock, the ticks and the counters.
LEMMA TimeStep ==
  ASSUME TypeOK, [Next]_vars
  PROVE  TimeType' /\ CountType'
<1> USE HostClockAssumption DEF time, counts
<1>1. TimeType /\ CountType
  BY TypeParts
<1>2. TimeType'
  <2>1. Verb \/ Dies \/ EditLines \/ EditOurs \/ Fails \/ Damage \/ UNCHANGED vars => UNCHANGED time
    BY DEF Verb, Install, InstallClock, Uninstall, Begin, WritePayload, ReadCrontab, WriteCrontab, Look,
           Command, Unasked, Probe, WriteRecord, Clean, Forget, ProbeGone, Dies, EditLines, EditOurs,
           Fails,
           Damage, vars
  <2>2. CASE Fires
    BY <1>1, <2>2 DEF TimeType, Fires, Never
  <2>3. CASE HandPass
    BY <1>1, <2>3 DEF TimeType, HandPass, Beside, Never
  <2>4. CASE Lock
    BY <1>1, <2>4 DEF TimeType, Lock, Never
  <2>5. CASE Tick
    BY <1>1, <2>5 DEF TimeType, Tick, Never
  <2>6. CASE StepBack
    BY <1>1, <2>6 DEF TimeType, StepBack, Never
  <2>7. CASE UNCHANGED time
    BY <1>1, <2>7 DEF TimeType, Never
  <2> QED BY <2>1, <2>2, <2>3, <2>4, <2>5, <2>6, <2>7 DEF Next, Else
<1>3. CountType'
  <2>1. CASE Touch \/ Beside
    <3>1. /\ touches < MaxTouches /\ touches' = touches + 1 /\ verbs' = verbs
          /\ touched' \in {touched, TRUE}
      BY <2>1 DEF Touch, Beside
    <3>2. touches' \in 0..MaxTouches
      BY <1>1, <3>1 DEF CountType
    <3>3. verbs' \in 0..MaxVerbs /\ touched' \in BOOLEAN
      BY <1>1, <3>1 DEF CountType
    <3> QED BY <3>2, <3>3 DEF CountType
  <2>2. CASE verbs < MaxVerbs /\ verbs' = verbs + 1 /\ touched' = FALSE /\ UNCHANGED touches
    <3>1. verbs' \in 0..MaxVerbs
      BY <1>1, <2>2 DEF CountType
    <3>2. touches' \in 0..MaxTouches
      BY <1>1, <2>2 DEF CountType
    <3>3. touched' \in BOOLEAN
      BY <2>2
    <3> QED BY <3>1, <3>2, <3>3 DEF CountType
  <2>3. CASE UNCHANGED counts
    BY <1>1, <2>3 DEF CountType
  <2>4. ASSUME Verb
        PROVE  \/ verbs < MaxVerbs /\ verbs' = verbs + 1 /\ touched' = FALSE /\ UNCHANGED touches
               \/ UNCHANGED counts
    BY <2>4 DEF Verb, Install, InstallClock, Uninstall, Begin, WritePayload, ReadCrontab, WriteCrontab,
           Look,
                Command, Unasked, Probe, WriteRecord, Clean, Forget, ProbeGone
  <2>5. ASSUME Else \/ UNCHANGED vars
        PROVE  Touch \/ Beside \/ UNCHANGED counts
    <3>1. Dies \/ EditLines \/ EditOurs \/ Fails \/ Damage => Touch
      BY DEF Dies, EditLines, EditOurs, Fails, Damage
    <3>3. HandPass \/ Lock \/ StepBack => Beside
      BY DEF HandPass, Lock, StepBack
    <3>2. Fires \/ Tick \/ UNCHANGED vars => UNCHANGED counts
      BY DEF Fires, Tick, vars
    <3> HIDE DEF counts
    <3> QED BY <2>5, <3>1, <3>2, <3>3 DEF Else
  <2> HIDE DEF counts
  <2> QED BY <2>1, <2>2, <2>3, <2>4, <2>5 DEF Next
<1> QED BY <1>2, <1>3

\* Every step keeps the types.
LEMMA TypeStep == TypeOK /\ VerbInv /\ [Next]_vars => TypeOK'
<1> SUFFICES ASSUME TypeOK, VerbInv, [Next]_vars PROVE TypeOK'
  OBVIOUS
<1>1. HostType' /\ TimeType' /\ CountType' /\ me' \in Mes(Kinds)' /\ Kinds' = Kinds
  <2>1. Mes(Kinds)' = Mes(Kinds)
    BY KindsStay DEF Mes
  <2> QED BY <2>1, HostStep, TimeStep, MeStep, KindsStay
<1> QED BY <1>1 DEF TypeOK, HostType, TimeType, CountType, Mes

-----------------------------------------------------------------------------
(* Each part of the invariant                                              *)

\* Every step keeps to the steps and the kinds of its verb.
LEMMA VerbStep == TypeOK /\ VerbInv /\ [Next]_vars => VerbInv'
<1> SUFFICES ASSUME TypeOK, VerbInv, [Next]_vars PROVE VerbInv'
  OBVIOUS
<1> DEFINE Of(m, K) ==
      /\ m.at \in {"payload", "probe", "record"} => m.verb = "install"
      /\ m.at \in {"clean", "forget", "probe_gone"} => m.verb = "uninstall"
      /\ m.at # "idle" => m.verb # "none" /\ m.said = "nothing"
      /\ m.at # "idle" \/ m.said \in {"installed", "current", "gone"} => m.kind \in K
      /\ m.verb = "install" => m.every \in Everies
      /\ m.at \in {"read", "write"} => m.kind = "cron"
      /\ m.at = "look" => m.kind = "task"
      /\ m.at = "command" => m.kind # "cron"
    Asked(m, e) == m.at = "command" /\ m.kind = "task" /\ ~m.blind => e["task"].by # "them"
    Host(e, f, K) ==
      /\ \A k \in K : e[k].by = "them" => k # "cron"
      /\ \A k \in K : ~HasFile(k) => f[k] = NoFile
<1>1. /\ me \in Mes(Kinds) /\ Of(me, Kinds) /\ Host(entry, file, Kinds) /\ Kinds' = Kinds
      /\ entry \in [Kinds -> Entries] /\ file \in [Kinds -> Files] /\ Asked(me, entry)
  BY TypeParts, KindsStay DEF VerbInv, HostType
<1>4. ASSUME NEW k \in Kinds, NEW e \in Everies, Install(k, e) \/ InstallClock(k, e)
      PROVE  \/ me' = [Idle EXCEPT !.verb = "install", !.kind = k, !.every = e, !.at = "payload"]
             \/ me' = [Idle EXCEPT !.verb = "install", !.kind = k, !.every = e, !.said = "current"]
  BY <1>4 DEF Install, InstallClock, Begin
<1>5. ASSUME NEW k \in Kinds, Uninstall(k)
      PROVE  me' = [Idle EXCEPT !.verb = "uninstall", !.kind = k, !.every = 0, !.at = FirstAsk(k)]
  BY <1>5 DEF Uninstall, Begin
<1>6. EditOurs \/ Fails \/ Damage \/ Fires \/ HandPass \/ Lock \/ Tick \/ StepBack \/ UNCHANGED vars
      => me' = me
  BY DEF EditOurs, Fails, Damage, Fires, HandPass, Lock, Tick, StepBack, Beside, vars
<1>7. ASSUME Wanted.by = "them" PROVE FALSE
  BY <1>7 DEF Wanted, Ours, NoEntry
<1>2. Of(me', Kinds)
  <2>1. ASSUME NEW k \in Kinds, NEW e \in Everies, Install(k, e) \/ InstallClock(k, e)
        PROVE  Of(me', Kinds)
    <3>1. \/ me' = [Idle EXCEPT !.verb = "install", !.kind = k, !.every = e, !.at = "payload"]
          \/ me' = [Idle EXCEPT !.verb = "install", !.kind = k, !.every = e, !.said = "current"]
      BY <1>4, <2>1
    <3> QED BY <3>1 DEF Idle
  <2>2. ASSUME NEW k \in Kinds, Uninstall(k)
        PROVE  Of(me', Kinds)
    <3>1. FirstAsk(k) \in {"read", "look", "command"} /\ (FirstAsk(k) = "read" => k = "cron")
          /\ (FirstAsk(k) = "look" => k = "task") /\ (FirstAsk(k) = "command" => k # "cron")
      BY DEF FirstAsk
    <3>2. me' = [Idle EXCEPT !.verb = "uninstall", !.kind = k, !.every = 0, !.at = FirstAsk(k)]
      BY <1>5, <2>2
    <3> QED BY <3>1, <3>2 DEF Idle
  <2>3. CASE WritePayload
    <3>1. \/ me' = [me EXCEPT !.at = "idle", !.said = "no"]
          \/ me.kind = "cron" /\ me' = [me EXCEPT !.at = "read"]
          \/ me.kind = "task" /\ me' = [me EXCEPT !.at = "look"]
          \/ me.kind # "cron" /\ me' = [me EXCEPT !.at = "command"]
      BY <2>3 DEF WritePayload, Says, Goes, FirstAsk
    <3> QED BY <1>1, <2>3, <3>1, ZenonT(40) DEF Mes, WritePayload
  <2>4. CASE ReadCrontab
    <3>1. \/ me' = [me EXCEPT !.at = "idle", !.said = "unjudged"]
          \/ me' = [me EXCEPT !.at = "write", !.kept = lines]
      BY <2>4 DEF ReadCrontab, Says
    <3>2. Of(me, Kinds) /\ me \in Mes(Kinds) /\ me.at = "read"
      BY <1>1, <2>4 DEF ReadCrontab
    <3> QED BY <3>1, <3>2 DEF Mes
  <2>5. ASSUME me.at \in {"write", "command"}, NEW well \in BOOLEAN, Ended(well)
        PROVE  Of(me', Kinds)
    <3>1. \/ me' = [me EXCEPT !.at = "idle", !.said = "no"]
          \/ me.verb # "install" /\ me' = [me EXCEPT !.at = "clean"]
          \/ me.verb # "uninstall" /\ me' = [me EXCEPT !.at = "probe"]
      BY <2>5 DEF Ended, Says, Goes
    <3> QED BY <1>1, <2>5, <3>1 DEF Mes
  <2>6. CASE WriteCrontab \/ Command
    BY <2>5, <2>6 DEF WriteCrontab, Command
  <2>15. CASE Look
    <3>1. \/ me' = [me EXCEPT !.at = "idle", !.said = "no"]
          \/ me' = [me EXCEPT !.at = "command", !.blind = TRUE]
          \/ me' = [me EXCEPT !.at = "command"]
      BY <2>15 DEF Look, Says, Goes
    <3> QED BY <1>1, <2>15, <3>1 DEF Mes, Look
  <2>16. CASE Unasked
    BY <1>1, <2>16 DEF Mes, Unasked, Says
  <2>7. CASE Probe
    BY <1>1, <2>7, ZenonT(40) DEF Mes, Probe, Says, Goes
  <2>8. CASE WriteRecord
    BY <1>1, <2>8 DEF Mes, WriteRecord, Says
  <2>9. CASE Clean
    BY <1>1, <2>9 DEF Mes, Clean, Goes
  <2>10. CASE Forget
    BY <1>1, <2>10 DEF Mes, Forget, Goes
  <2>11. CASE ProbeGone
    BY <1>1, <2>11 DEF Mes, ProbeGone
  <2>12. CASE Dies
    BY <1>1, <2>12 DEF Mes, Dies, Says
  <2>13. CASE EditLines
    BY <1>1, <2>13 DEF Mes, EditLines
  <2>14. CASE me' = me
    BY <1>1, <2>14
  <2> QED
    BY <1>6, <2>1, <2>2, <2>3, <2>4, <2>6, <2>7, <2>8, <2>9, <2>10, <2>11, <2>12, <2>13, <2>14, <2>15, <2>16
    DEF Next, Verb, Else
<1>3. Host(entry', file', Kinds)
  <2>1. CASE WritePayload
    BY <1>1, <2>1 DEF WritePayload, VerbInv
  <2>2. CASE WriteCrontab
    BY <1>1, <1>7, <2>2 DEF WriteCrontab
  <2>3. CASE Command
    <3>1. PICK e \in {entry[me.kind], Wanted, NoEntry} : entry' = [entry EXCEPT ![me.kind] = e]
      BY <2>3 DEF Command
    <3>2. me.kind # "cron" /\ file' = file
      BY <1>1, <2>3 DEF Command
    <3> QED BY <1>1, <3>1, <3>2
  <2>9. CASE Unasked
    <3>1. entry' \in {entry, [entry EXCEPT ![me.kind] = Wanted]} /\ file' = file
      BY <2>9 DEF Unasked
    <3> QED BY <1>1, <1>7, <3>1
  <2>4. CASE Clean
    BY <1>1, <2>4 DEF Clean
  <2>5. CASE EditOurs
    <3>1. PICK k \in Kinds : /\ entry[k].by = "us"
                             /\ entry' \in {[entry EXCEPT ![k] = NoEntry], [entry EXCEPT ![k].on = FALSE]}
      BY <2>5 DEF EditOurs
    <3>2. entry[k] \in [by : {"us", "them"}, every : Everies, on : BOOLEAN]
      BY <1>1, <3>1 DEF Entries, NoEntry
    <3>3. NoEntry.by # "them" /\ [entry[k] EXCEPT !.on = FALSE].by # "them"
      BY <3>1, <3>2 DEF NoEntry
    <3>4. file' = file
      BY <2>5 DEF EditOurs
    <3> QED BY <1>1, <3>1, <3>3, <3>4
  <2>6. CASE Damage
    <3>1. PICK k \in Kinds :
            /\ file[k].marked
            /\ file' \in {[file EXCEPT ![k] = NoFile], [file EXCEPT ![k].intact = FALSE],
                          [file EXCEPT ![k] = Foreign]}
      BY <2>6 DEF Damage
    <3>2. HasFile(k) /\ entry' = entry
      BY <1>1, <2>6, <3>1 DEF Damage, NoFile
    <3> QED BY <1>1, <3>1, <3>2
  <2>7. CASE entry' = entry /\ file' = file
    BY <1>1, <2>7, Zenon
  <2>8. (\E k \in Kinds, e \in Everies : Install(k, e) \/ InstallClock(k, e)) \/ (\E k \in Kinds : Uninstall(k))
        \/ ReadCrontab \/ Look \/ Probe \/ WriteRecord \/ Forget \/ ProbeGone \/ Dies \/ EditLines \/ Fails
        \/ Fires \/ HandPass \/ Lock \/ Tick \/ StepBack \/ UNCHANGED vars => entry' = entry /\ file' = file
    BY DEF Install, InstallClock, Uninstall, Begin, ReadCrontab, Look, Probe, WriteRecord, Forget,
           ProbeGone,
           Dies, EditLines, Fails, Fires, HandPass, Lock, Tick, StepBack, Beside, vars, host
  <2> QED BY <2>1, <2>2, <2>3, <2>4, <2>5, <2>6, <2>7, <2>8, <2>9 DEF Next, Verb, Else
<1>8. Asked(me', entry')
  <2> SUFFICES ASSUME me'.at = "command", me'.kind = "task", ~me'.blind
               PROVE  entry'["task"].by # "them"
    OBVIOUS
  <2>1. ASSUME NEW k \in Kinds, NEW e \in Everies, Install(k, e) \/ InstallClock(k, e)
        PROVE  FALSE
    BY <1>4, <2>1 DEF Idle
  <2>2. ASSUME NEW k \in Kinds, Uninstall(k)
        PROVE  FALSE
    <3>1. me'.at = FirstAsk(k) /\ me'.kind = k
      BY <1>5, <2>2 DEF Idle
    <3> QED BY <3>1 DEF FirstAsk
  <2>3. ASSUME WritePayload
        PROVE  FALSE
    <3>1. \/ me' = [me EXCEPT !.at = "idle", !.said = "no"]
          \/ me' = [me EXCEPT !.at = "read"]
          \/ me' = [me EXCEPT !.at = "look"]
          \/ me.kind # "task" /\ me' = [me EXCEPT !.at = "command"]
      BY <2>3 DEF WritePayload, Says, Goes, FirstAsk
    <3> QED BY <1>1, <3>1 DEF Mes
  <2>4. ASSUME ReadCrontab \/ Probe \/ WriteRecord \/ Clean \/ Forget
        PROVE  FALSE
    BY <1>1, <2>4 DEF Mes, ReadCrontab, Probe, WriteRecord, Clean, Forget, Says, Goes
  <2>5. ASSUME WriteCrontab \/ Command
        PROVE  FALSE
    BY <1>1, <2>5 DEF Mes, WriteCrontab, Command, Ended, Says, Goes
  <2>6. ASSUME ProbeGone \/ Dies \/ Unasked
        PROVE  FALSE
    BY <1>1, <2>6 DEF Mes, ProbeGone, Dies, Unasked, Says
  <2>7. CASE Look
    <3>1. \/ me' = [me EXCEPT !.at = "idle", !.said = "no"]
          \/ me' = [me EXCEPT !.at = "command", !.blind = TRUE]
          \/ entry["task"].by # "them"
      BY <2>7 DEF Look, Says
    <3>2. entry' = entry
      BY <2>7 DEF Look, host
    <3> QED BY <1>1, <3>1, <3>2 DEF Mes
  <2>8. CASE EditLines
    <3>1. entry' = entry
      BY <2>8 DEF EditLines
    <3>2. me'.at = me.at /\ me'.kind = me.kind /\ me'.blind = me.blind
      BY <1>1, <2>8 DEF Mes, EditLines
    <3> QED BY <1>1, <3>1, <3>2
  <2>9. CASE EditOurs
    <3>1. PICK k \in Kinds : /\ entry[k].by = "us"
                             /\ entry' \in {[entry EXCEPT ![k] = NoEntry], [entry EXCEPT ![k].on = FALSE]}
      BY <2>9 DEF EditOurs
    <3>2. entry[k] \in [by : {"us", "them"}, every : Everies, on : BOOLEAN]
      BY <1>1, <3>1 DEF Entries, NoEntry
    <3>3. NoEntry.by # "them" /\ [entry[k] EXCEPT !.on = FALSE].by # "them"
      BY <3>1, <3>2 DEF NoEntry
    <3>4. entry["task"].by # "them" /\ "task" \in Kinds
      BY <1>1, <1>6, <2>9
    <3> QED BY <1>1, <3>1, <3>3, <3>4
  <2>10. CASE Fails \/ Damage \/ Fires \/ HandPass \/ Lock \/ Tick \/ StepBack \/ UNCHANGED vars
    <3>1. entry' = entry
      BY <2>10 DEF Fails, Damage, Fires, HandPass, Lock, Tick, StepBack, Beside, vars, host
    <3> QED BY <1>1, <1>6, <2>10, <3>1
  <2> QED BY <2>1, <2>2, <2>3, <2>4, <2>5, <2>6, <2>7, <2>8, <2>9, <2>10 DEF Next, Verb, Else
<1> QED BY <1>1, <1>2, <1>3, <1>8 DEF VerbInv

\* The user's edits since the read are remembered as unread.
LEMMA LinesStep == TypeOK /\ LinesInv /\ [Next]_vars => LinesInv'
<1> SUFFICES ASSUME TypeOK, LinesInv, [Next]_vars, me'.at = "write"
             PROVE  (lines' \ me'.kept) \cup (me'.kept \ lines') \subseteq me'.unread
  BY DEF LinesInv
<1>1. me \in Mes(Kinds)
  BY TypeParts
<1>2. CASE ReadCrontab
  BY <1>1, <1>2 DEF Mes, ReadCrontab, Says, host
<1>3. CASE EditLines
  <2>1. PICK l \in Lines :
          /\ lines' = IF l \in lines THEN lines \ {l} ELSE lines \cup {l}
          /\ me' = [me EXCEPT !.unread = IF me.at = "write" THEN @ \cup {l} ELSE @]
    BY <1>3 DEF EditLines
  <2>2. me'.kept = me.kept /\ me.at = "write" /\ me'.unread = me.unread \cup {l}
    BY <1>1, <2>1 DEF Mes
  <2> QED BY <2>1, <2>2 DEF LinesInv
<1>4. CASE lines' = lines /\ me' = me
  BY <1>4 DEF LinesInv
<1>5. EditOurs \/ Fails \/ Damage \/ Fires \/ HandPass \/ Lock \/ Tick \/ StepBack \/ UNCHANGED vars
      => lines' = lines /\ me' = me
  BY DEF EditOurs, Fails, Damage, Fires, HandPass, Lock, Tick, StepBack, Beside, vars, host
<1>6. ASSUME \/ \E k \in Kinds, e \in Everies : Install(k, e) \/ InstallClock(k, e)
             \/ \E k \in Kinds : Uninstall(k)
      PROVE  FALSE
  BY <1>6 DEF Install, InstallClock, Uninstall, Begin, FirstAsk, Idle
<1>7. ASSUME WritePayload \/ WriteCrontab \/ Look \/ Command
      PROVE  FALSE
  BY <1>1, <1>7 DEF Mes, WritePayload, WriteCrontab, Look, Command, Ended, Says, Goes, FirstAsk
<1>8. ASSUME Probe \/ WriteRecord \/ Clean \/ Forget
      PROVE  FALSE
  BY <1>1, <1>8 DEF Mes, Probe, WriteRecord, Clean, Forget, Says, Goes
<1>9. ASSUME ProbeGone \/ Dies \/ Unasked
      PROVE  FALSE
  BY <1>1, <1>9 DEF Mes, ProbeGone, Dies, Unasked, Says
<1> QED BY <1>2, <1>3, <1>4, <1>5, <1>6, <1>7, <1>8, <1>9 DEF Next, Verb, Else

\* A pass that the scheduler starts writes its tick row.
LEMMA FiredStep == TypeOK /\ FiredInv /\ [Next]_vars => FiredInv'
<1> SUFFICES ASSUME TypeOK, FiredInv, [Next]_vars PROVE FiredInv'
  OBVIOUS
<1>1. ticks \in [clock : 0..Never, hand : 0..Never]
  BY DEF TypeOK
<1>2. CASE Fires
  <2>1. /\ fired' = now /\ now # Never
        /\ \/ ticks'.clock = now
           \/ ticks'.clock = ticks.clock /\ ticks.clock # Never /\ DayOf(ticks.clock) > DayOf(now)
    BY <1>1, <1>2, HostClockAssumption DEF TypeOK, Fires, Never
  <2> QED BY <2>1 DEF FiredInv, LateRow, DayOf, Never
<1>3. CASE HandPass
  <2>1. ticks'.clock = ticks.clock /\ fired' = fired
    BY <1>1, <1>3 DEF HandPass
  <2> QED BY <2>1 DEF FiredInv, LateRow, DayOf, Never
<1>4. CASE UNCHANGED <<ticks, fired>>
  BY <1>4, Zenon DEF FiredInv, LateRow, DayOf, Never
<1>5. Verb \/ Dies \/ EditLines \/ EditOurs \/ Fails \/ Damage \/ Lock \/ Tick \/ StepBack \/ UNCHANGED vars
      => UNCHANGED <<ticks, fired>>
  BY DEF Verb, Install, InstallClock, Uninstall, Begin, WritePayload, ReadCrontab, WriteCrontab, Look,
         Command, Unasked,
         Probe, WriteRecord, Clean, Forget, ProbeGone, Dies, EditLines, EditOurs, Fails, Damage, Lock,
         Tick,
         StepBack, vars, time
<1> QED BY <1>2, <1>3, <1>4, <1>5 DEF Next, Else

\* Steps that leave the host, the verb and the mark of a disturbance alone.
Still == UNCHANGED <<entry, failing, file, record, me, touched>>

\* Steps of others either leave the mark of a disturbance or change nothing
\* that an install did.
LEMMA OthersTouch ==
  ASSUME Else \/ UNCHANGED vars
  PROVE  touched' \/ Still
<1>1. Dies \/ EditLines \/ EditOurs \/ Fails \/ Damage => touched'
  BY DEF Dies, EditLines, EditOurs, Fails, Damage, Touch
<1>2. Fires \/ HandPass \/ Lock \/ StepBack \/ Tick \/ UNCHANGED vars => Still
  BY DEF Fires, HandPass, Lock, StepBack, Beside, Tick, vars, host, counts, Still
<1> QED BY <1>1, <1>2 DEF Else

\* A verb that begins has said nothing of an install or a removal.
LEMMA BeginSays ==
  ASSUME \/ \E k \in Kinds, e \in Everies : Install(k, e) \/ InstallClock(k, e)
         \/ \E k \in Kinds : Uninstall(k)
  PROVE  /\ me'.said \notin {"installed", "gone"}
         /\ me'.at \in {"read", "look", "command", "probe", "record"} => me'.verb # "install"
         /\ me'.at \notin {"write", "record"}
BY ZenonT(40) DEF Install, InstallClock, Uninstall, Begin, FirstAsk, Idle

\* An install that nothing disturbs keeps what it has done.
LEMMA InstallStep == TypeOK /\ VerbInv /\ InstallInv /\ [Next]_vars => InstallInv'
<1> SUFFICES ASSUME TypeOK, VerbInv, InstallInv, [Next]_vars, ~touched'
             PROVE  /\ me'.verb = "install" /\ me'.at \in {"read", "write", "look", "command", "probe", "record"} =>
                         Delivered(me.kind, me.every)'
                    /\ me'.at = "record" => Enabled(me.kind)'
                    /\ me'.said = "installed" =>
                         /\ Delivered(me.kind, me.every)' /\ Enabled(me.kind)'
                         /\ record'.kind = me'.kind /\ record'.every = me'.every
  BY DEF InstallInv
<1> USE DEF host, counts
<1>1. /\ me \in Mes(Kinds)
      /\ me.at # "idle" => me.said = "nothing" /\ me.kind \in Kinds
      /\ file \in [Kinds -> Files]
  BY TypeParts DEF VerbInv, HostType
<1>2. CASE \/ \E k \in Kinds, e \in Everies : Install(k, e) \/ InstallClock(k, e)
           \/ \E k \in Kinds : Uninstall(k)
  BY <1>2, BeginSays
<1>3. CASE WritePayload
  <2>1. CASE me' = [me EXCEPT !.at = "idle", !.said = "no"]
    BY <1>1, <2>1 DEF Mes
  <2>2. ASSUME NEW place \in {"read", "look", "command"}, me' = [me EXCEPT !.at = place],
               file' = IF HasFile(me.kind)
                       THEN [file EXCEPT ![me.kind] = Rendered(me.kind, me.every)] ELSE file
        PROVE  Delivered(me.kind, me.every)' /\ me'.at # "record" /\ me'.said # "installed"
    <3>1. /\ me'.kind = me.kind /\ me'.every = me.every /\ me'.at = place /\ me'.said = "nothing"
          /\ me.kind \in Kinds
      BY <1>1, <1>3, <2>2 DEF Mes, WritePayload
    <3>2. HasFile(me.kind) => file'[me.kind] = Rendered(me.kind, me.every)
      BY <1>1, <2>2, <3>1
    <3> QED BY <3>1, <3>2 DEF Delivered, HasFile, Rendered
  <2> QED BY <1>3, <2>1, <2>2 DEF WritePayload, Says, Goes, FirstAsk
<1>4. ASSUME UNCHANGED <<file, touched>>, me.at \in {"read", "write", "look", "command"},
             \/ \E word \in {"unjudged", "no"} : me' = [me EXCEPT !.at = "idle", !.said = word]
             \/ me' = [me EXCEPT !.at = "write", !.kept = lines]
             \/ \E place \in {"clean", "probe", "command"} : me' = [me EXCEPT !.at = place]
             \/ me' = [me EXCEPT !.at = "command", !.blind = TRUE]
      PROVE  /\ me'.verb = "install" /\ me'.at \in {"write", "command", "probe"} =>
                  Delivered(me.kind, me.every)'
             /\ me'.at \notin {"read", "look", "record"} /\ me'.said # "installed"
  <2>1. /\ me'.at \in {"idle", "write", "clean", "probe", "command"} /\ me'.said \in {"unjudged", "no", "nothing"}
        /\ me'.kind = me.kind /\ me'.every = me.every /\ me'.verb = me.verb
    BY <1>1, <1>4 DEF Mes
  <2>2. me.verb = "install" => Delivered(me.kind, me.every)
    BY <1>4 DEF InstallInv
  <2> QED BY <1>4, <2>1, <2>2 DEF Delivered, HasFile, Rendered
<1>5. CASE ReadCrontab
  BY <1>4, <1>5 DEF ReadCrontab, Says
<1>6. CASE WriteCrontab
  BY <1>4, <1>6 DEF WriteCrontab, Ended, Says, Goes
<1>7. CASE Command
  BY <1>4, <1>7 DEF Command, Ended, Says, Goes
<1>14. CASE Look
  BY <1>4, <1>14 DEF Look, Says, Goes
<1>15. CASE Unasked
  BY <1>1, <1>15 DEF Mes, Unasked, Says
<1>8. CASE Probe
  <2>1. CASE me' = [me EXCEPT !.at = "idle", !.said = "no"]
    BY <1>1, <2>1 DEF Mes
  <2>2. CASE Enabled(me.kind) /\ me' = [me EXCEPT !.at = "record"]
    <3>1. me'.kind = me.kind /\ me'.every = me.every /\ me'.verb = me.verb /\ me'.said = "nothing"
      BY <1>1, <1>8, <2>2 DEF Mes, Probe
    <3>2. me.verb = "install" => Delivered(me.kind, me.every)
      BY <1>8 DEF InstallInv, Probe
    <3>3. file' = file /\ entry' = entry /\ failing' = failing
      BY <1>8 DEF Probe
    <3>4. Enabled(me.kind)'
      BY <2>2, <3>1, <3>3 DEF Enabled, Present
    <3> QED BY <3>1, <3>2, <3>3, <3>4 DEF Delivered, HasFile, Rendered
  <2> QED BY <1>8, <2>1, <2>2 DEF Probe, Says, Goes
<1>9. CASE WriteRecord
  <2>1. /\ me'.kind = me.kind /\ me'.every = me.every /\ me'.at = "idle"
        /\ record'.kind = me.kind /\ record'.every = me.every
    BY <1>1, <1>9 DEF Mes, WriteRecord, NewRecord, Says
  <2>2. Delivered(me.kind, me.every) /\ Enabled(me.kind)
    BY <1>9 DEF InstallInv, VerbInv, WriteRecord
  <2>3. file' = file /\ entry' = entry /\ failing' = failing
    BY <1>9 DEF WriteRecord
  <2> QED BY <2>1, <2>2, <2>3 DEF Delivered, HasFile, Rendered, Enabled, Present
<1>10. CASE Clean
  BY <1>1, <1>10 DEF Mes, Clean, Goes
<1>11. CASE Forget
  BY <1>1, <1>11 DEF Mes, Forget, Goes
<1>12. CASE ProbeGone
  BY <1>1, <1>12 DEF Mes, ProbeGone
<1>13. CASE Still
  BY <1>13 DEF Still, InstallInv, Delivered, HasFile, Rendered, Enabled, Present
<1> QED
  BY <1>2, <1>3, <1>5, <1>6, <1>7, <1>8, <1>9, <1>10, <1>11, <1>12, <1>13, <1>14, <1>15, OthersTouch
  DEF Next, Verb

\* What a removal saw stays so until something else changes.
LEMMA GoneStep == TypeOK /\ VerbInv /\ GoneIsGone /\ [Next]_vars => GoneIsGone'
<1> SUFFICES ASSUME TypeOK, VerbInv, GoneIsGone, [Next]_vars, me'.said = "gone", ~me'.blind, ~touched'
             PROVE  entry'[me'.kind].by = "nobody"
  BY DEF GoneIsGone
<1>1. me \in Mes(Kinds) /\ (me.at # "idle" => me.said = "nothing")
  BY TypeParts DEF VerbInv
<1>2. CASE ProbeGone
  <2>1. /\ me'.said = IF Present(me.kind) THEN "no" ELSE "gone"
        /\ me'.blind = (me.kind \in failing) /\ me'.kind = me.kind /\ entry' = entry
    BY <1>1, <1>2 DEF Mes, ProbeGone, host
  <2> QED BY <2>1 DEF Present
<1>3. ASSUME WritePayload \/ ReadCrontab \/ Look \/ Unasked
      PROVE  FALSE
  BY <1>1, <1>3 DEF Mes, WritePayload, ReadCrontab, Look, Unasked, Says, Goes
<1>4. ASSUME WriteCrontab \/ Command
      PROVE  FALSE
  <2>1. \/ \E place \in {"clean", "probe"} : me' = [me EXCEPT !.at = place]
        \/ me' = [me EXCEPT !.at = "idle", !.said = "no"]
    BY <1>4 DEF WriteCrontab, Command, Ended, Says, Goes
  <2>2. me.at # "idle"
    BY <1>4 DEF WriteCrontab, Command
  <2> QED BY <1>1, <2>1, <2>2 DEF Mes
<1>5. ASSUME Probe \/ WriteRecord \/ Clean \/ Forget
      PROVE  FALSE
  <2>1. \/ \E place \in {"record", "forget", "probe_gone"} : me' = [me EXCEPT !.at = place]
        \/ \E word \in {"no", "installed"} : me' = [me EXCEPT !.at = "idle", !.said = word]
    BY <1>5 DEF Probe, WriteRecord, Clean, Forget, Says, Goes
  <2>2. me.at # "idle"
    BY <1>5 DEF Probe, WriteRecord, Clean, Forget
  <2> QED BY <1>1, <2>1, <2>2 DEF Mes
<1>6. CASE Still
  BY <1>6 DEF Still, GoneIsGone
<1> QED BY <1>2, <1>3, <1>4, <1>5, <1>6, BeginSays, OthersTouch DEF Next, Verb

\* A host has the invariant before the first verb.
LEMMA InitClockInv == Init => ClockInv
<1> SUFFICES ASSUME Init PROVE ClockInv
  OBVIOUS
<1>1. PICK K \in Hosts : entry \in [K -> {NoEntry, Theirs}]
  BY DEF Init
<1>2. Kinds = K
  BY <1>1 DEF Kinds
<1>3. HostType
  <2>1. PICK e \in Everies : TRUE
    BY HostClockAssumption
  <2>2. entry \in [Kinds -> Entries]
    BY <1>1, <1>2, <2>1, OurTypes
  <2>3. file \in [Kinds -> Files]
    <3>1. NoFile \in Files /\ Foreign \in Files
      BY DEF NoFile, Foreign, Files
    <3>2. file \in [Kinds -> {NoFile, Foreign}]
      BY DEF Init
    <3> QED BY <3>1, <3>2
  <2>4. lines \subseteq Lines /\ failing \subseteq Kinds /\ record = NoRecord
    BY DEF Init
  <2> QED BY <1>1, <1>2, <2>2, <2>3, <2>4 DEF HostType
<1>4. TimeType /\ CountType
  <2>1. 0 \in 0..MaxNow /\ Never \in 0..Never /\ 0 \in 0..MaxVerbs /\ 0 \in 0..MaxTouches
    BY HostClockAssumption DEF Never
  <2> QED BY <2>1 DEF Init, TimeType, CountType
<1>5. me \in Mes(Kinds)
  BY DEF Init, Idle, Mes
<1>6. VerbInv /\ LinesInv /\ FiredInv /\ InstallInv /\ GoneIsGone
  <2>1. NoEntry.by # "them"
    BY DEF NoEntry
  <2>2. \A k \in Kinds : entry[k].by = "them" => k # "cron"
    BY <1>1, <1>2, <2>1 DEF Init
  <2> QED BY <2>2 DEF Init, VerbInv, LinesInv, FiredInv, InstallInv, GoneIsGone, Idle
<1> QED BY <1>3, <1>4, <1>5, <1>6, TypeParts DEF ClockInv

\* Every step keeps the invariant.
LEMMA NextClockInv == ClockInv /\ [Next]_vars => ClockInv'
  BY TypeStep, VerbStep, LinesStep, FiredStep, InstallStep, GoneStep DEF ClockInv

-----------------------------------------------------------------------------
(* The theorems                                                            *)

\* The inductive invariant holds, for any hosts, intervals and bounds.
THEOREM ClockInvariant == Spec => []ClockInv
  BY InitClockInv, NextClockInv, PTL DEF Spec

\* The host's scheduler, files and record keep their types.
THEOREM ClockTypeCorrect == Spec => []TypeOK
<1>1. ClockInv => TypeOK
  BY DEF ClockInv
<1> QED BY <1>1, ClockInvariant, PTL

\* A division leaves less than its divisor.
LEMMA DayParts ==
  ASSUME NEW t \in Nat
  PROVE  DayOf(t) \in Nat /\ DayOf(t) * Day <= t /\ t < (DayOf(t) + 1) * Day
<1>1. Day \in Nat \ {0}
  BY HostClockAssumption
<1> QED BY <1>1 DEF DayOf

\* What is no more than some days later is dated no more than those days later.
LEMMA DaysLater ==
  ASSUME NEW a \in Nat, NEW b \in Nat, NEW n \in Nat, b <= a + n * Day
  PROVE  DayOf(b) <= DayOf(a) + n
<1> DEFINE p == DayOf(b)
           q == DayOf(a) + 1 + n
<1>1. Day \in Nat \ {0} /\ p \in Nat /\ q \in Nat
  BY DayParts, HostClockAssumption
<1>2. p * Day <= b /\ a < (DayOf(a) + 1) * Day
  BY DayParts
<1>3. (DayOf(a) + 1) * Day + n * Day = q * Day
  BY DayParts, HostClockAssumption
<1>4. p * Day < q * Day
  <2>1. p * Day \in Nat /\ q * Day \in Nat /\ n * Day \in Nat /\ (DayOf(a) + 1) * Day \in Nat
    BY <1>1, DayParts
  <2> QED BY <1>2, <1>3, <2>1
<1>5. ASSUME q <= p PROVE FALSE
  <2> DEFINE d == p - q
  <2>1. d \in Nat /\ p = q + d
    BY <1>1, <1>5
  <2>2. p * Day = q * Day + d * Day
    BY <1>1, <2>1
  <2>3. d * Day \in Nat /\ p * Day \in Nat /\ q * Day \in Nat
    BY <1>1, <2>1
  <2> QED BY <1>4, <2>2, <2>3
<1> QED BY <1>1, <1>5, DayParts

\* An interval, rounded or not, is no longer than the bound.
LEMMA BoundCovers ==
  ASSUME TypeOK, record # NoRecord
  PROVE  /\ Effective(record.kind, record.every) \in Nat
         /\ Bound(record) \in Nat
         /\ Effective(record.kind, record.every) <= Bound(record)
<1> DEFINE w == Effective(record.kind, record.every)
<1>1. record.every \in Nat
  BY HostClockAssumption DEF TypeOK
<1>2. Minute \in Nat \ {0} /\ Hour \in Nat \ {0} /\ Day \in Nat /\ Grace \in Nat \ {0}
  BY HostClockAssumption
<1>3. w \in Nat
  <2>1. record.every \div Minute \in Nat
    BY <1>1, <1>2
  <2>2. Minutes(record.every) \in Nat
    BY <2>1 DEF Minutes
  <2>3. \A i, j \in Nat : i * j \in Nat
    OBVIOUS
  <2>4. Minutes(record.every) * Minute \in Nat
    BY <1>2, <2>2, <2>3
  <2>5. (Minutes(record.every) * Minute) \div Hour \in Nat
    BY <1>2, <2>4
  <2>6. ((Minutes(record.every) * Minute) \div Hour) * Hour \in Nat
    BY <1>2, <2>3, <2>5
  <2> QED BY <1>1, <1>2, <2>4, <2>6 DEF Effective
<1>4. \A n \in Nat : n * Grace \in Nat /\ n <= n * Grace
  BY <1>2
<1> QED BY <1>3, <1>4 DEF Bound

\* A zero of `check` is an entry that fires whole and has fired in time, or a
\* row of a later day or a lock that excuses it; and a clock that keeps its
\* pace, with a scheduler that answers and an interval within the days that
\* last_tick reads, is answered zero (check, 1515-1629).
THEOREM CheckIsRight == Spec => []CheckTellsTheClock
<1>1. ASSUME ClockInv, record # NoRecord
      PROVE  LET k == record.kind IN
             /\ CheckVerdict = 0 =>
                  /\ FiresWhole(k)
                  /\ \/ fired <= now /\ now <= fired + Bound(record)
                     \/ lock \in {"pass", "manual"}
                     \/ LateRow
             /\ FiresWhole(k) /\ ~Changed(k) /\ k \notin failing
                /\ fired <= now /\ now <= fired + Effective(k, record.every)
                /\ ticks.clock <= now /\ now <= fired + Window * Day
                => CheckVerdict = 0
  <2> DEFINE k == record.kind
             w == Effective(k, record.every)
             b == Bound(record)
             last == LastTick
  <2>1. /\ w \in Nat /\ b \in Nat /\ w <= b
        /\ now \in Nat /\ fired \in Nat /\ now < Never /\ Never \in Nat /\ ticks.clock \in Nat
        /\ fired <= Never
    BY <1>1, BoundCovers, HostClockAssumption DEF ClockInv, TypeOK, Never
  <2>2. Structure(k) = 0 <=> Enabled(k) /\ ~Missing(k) /\ ~Changed(k)
    BY DEF Structure
  <2>3. HasFile(k) /\ ~Changed(k) => file[k].marked /\ file[k].intact /\ ~Missing(k)
    BY DEF Changed, Missing, Rendered, NoFile
  <2>4. CheckVerdict =
          IF ~Present(k) THEN 1
          ELSE IF last # Never /\ last > now THEN 1
          ELSE IF last # Never /\ now - last <= b THEN Structure(k)
          ELSE IF LiveLock THEN Structure(k)
          ELSE IF last = Never /\ now - record.at < b THEN 2
          ELSE 1
    BY <1>1 DEF CheckVerdict
  <2>7. /\ last = Never \/ (last = ticks.clock /\ ticks.clock # Never)
        /\ ticks.clock # Never /\ DayOf(now) <= DayOf(ticks.clock) + Window => last = ticks.clock
        /\ last \in Nat
    BY <2>1 DEF LastTick, InWindow
  <2>8. ticks.clock = fired \/ (fired # Never /\ ticks.clock # Never /\ LateRow)
    BY <1>1 DEF ClockInv, FiredInv
  <2> HIDE DEF w, b, last
  <2>5. ASSUME CheckVerdict = 0
        PROVE  /\ FiresWhole(k)
               /\ (fired <= now /\ now <= fired + b) \/ lock \in {"pass", "manual"} \/ LateRow
    <3>1. Structure(k) = 0 /\ ((last # Never /\ last <= now /\ now <= last + b) \/ LiveLock)
      BY <2>1, <2>4, <2>5, <2>7
    <3>2. FiresWhole(k)
      BY <2>2, <2>3, <3>1 DEF FiresWhole, Enabled, Present
    <3> QED BY <2>7, <2>8, <3>1, <3>2 DEF LiveLock
  <2>6. ASSUME FiresWhole(k), ~Changed(k), k \notin failing, fired <= now, now <= fired + w,
               ticks.clock <= now, now <= fired + Window * Day
        PROVE  CheckVerdict = 0
    <3>1. Structure(k) = 0 /\ Present(k)
      BY <2>2, <2>3, <2>6 DEF FiresWhole, Enabled, Present, Missing
    <3>2. fired <= ticks.clock
      <4>1. CASE LateRow
        <5>1. ASSUME ticks.clock <= fired PROVE FALSE
          <6>1. ticks.clock <= fired + 0 * Day
            BY <2>1, <5>1, HostClockAssumption
          <6>2. DayOf(ticks.clock) <= DayOf(fired) + 0
            BY <2>1, <6>1, DaysLater
          <6> QED BY <2>1, <4>1, <6>2, DayParts DEF LateRow
        <5> QED BY <2>1, <5>1
      <4> QED BY <2>1, <2>8, <4>1
    <3>3. DayOf(now) <= DayOf(ticks.clock) + Window
      <4>1. Window \in Nat /\ Window * Day \in Nat
        BY HostClockAssumption
      <4>2. now <= ticks.clock + Window * Day
        BY <2>1, <2>6, <3>2, <4>1
      <4> QED BY <2>1, <4>1, <4>2, DaysLater
    <3>4. last = ticks.clock /\ last # Never
      BY <2>1, <2>6, <2>7, <3>3
    <3>5. now - last <= b /\ ~(last > now)
      BY <2>1, <2>6, <3>2, <3>4
    <3> QED BY <2>4, <3>1, <3>4, <3>5
  <2> QED BY <2>5, <2>6 DEF b, w
<1>2. ClockInv => CheckTellsTheClock
  BY <1>1 DEF CheckTellsTheClock
<1> QED BY <1>2, ClockInvariant, PTL

\* What an install reports done is current, and whole for a check, until
\* something else changes (install, 1329-1386).
THEOREM ReportedInstallIsCurrent == Spec => []InstalledIsCurrent
<1>1. ASSUME ClockInv, me.said = "installed", ~touched
      PROVE  Current(me.kind, me.every) /\ Structure(me.kind) = 0
  <2>1. /\ Delivered(me.kind, me.every) /\ Enabled(me.kind)
        /\ record.kind = me.kind /\ record.every = me.every
    BY <1>1 DEF ClockInv, InstallInv
  <2>2. ~Changed(me.kind) /\ ~Missing(me.kind)
    BY <2>1 DEF Delivered, Changed, Missing, Rendered, NoFile
  <2> QED BY <2>1, <2>2 DEF Current, Structure
<1>2. ClockInv => InstalledIsCurrent
  BY <1>1 DEF InstalledIsCurrent
<1> QED BY <1>2, ClockInvariant, PTL

\* A removal that says gone has seen so, unless the query it saw it by failed
\* (uninstall, 1424-1459).
THEOREM ReportedRemovalIsGone == Spec => []GoneIsGone
<1>1. ClockInv => GoneIsGone
  BY DEF ClockInv
<1> QED BY <1>1, ClockInvariant, PTL

\* No verb changes an entry, a payload or a crontab line that is not awrise's,
\* but for the lines edited since it read them, a task whose owner it could not
\* ask for, and the timer or agent it works on (_existing_crontab,
\* refuse_foreign_file, foreign_entries).
THEOREM ForeignIsKept == Spec => ForeignThingsSurvive
<1> DEFINE Kept ==
      /\ (lines \ lines') \cup (lines' \ lines) \subseteq me.unread
      /\ \A k \in Kinds :
           /\ entry[k].by = "them" /\ (k = me.kind => k = "task" /\ ~me.blind) => entry'[k] = entry[k]
           /\ file[k] = Foreign => file'[k] = file[k]
<1>1. ASSUME ClockInv, [Next]_vars, me.at # "idle", touches' = touches
      PROVE  Kept
  <2>1. /\ entry \in [Kinds -> Entries] /\ file \in [Kinds -> Files] /\ touches \in Nat
        /\ VerbInv /\ LinesInv
    BY <1>1, HostClockAssumption DEF ClockInv, TypeOK
  <2>2. CASE WritePayload
    BY <2>1, <2>2 DEF WritePayload, Foreign, NoFile
  <2>3. CASE WriteCrontab \/ Unasked
    <3>1. lines' = lines \/ (lines' = me.kept /\ me.at = "write")
      BY <2>3 DEF WriteCrontab, Unasked
    <3>2. \/ entry' = entry
          \/ me.at = "write" /\ entry' = [entry EXCEPT !["cron"] = Wanted]
          \/ me.at \in {"write", "command"} /\ entry' = [entry EXCEPT ![me.kind] = Wanted]
      BY <2>3 DEF WriteCrontab, Unasked
    <3>4. me.at = "write" => me.kind = "cron"
      BY <2>1 DEF VerbInv
    <3>5. \A k \in Kinds : entry[k].by = "them" /\ k # me.kind => entry'[k] = entry[k]
      BY <2>1, <3>2, <3>4
    <3>6. entry["task"].by = "them" /\ me.kind = "task" /\ ~me.blind => entry' = entry
      BY <2>1, <3>2, <3>4 DEF VerbInv
    <3>3. file' = file
      BY <2>3 DEF WriteCrontab, Unasked
    <3> QED BY <2>1, <3>1, <3>5, <3>6, <3>3 DEF LinesInv
  <2>4. CASE Command
    <3>1. /\ UNCHANGED <<lines, file>> /\ me.at = "command"
          /\ \E e : entry' = [entry EXCEPT ![me.kind] = e]
      BY <2>4 DEF Command
    <3>2. \A k \in Kinds : k # me.kind => entry'[k] = entry[k]
      BY <2>1, <3>1
    <3>3. ~(entry["task"].by = "them" /\ me.kind = "task" /\ ~me.blind)
      BY <2>1, <3>1 DEF VerbInv
    <3> QED BY <3>1, <3>2, <3>3
  <2>5. CASE Clean
    BY <2>1, <2>5 DEF Clean, Foreign
  <2>6. CASE UNCHANGED <<lines, entry, file>>
    BY <2>6
  <2>7. ReadCrontab \/ Look \/ Probe \/ WriteRecord \/ Forget \/ ProbeGone \/ Fires \/ HandPass \/ Lock
        \/ Tick \/ StepBack \/ UNCHANGED vars => UNCHANGED <<lines, entry, file>>
    BY DEF ReadCrontab, Look, Probe, WriteRecord, Forget, ProbeGone, Fires, HandPass, Lock, Tick,
           StepBack,
           Beside, vars, host
  <2>8. ~Touch
    BY <1>1, <2>1 DEF Touch
  <2>9. ~(Dies \/ EditLines \/ EditOurs \/ Fails \/ Damage)
    BY <2>8, SMTT(30) DEF Dies, EditLines, EditOurs, Fails, Damage
  <2>10. /\ ~\E k \in Kinds, e \in Everies : Install(k, e) \/ InstallClock(k, e)
         /\ ~\E k \in Kinds : Uninstall(k)
    BY <1>1 DEF Install, InstallClock, Uninstall, Begin
  <2> QED BY <1>1, <2>2, <2>3, <2>4, <2>5, <2>6, <2>7, <2>9, <2>10 DEF Next, Verb, Else
<1>2. ClockInv /\ [Next]_vars =>
        [me.at # "idle" /\ touches' = touches => Kept]_vars
  BY <1>1
<1> QED BY <1>2, ClockInvariant, PTL DEF Spec, ForeignThingsSurvive

=============================================================================
