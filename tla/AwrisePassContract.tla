------------------------- MODULE AwrisePassContract -------------------------
(***************************************************************************)
(* What the passes promise about wakes, whatever dies or is refused: one   *)
(* wake at a time; each is begun once and ended once; and a job is begun   *)
(* again only an interval after its last start, by the reading of the      *)
(* clock of the invocation that begins it, unless something on record      *)
(* took that start back.                                                   *)
(***************************************************************************)
EXTENDS Naturals

CONSTANTS
  Procs,      \* the invocations
  Jobs,
  Wakes,      \* each with its invocation, its job and its kind
  Interval    \* between two starts of a job

VARIABLES
  open,       \* the wakes that were begun and not ended
  told,       \* the wakes there is something on record of
  last,       \* the last start of each job that counts, none or one
  gone,       \* how often each job was removed
  seen        \* each invocation's reading of the clock

Init ==
  /\ open = {} /\ told = {}
  /\ last = [j \in Jobs |-> {}]
  /\ gone = [j \in Jobs |-> 0]
  /\ seen = [p \in Procs |-> 0]

Begin(w) ==
  /\ open = {} /\ w \notin told
  /\ \A t \in last[w.job] : seen[w.proc] >= t + Interval
  /\ open' = {w} /\ told' = told \cup {w}
  /\ \E t \in last'[w.job] : t \in Nat /\ last' = [last EXCEPT ![w.job] = {t}]
  /\ UNCHANGED gone

End(w) ==
  /\ w \in open
  /\ open' = open \ {w}
  /\ UNCHANGED <<told, last, gone>>

\* A wake that is not begun leaves a row; a clock-skew row takes back the last
\* start.
Note(w) ==
  /\ open = {} /\ w \notin told
  /\ told' = told \cup {w}
  /\ last' = IF w.kind = "skew" THEN [last EXCEPT ![w.job] = {}] ELSE last
  /\ UNCHANGED <<open, gone>>

\* A job is removed; the next one of its name has no start.
Remove(j) ==
  /\ gone' = [gone EXCEPT ![j] = @ + 1]
  /\ last' = [last EXCEPT ![j] = {}]
  /\ UNCHANGED <<open, told>>

\* An invocation looks at its clock whenever it likes.
Next ==
  /\ seen' \in [Procs -> Nat]
  /\ \/ UNCHANGED <<open, told, last, gone>>
     \/ \E w \in Wakes : Begin(w) \/ End(w) \/ Note(w)
     \/ \E j \in Jobs : Remove(j)

Spec == Init /\ [][Next]_<<open, told, last, gone, seen>>

=============================================================================
