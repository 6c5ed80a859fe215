-------------------------- MODULE MCAwriseHistory --------------------------
EXTENDS AwriseHistory

Job(at, missed, predict) == [every |-> 1, at |-> at, missed |-> missed, predict |-> predict]

\* A job of the smallest window, one with a daily anchor, and one that its own
\* rows may hold back.
Minutely == <<Job(NoAnchor, "skip", "off")>>
Daily == <<Job(1, "skip", "off")>>
Predicted == <<Job(NoAnchor, "catch_up", "skip")>>

Spent == [tick |-> 0, edit |-> 0, run |-> 0, dry |-> 0, prune |-> 0, die |-> 0, tear |-> 0, step |-> 0]

\* Time for the host to sleep twice; an operator; and what can go wrong.
Budgets == {
  [Spent EXCEPT !.tick = 6],
  [Spent EXCEPT !.tick = 3, !.dry = 1, !.run = 1, !.edit = 1],
  [Spent EXCEPT !.tick = 4, !.die = 1, !.prune = 1],
  [Spent EXCEPT !.tick = 3, !.die = 1, !.run = 1],
  [Spent EXCEPT !.tick = 4, !.tear = 1, !.prune = 1],
  [Spent EXCEPT !.tick = 4, !.step = 1, !.dry = 1]}

Standing == [jobs : {Minutely, Daily}, left : Budgets]
  \cup {[jobs |-> Predicted, left |-> [Spent EXCEPT !.tick = 3, !.dry = 1, !.die = 1]]}

=============================================================================
