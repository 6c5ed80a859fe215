---------------------------- MODULE AwriseClock ----------------------------
(***************************************************************************)
(* When a job is due, what it missed, and which stamps are impossible      *)
(* (clock.py), over a clock that counts units; a day has Day of them.      *)
(***************************************************************************)
EXTENDS Integers

CONSTANTS
  Day,        \* clock units in a day
  Tolerance   \* SKEW_TOLERANCE_S

ASSUME ClockAssumption == Day \in Nat \ {0} /\ Tolerance \in Nat

Never == 0
NoAnchor == Day

DayOf(t) == t \div Day

\* The first anchor strictly after t.
AnchorAfter(t, anchor) ==
  LET today == DayOf(t) * Day + anchor IN IF today > t THEN today ELSE today + Day

\* A slip, once in the code: an anchored job that never started is due.
NextDueAtOnce(r, now) ==
  IF r.started = Never THEN now
  ELSE IF r.at # NoAnchor THEN AnchorAfter(r.started, r.at)
  ELSE r.started + r.every

\* clock.next_due, for a record with a created_at.
NextDue(r, now) ==
  IF r.at # NoAnchor THEN AnchorAfter(IF r.started = Never THEN r.created ELSE r.started, r.at)
  ELSE IF r.started = Never THEN now
  ELSE r.started + r.every

IsDue(r, now) == now >= NextDue(r, now)

\* clock.period_s: an anchored job has one window a day.
Period(r) == IF r.at # NoAnchor THEN Day ELSE r.every

\* clock.missed_windows: those beyond the one being served.
MissedWindows(r, now) ==
  IF IsDue(r, now) THEN (now - NextDue(r, now)) \div Period(r) ELSE 0

\* clock.skew_s: the last start lies ahead of now.
Skewed(r, now) == r.started # Never /\ r.started > now + Tolerance

=============================================================================
