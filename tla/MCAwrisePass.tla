---------------------------- MODULE MCAwrisePass ----------------------------
(* AwrisePass for TLC: invocations of the same verb are interchangeable.   *)
EXTENDS AwrisePass, TLC

CONSTANTS due1, due2, due3, run1, op1, rec1, rec2

Symmetry ==
  Permutations(RunDue) \cup Permutations(Run)
    \cup Permutations(Reconciler) \cup Permutations(Operator)

\* Nothing out of the ordinary.
Plain == [cast |-> {}, jobs |-> {1}, maxNow |-> 2, steps |-> 0, overruns |-> FALSE,
          faults |-> FALSE, detach |-> FALSE, skips |-> FALSE, cards |-> FALSE]

\* Three passes on a disk that fails; two passes and an operator; three
\* passes under a clock that steps back; three passes of two jobs on a disk
\* that fails.
MCPasses ==
  [faults |-> [Plain EXCEPT !.cast = {due1, due2, due3}, !.maxNow = 3, !.faults = TRUE],
   operator |-> [Plain EXCEPT !.cast = {due1, due2, op1}],
   clock |-> [Plain EXCEPT !.cast = {due1, due2, due3}, !.steps = 1, !.skips = TRUE],
   jobs |-> [Plain EXCEPT !.cast = {due1, due2, due3}, !.jobs = {1, 2}, !.maxNow = 1,
                          !.faults = TRUE]]

\* A pass, a run and an operator who adds the job, with cards and policies;
\* a pass of a detached job and two reconciles, and wakes that overrun.
MCByHand ==
  [manual |-> [Plain EXCEPT !.cast = {due1, run1, op1}, !.jobs = {}, !.maxNow = 3,
                            !.skips = TRUE, !.cards = TRUE],
   detach |-> [Plain EXCEPT !.cast = {due1, rec1, rec2}, !.detach = TRUE, !.overruns = TRUE]]

\* Two passes and an operator, with a job in front of another: the save the
\* first one needs takes in what the operator's save made of the second.
MCRefire ==
  [two |-> [Plain EXCEPT !.cast = {due1, due2, op1}, !.jobs = {1, 2}, !.maxNow = 1]]

\* A pass and a run.
MCLive == [live |-> [Plain EXCEPT !.cast = {due1, run1}]]

=============================================================================
