---------------------------- MODULE MCAwriseWake ----------------------------
EXTENDS AwriseWake

CONSTANTS w1, w2

Plain == [kind |-> "child", detach |-> FALSE, drain |-> FALSE,
          wake |-> FALSE, required |-> FALSE, park |-> FALSE]
OnUnit == [Plain EXCEPT !.wake = TRUE, !.required = TRUE]
Parking == [OnUnit EXCEPT !.park = TRUE]

\* One wake of every kind by itself, with every policy towards the unit.
Alone == {[Plain EXCEPT !.kind = k, !.wake = u[1], !.required = u[2], !.park = u[3]] :
            k \in Kinds, u \in {<<FALSE, FALSE, FALSE>>, <<TRUE, FALSE, TRUE>>, <<TRUE, TRUE, TRUE>>}}
  \cup {[Parking EXCEPT !.kind = "queue", !.drain = TRUE], [OnUnit EXCEPT !.detach = TRUE]}

\* Next to it a command of no unit; or two that share the unit; or two that drain.
Drain == [Parking EXCEPT !.kind = "queue", !.drain = TRUE]
Pair(a, b) == [w \in Wakes |-> IF w = w1 THEN a ELSE b]
Pairs == {Pair(a, [Plain EXCEPT !.kind = "http"]) : a \in {j \in Alone : Sound(j)}}
  \cup {Pair(OnUnit, Parking), Pair(Drain, [Drain EXCEPT !.park = FALSE, !.wake = FALSE, !.required = FALSE])}

=============================================================================
