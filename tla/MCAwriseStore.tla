--------------------------- MODULE MCAwriseStore ---------------------------
EXTENDS AwriseStore

CONSTANTS s1, s2

\* Two old names that read alike when cleaned, in either order.
Legal == [word |-> 0, legal |-> TRUE]
Renamed == [word |-> 0, legal |-> FALSE]
OneOrder == {<<Legal, Renamed>>}
BothOrders == {<<Legal, Renamed>>, <<Renamed, Legal>>}

\* Edits that ask for a park, with and without what it needs, and one that asks
\* for an interval out of range.
ParkEdits == {spec \in Specs : spec.park_after /\ spec.bad \subseteq {"every"}}

=============================================================================
