------------------------ MODULE AwriseStoreContract ------------------------
(***************************************************************************)
(* What jobs.json promises, whatever crashes: a register of whole stores   *)
(* with one spare.  A store is replaced only when the spare holds it, and  *)
(* taken away only when it cannot be read or a spare stands in for it.     *)
(***************************************************************************)
CONSTANTS
  Whole,    \* the stores a verb may write
  Broken,   \* contents no load accepts
  Absent    \* no such file

VARIABLES
  value,    \* jobs.json
  spare     \* jobs.json.bak

Init == spare = Absent

\* The spare becomes what the store is.
Keep ==
  /\ value # Absent
  /\ spare' = value
  /\ UNCHANGED value

\* A new store; the one before it is kept, or was not readable.
Commit ==
  /\ \/ value \in Broken \cup {Absent}
     \/ spare = value \/ spare \in Broken
  /\ value' \in Whole
  /\ UNCHANGED spare

BringBack ==
  /\ value = Absent /\ spare # Absent
  /\ value' = spare
  /\ UNCHANGED spare

Withdraw ==
  /\ value \in Broken \/ spare # Absent
  /\ value' = Absent
  /\ UNCHANGED spare

\* A spare nobody can read is put away.
Discard ==
  /\ value = Absent /\ spare \in Broken
  /\ spare' = Absent
  /\ UNCHANGED value

\* Something outside of awrise writes over a file.
Damage ==
  \/ value # Absent /\ value' \in Broken /\ UNCHANGED spare
  \/ spare # Absent /\ spare' \in Broken /\ UNCHANGED value

Next == Keep \/ Commit \/ BringBack \/ Withdraw \/ Discard \/ Damage

Spec == Init /\ [][Next]_<<value, spare>>

=============================================================================
