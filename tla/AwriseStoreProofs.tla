------------------------- MODULE AwriseStoreProofs --------------------------
(***************************************************************************)
(* Theorems about AwriseStore for every bound, every set of edits and of   *)
(* old stores: the types, that what a verb has saved every load accepts,   *)
(* and that the files implement the register of AwriseStoreContract.       *)
(***************************************************************************)
EXTENDS AwriseStore, TLAPS

Broken == {c \in Contents : ~Loads(c)}
Unreadable == Broken \cup {Absent}

\* A store that is read is there; where a copy comes from and goes to.
CopyInv ==
  /\ me.pc \in {"read", "aside"} => Store # Absent
  /\ me.pc = "copy" =>
       \/ /\ me.src = "jobs.json" /\ me.dst \in {"bak", "v1.bak"}
          /\ me.ret \in {"replace", "first", "save"}
          /\ me.ret = "replace" => me.dst = "bak"
       \/ me.src = "bak" /\ me.dst = "jobs.json" /\ me.ret = "look" /\ Store = Absent

\* What a verb has made sure of when it is about to change a file for good.
SafeInv ==
  /\ me.pc = "replace" => Store \in Unreadable \/ Bak = Store \/ Bak \in Broken
  /\ me.pc = "aside" => Store \in Broken
  /\ me.pc = "park" => Store \in Unreadable \/ Bak # Absent
  /\ me.pc \in {"strays", "bak"} => Store = Absent
  /\ me.pc \in {"park", "strays"} => me.verb = "restore" \/ Bak \in Unreadable
  /\ me.pc = "bak" => Bak \in Unreadable
  /\ me.pc = "restore" => me.verb = "restore"

\* The store in memory, and without damage every file, is one that load takes.
LoadInv ==
  /\ Loads(me.mem)
  /\ SavedStoreLoads

\* The verb is at, or on a copy on its way to, one of these steps.
Nears(pcs) == me.pc \in pcs \/ (me.pc = "copy" /\ me.ret \in pcs)

\* A verb drops no job: what it is about to save has every job of the store.
MemInv ==
  /\ Nears({"edit", "save", "replace", "first"}) => JobsIn(Store) \subseteq me.mem.jobs
  /\ damage = 0 /\ Nears({"first"}) => Store = me.mem

\* An add that saves has its job in what it saves, unless it still migrates.
AddInv ==
  /\ me.pc \in {"restore", "reset", "park", "strays", "bak"} => me.verb \in {"restore", "reset"}
  /\ me.verb = "add" /\ me.then = "idle" /\ Nears({"save", "replace", "first"}) =>
       <<adds, 1>> \in me.mem.jobs

\* The jobs of every copy that was ever put away.
PutJobs == over \cup (UNION {c.jobs : c \in copies})

\* Every job reported added is in the store, or was put away with one: none is
\* left to the backup alone, which the next save writes over.
AckedInv == damage = 0 => acked \subseteq PutJobs \cup JobsIn(Store)

\* What an acknowledged job rests on.
KeptInv == MemInv /\ AddInv /\ AckedInv /\ AddedJobHasBackup

\* The inductive invariant.
StoreInv == TypeOK /\ CopyInv /\ SafeInv /\ LoadInv

\* add and set refuse every record that load would refuse (cli.py:75-177 and
\* store.py:710-822 are written apart).
LEMMA VerbIsNoLaxer ==
  ASSUME NEW r \in Specs, VerbAccepts(r)
  PROVE  LoadAccepts(r)
  BY DEF VerbAccepts, LoadAccepts, Specs

\* A new job's record is one that load accepts.
LEMMA SpecTypes == NewSpec \in Specs /\ LoadAccepts(NewSpec)
  BY DEF NewSpec, Specs, LoadAccepts

\* So is the empty store.
LEMMA EmptyTypes == EmptyStore \in Stores /\ Loads(EmptyStore)
  BY SpecTypes DEF EmptyStore, Stores, Loads

\* What is written from outside is no store, and no missing file.
LEMMA JunkTypes == {Odd, Junk} \subseteq Broken /\ Absent \notin Broken
  BY AbsentAssumption DEF Odd, Junk, Broken, Contents, Loads

\* What the migration makes of an old store.
LEMMA MigratedTypes ==
  ASSUME NEW c \in OldForms
  PROVE  /\ Migrated(c) \in Stores
         /\ Loads(c) => Loads(Migrated(c))
<1>1. c.names \in OldStores /\ c.spec \in Specs
  BY DEF OldForms
<1>2. MigratedNames(c.names) \subseteq JobNames
  BY <1>1, MigrationAssumption
<1> QED BY <1>1, <1>2 DEF Migrated, Stores, Loads

\* A content is what its form says.
LEMMA FormTypes ==
  ASSUME NEW c \in Contents
  PROVE  /\ c.form = "v2" => c \in Stores
         /\ c.form = "v1" => c \in OldForms
         /\ ~Parses(c) => ~Loads(c)
  BY DEF Contents, Stores, OldForms, Odd, Junk, Parses, Loads

\* The jobs of the copies have names.
LEMMA KeptTypes ==
  ASSUME NEW c \in Contents \cup {Absent}
  PROVE  JobsIn(c) \subseteq JobNames
<1>1. CASE c # Absent /\ Loads(c) /\ c.form = "v1"
  BY <1>1, FormTypes, MigrationAssumption DEF JobsIn, OldForms
<1>2. CASE c # Absent /\ Loads(c) /\ c.form = "v2"
  BY <1>2, FormTypes DEF JobsIn, Stores
<1>3. CASE c = Absent \/ ~Loads(c)
  BY <1>3 DEF JobsIn
<1> QED BY <1>1, <1>2, <1>3 DEF Loads

\* A copy that starts keeps the locals' type, and the store in memory.
LEMMA CopyingTypes ==
  ASSUME me \in Locals, NEW src \in Names, NEW dst \in Names, NEW ret \in Pcs
  PROVE  Copying(src, dst, ret) \in Locals
<1> DEFINE s == [me EXCEPT !.src = src]
           d == [s EXCEPT !.dst = dst]
           r == [d EXCEPT !.ret = ret]
           c == [r EXCEPT !.pc = "copy"]
<1>1. s \in Locals
  BY DEF Locals
<1>2. d \in Locals
  BY <1>1 DEF Locals
<1>3. r \in Locals
  BY <1>2 DEF Locals
<1>4. c \in Locals
  BY <1>3 DEF Locals, Pcs
<1>5. Copying(src, dst, ret) = c
  BY DEF Copying
<1> QED BY <1>4, <1>5

LEMMA CopyingKeepsMem ==
  ASSUME me \in Locals, NEW src, NEW dst, NEW ret
  PROVE  Copying(src, dst, ret).mem = me.mem
<1> DEFINE s == [me EXCEPT !.src = src]
           d == [s EXCEPT !.dst = dst]
           r == [d EXCEPT !.ret = ret]
           c == [r EXCEPT !.pc = "copy"]
<1>1. c.mem = me.mem
  BY DEF Locals
<1>2. Copying(src, dst, ret) = c
  BY DEF Copying
<1> QED BY <1>1, <1>2

\* A verb at rest has the locals of one.
LEMMA IdleTypes == Idle \in Locals
<1>1. (CHOOSE s \in Seconds : TRUE) \in Seconds
  BY StoreAssumption
<1> QED BY <1>1, EmptyTypes DEF Idle, Locals, Pcs, Verbs, Names

\* What is put away keeps its type.
LEMMA PutAwayTypes ==
  ASSUME TypeOK, NEW name \in CopyNames, NEW jobs \in SUBSET JobNames, NEW others \in SUBSET copies,
         PutAway(name, jobs, others)
  PROVE  copies' \subseteq [name : CopyNames, jobs : SUBSET JobNames] /\ over' \in SUBSET JobNames
<1> DEFINE replaced == {c \in others : c.name = name}
<1>1. /\ copies' = (others \ replaced) \cup {[name |-> name, jobs |-> jobs]}
      /\ over' = over \cup ((UNION {c.jobs : c \in replaced}) \ jobs)
  BY DEF PutAway
<1>2. \A c \in others : c \in [name : CopyNames, jobs : SUBSET JobNames]
  BY DEF TypeOK
<1>3. UNION {c.jobs : c \in replaced} \subseteq JobNames
  BY <1>2
<1>4. over \subseteq JobNames
  BY DEF TypeOK
<1>5. [name |-> name, jobs |-> jobs] \in [name : CopyNames, jobs : SUBSET JobNames]
  OBVIOUS
<1> HIDE DEF replaced
<1> QED BY <1>1, <1>2, <1>3, <1>4, <1>5 DEF replaced

\* What is put away is in a copy, and what it replaces is remembered.
LEMMA PutAwayKeeps ==
  ASSUME NEW name, NEW jobs, NEW others, PutAway(name, jobs, others)
  PROVE  over \cup (UNION {c.jobs : c \in others}) \cup jobs \subseteq PutJobs'
<1> DEFINE replaced == {c \in others : c.name = name}
           new == [name |-> name, jobs |-> jobs]
<1>1. copies' = (others \ replaced) \cup {new}
  BY DEF PutAway
<1>2. over' = over \cup ((UNION {c.jobs : c \in replaced}) \ jobs)
  BY DEF PutAway
<1>3. jobs \subseteq PutJobs'
  <2>1. new \in copies' /\ new.jobs = jobs
    BY <1>1
  <2> QED BY <2>1 DEF PutJobs
<1>4. ASSUME NEW c \in others PROVE c.jobs \subseteq PutJobs'
  <2>1. CASE c \in replaced
    <3>1. c.jobs \subseteq over' \cup jobs
      BY <1>2, <2>1
    <3> QED BY <1>3, <3>1 DEF PutJobs
  <2>2. CASE c \notin replaced
    <3>1. c \in copies'
      BY <1>1, <2>2
    <3> QED BY <3>1 DEF PutJobs
  <2> QED BY <2>1, <2>2
<1>5. over \subseteq PutJobs'
  BY <1>2 DEF PutJobs
<1> QED BY <1>3, <1>4, <1>5

\* Init establishes the invariant.
LEMMA InitStoreInv == Init => StoreInv
<1> SUFFICES ASSUME Init PROVE StoreInv
  OBVIOUS
<1>1. PICK first \in {Absent} \cup {[form |-> "v1", names |-> old, spec |-> NewSpec] : old \in OldStores} :
        file = [f \in Names |-> IF f = "jobs.json" THEN first ELSE Absent]
  BY DEF Init
<1>2. first \in Contents \cup {Absent} /\ (first # Absent => Loads(first))
  BY SpecTypes DEF Contents, OldForms, Loads
<1>3. file \in [Names -> Contents \cup {Absent}]
  BY <1>1, <1>2
<1>4. me = Idle /\ Idle \in Locals
  BY IdleTypes DEF Init
<1>5. TypeOK
  <2>1. /\ copies = {} /\ acked = {} /\ over = {}
        /\ adds = 0 /\ damage = 0 /\ stops = 0
    BY DEF Init
  <2>2. adds \in 0..MaxAdds /\ damage \in 0..MaxDamage /\ stops \in 0..MaxStops
    BY <2>1, StoreAssumption
  <2> QED BY <1>3, <1>4, <2>1, <2>2 DEF TypeOK
<1>6. CopyInv /\ SafeInv
  BY <1>4 DEF Idle, CopyInv, SafeInv
<1>7. LoadInv
  BY <1>1, <1>2, <1>4, EmptyTypes DEF LoadInv, SavedStoreLoads, Idle
<1> QED BY <1>5, <1>6, <1>7 DEF StoreInv

\* Every step keeps the types.
LEMMA TypeStep == TypeOK /\ CopyInv /\ [Next]_vars => TypeOK'
<1> SUFFICES ASSUME TypeOK, CopyInv, [Next]_vars PROVE TypeOK'
  OBVIOUS
<1> USE DEF TypeOK, Goto, Refuse, counts, history, Store, Bak
<1>i. Idle \in Locals
  BY IdleTypes
<1>n. "jobs.json" \in Names /\ "bak" \in Names
  BY DEF Names
<1>p. \A pc \in Pcs : [me EXCEPT !.pc = pc] \in Locals
  BY DEF Locals
<1>c. \A src, dst \in Names, ret \in Pcs : Copying(src, dst, ret) \in Locals
  BY CopyingTypes
<1>1. ASSUME NEW verb \in Verbs, Begin(verb) PROVE TypeOK'
  <2>1. me' \in Locals
    BY <1>1 DEF Begin, Locals, Pcs
  <2> QED BY <1>1, <2>1 DEF Begin
<1>2. CASE Look
  <2>1. [me EXCEPT !.mem = EmptyStore, !.pc = "edit"] \in Locals
    BY EmptyTypes DEF Locals, Pcs
  <2>2. me' \in Locals
    BY <1>2, <1>i, <1>p, <2>1 DEF Look, Pcs
  <2>3. UNCHANGED <<file, copies, counts, history>>
    BY <1>2 DEF Look
  <2> QED BY <2>2, <2>3
<1>3. CASE Read
  <2>1. CASE ~Parses(Store) \/ ~Loads(Store)
    <3>1. me' \in Locals
      BY <1>3, <2>1, <1>i, <1>p DEF Read, Pcs
    <3> QED BY <1>3, <3>1 DEF Read
  <2>2. CASE Parses(Store) /\ Loads(Store) /\ Store.form = "v2"
    <3>1. me' = [me EXCEPT !.mem = Store, !.pc = "edit"]
      BY <1>3, <2>2 DEF Read
    <3>2. Store \in Contents
      BY <1>3 DEF Read, CopyInv, Names
    <3>3. Store \in Stores
      BY <2>2, <3>2, FormTypes
    <3>4. me' \in Locals
      BY <3>1, <3>3 DEF Locals, Pcs
    <3> QED BY <1>3, <3>4 DEF Read
  <2>3. CASE Parses(Store) /\ Loads(Store) /\ Store.form # "v2"
    <3>1. me' = [Copying("jobs.json", "v1.bak", "save") EXCEPT !.mem = Migrated(Store), !.then = "edit"]
      BY <1>3, <2>3 DEF Read
    <3>2. Store \in Contents
      BY <1>3 DEF Read, CopyInv, Names
    <3>3. Migrated(Store) \in Stores
      BY <2>3, <3>2, FormTypes, MigratedTypes DEF Loads
    <3>4. Copying("jobs.json", "v1.bak", "save") \in Locals
      BY <1>c DEF Names, Pcs
    <3>5. me' \in Locals
      BY <3>1, <3>3, <3>4 DEF Locals
    <3> QED BY <1>3, <3>5 DEF Read
  <2> QED BY <2>1, <2>2, <2>3
<1>4. CASE SetAside
  <2>1. JobsIn(Store) \in SUBSET JobNames
    BY <1>n, KeptTypes
  <2>2. PICK s \in Seconds : PutAway(<<"aside", s>>, JobsIn(Store), copies)
    BY <1>4 DEF SetAside
  <2>3. <<"aside", s>> \in CopyNames
    BY DEF CopyNames
  <2>4. copies' \subseteq [name : CopyNames, jobs : SUBSET JobNames] /\ over' \in SUBSET JobNames
    BY <2>1, <2>2, <2>3, PutAwayTypes
  <2> QED BY <1>4, <1>i, <1>n, <2>4 DEF SetAside
<1>5. CASE Edit
  <2>1. UNCHANGED <<file, copies, damage, stops, history>>
    BY <1>5 DEF Edit
  <2>2. me' \in Locals /\ adds' \in 0..MaxAdds
    <3>1. CASE me.verb = "add" /\ adds < MaxAdds
      <4>1. /\ adds' = adds + 1
            /\ me' = [me EXCEPT !.mem.jobs = @ \cup {<<adds + 1, 1>>}, !.pc = "save"]
        BY <1>5, <3>1 DEF Edit
      <4>2. <<adds + 1, 1>> \in JobNames
        BY <3>1, StoreAssumption DEF JobNames
      <4>3. [me.mem EXCEPT !.jobs = @ \cup {<<adds + 1, 1>>}] \in Stores
        BY <4>2 DEF Locals, Stores
      <4>4. adds' \in 0..MaxAdds
        BY <3>1, <4>1, StoreAssumption
      <4>5. me' = [me EXCEPT !.mem = [me.mem EXCEPT !.jobs = @ \cup {<<adds + 1, 1>>}], !.pc = "save"]
        BY <4>1
      <4> QED BY <4>3, <4>4, <4>5 DEF Locals, Pcs
    <3>2. CASE me.verb = "set"
      <4>1. PICK spec \in Edits :
              IF VerbAccepts(spec) THEN me' = [me EXCEPT !.mem.spec = spec, !.pc = "save"]
              ELSE me' = Idle
        BY <1>5, <3>2 DEF Edit
      <4>2. [me.mem EXCEPT !.spec = spec] \in Stores
        BY StoreAssumption DEF Locals, Stores
      <4>3. adds' = adds
        BY <1>5, <3>2 DEF Edit
      <4> QED BY <1>i, <4>1, <4>2, <4>3 DEF Locals, Pcs
    <3>3. CASE ~(me.verb = "add" /\ adds < MaxAdds) /\ me.verb # "set"
      <4>1. me' = Idle /\ adds' = adds
        BY <1>5, <3>3 DEF Edit
      <4> QED BY <1>i, <4>1
    <3> QED BY <3>1, <3>2, <3>3
  <2> QED BY <2>1, <2>2
<1>6. CASE Copy
  <2>1. me' \in Locals
    BY <1>6, <1>i, <1>p DEF Copy, Locals
  <2>2. file' \in [Names -> Contents \cup {Absent}]
    BY <1>6 DEF Copy, Locals
  <2> QED BY <1>6, <2>1, <2>2 DEF Copy
<1>7. CASE Save
  <2>1. me' \in Locals
    BY <1>7, <1>p, <1>c DEF Save, Pcs, Names
  <2> QED BY <1>7, <2>1 DEF Save
<1>8. CASE Replace
  <2>1. me.mem \in Contents
    BY DEF Locals, Contents
  <2>2. me' \in Locals
    BY <1>8, <1>p DEF Replace, Pcs
  <2> QED BY <1>8, <2>1, <2>2 DEF Replace
<1>9. CASE FirstBackup
  <2>1. UNCHANGED <<file, copies, counts, over>>
    BY <1>9 DEF FirstBackup
  <2>2. CASE me' = Copying("jobs.json", "bak", "first") /\ UNCHANGED acked
    BY <1>c, <2>1, <2>2 DEF Names, Pcs
  <2>3. CASE me' = [me EXCEPT !.then = "idle", !.pc = "edit"] /\ UNCHANGED acked
    <3>1. me' \in Locals
      BY <2>3 DEF Locals, Pcs
    <3> QED BY <2>1, <2>3, <3>1
  <2>4. CASE /\ me.then # "edit" /\ me' = Idle
             /\ acked' = IF me.verb = "add" THEN acked \cup {<<adds, 1>>} ELSE acked
    <3>1. <<adds, 1>> \in JobNames
      BY StoreAssumption DEF JobNames
    <3> QED BY <1>i, <2>1, <2>4, <3>1
  <2> QED BY <1>9, <2>2, <2>3, <2>4 DEF FirstBackup, Saved
<1>10. CASE Restore \/ Reset
  <2>1. me' \in Locals
    <3>1. CASE me' = Idle
      BY <1>i, <3>1
    <3>2. CASE Parks
      BY <3>2 DEF Parks, Locals, Pcs
    <3> QED BY <1>10, <3>1, <3>2 DEF Restore, Reset
  <2> QED BY <1>10, <2>1 DEF Restore, Reset
<1>11. CASE Park
  <2>1. copies' \subseteq [name : CopyNames, jobs : SUBSET JobNames] /\ over' \in SUBSET JobNames
    <3>1. JobsIn(Store) \in SUBSET JobNames /\ <<"corrupt", me.stamp>> \in CopyNames
      BY <1>n, KeptTypes DEF CopyNames, Locals
    <3>2. CASE PutAway(<<"corrupt", me.stamp>>, JobsIn(Store), copies)
      BY <3>1, <3>2, PutAwayTypes
    <3> QED BY <1>11, <3>2 DEF Park
  <2>2. me' \in Locals
    BY <1>11, <1>p DEF Park, Pcs
  <2> QED BY <1>11, <1>n, <2>1, <2>2 DEF Park
<1>12. CASE ParkStray
  <2>1. PICK c \in CopiesIn("aside") : PutAway(<<"corrupt", c.name[2]>>, c.jobs, copies \ {c})
    BY <1>12 DEF ParkStray
  <2>2. c \in copies /\ c.jobs \in SUBSET JobNames /\ c.name \in CopyNames
    BY <2>1 DEF CopiesIn
  <2>3. <<"corrupt", c.name[2]>> \in CopyNames
    BY <2>2 DEF CopyNames
  <2>4. copies' \subseteq [name : CopyNames, jobs : SUBSET JobNames] /\ over' \in SUBSET JobNames
    <3>1. copies \ {c} \in SUBSET copies
      OBVIOUS
    <3> QED BY <2>1, <2>2, <2>3, <3>1, PutAwayTypes
  <2> QED BY <1>12, <2>4 DEF ParkStray
<1>13. CASE StraysParked
  <2>1. me' \in Locals
    BY <1>13, <1>p, <1>c DEF StraysParked, Pcs, Names
  <2> QED BY <1>13, <2>1 DEF StraysParked
<1>17. CASE ParkBak
  <2>1. copies' \subseteq [name : CopyNames, jobs : SUBSET JobNames] /\ over' \in SUBSET JobNames
    <3>1. JobsIn(Bak) \in SUBSET JobNames /\ <<"corrupt_bak", me.stamp>> \in CopyNames
      BY <1>n, KeptTypes DEF CopyNames, Locals
    <3>2. CASE PutAway(<<"corrupt_bak", me.stamp>>, JobsIn(Bak), copies)
      BY <3>1, <3>2, PutAwayTypes
    <3> QED BY <1>17, <3>2 DEF ParkBak
  <2>2. me' \in Locals
    BY <1>17, EmptyTypes DEF ParkBak, Pcs, Locals
  <2> QED BY <1>17, <1>n, <2>1, <2>2 DEF ParkBak
<1>14. CASE Stop
  BY <1>14, <1>i, StoreAssumption DEF Stop
<1>15. CASE Damage
  <2>1. {Odd, Junk} \subseteq Contents
    BY DEF Contents
  <2>2. PICK f \in {"jobs.json", "bak"}, c \in {Odd, Junk} : file' = [file EXCEPT ![f] = c]
    BY <1>15 DEF Damage
  <2>3. file' \in [Names -> Contents \cup {Absent}]
    BY <2>1, <2>2
  <2>4. damage' \in 0..MaxDamage /\ UNCHANGED <<copies, me, adds, stops, history>>
    BY <1>15, StoreAssumption DEF Damage
  <2> QED BY <2>3, <2>4
<1>16. CASE UNCHANGED vars
  BY <1>16 DEF vars
<1> QED BY <1>1, <1>2, <1>3, <1>4, <1>5, <1>6, <1>7, <1>8, <1>9, <1>10, <1>11, <1>12, <1>13,
           <1>14, <1>15, <1>16, <1>17 DEF Next, Step

\* Every step keeps what the steps of a verb rely on, damage included: a
\* damaged store or backup only makes a replacement safer.
LEMMA SafeStep == TypeOK /\ CopyInv /\ SafeInv /\ [Next]_vars => CopyInv' /\ SafeInv'
<1> SUFFICES ASSUME TypeOK, CopyInv, SafeInv, [Next]_vars PROVE CopyInv' /\ SafeInv'
  OBVIOUS
<1> USE DEF Goto, Refuse, Store, Bak
<1>t. me \in Locals /\ file \in [Names -> Contents \cup {Absent}]
  BY DEF TypeOK
<1>f. "jobs.json" \in Names /\ "bak" \in Names /\ "v1.bak" \in Names
  BY DEF Names
<1>c. Store \in Contents \cup {Absent} /\ Bak \in Contents \cup {Absent}
  BY <1>t, <1>f
<1>e. /\ Idle.pc = "idle" /\ [me EXCEPT !.then = "idle", !.pc = "edit"].pc = "edit"
      /\ \A mem : /\ [me EXCEPT !.mem = mem, !.pc = "save"].pc = "save"
                  /\ [me EXCEPT !.mem = mem, !.pc = "edit"].pc = "edit"
  BY <1>t DEF Idle, Locals
<1>0. CASE me'.pc \in {"idle", "look", "edit", "reset", "save", "first"}
  BY <1>0 DEF CopyInv, SafeInv
<1>1. ASSUME NEW verb \in Verbs, Begin(verb) PROVE CopyInv' /\ SafeInv'
  <2>1. me'.pc \in {"look", "restore", "reset"} /\ me'.verb = verb
        /\ (me'.pc = "restore" => verb = "restore")
    BY <1>1, <1>t DEF Begin, Locals
  <2> QED BY <2>1 DEF CopyInv, SafeInv
<1>2. CASE Look
  <2>1. CASE Store # Absent
    <3>1. me' = [me EXCEPT !.pc = "read"] /\ file' = file
      BY <1>2, <2>1 DEF Look
    <3> QED BY <1>t, <2>1, <3>1 DEF Locals, CopyInv, SafeInv
  <2>2. CASE Store = Absent
    <3>1. me' = Idle \/ me' = [me EXCEPT !.mem = EmptyStore, !.pc = "edit"]
      BY <1>2, <2>2 DEF Look
    <3>2. me'.pc \in {"idle", "edit"}
      BY <1>e, <3>1
    <3> QED BY <1>0, <3>2
  <2> QED BY <2>1, <2>2
<1>3. CASE Read
  <2>1. Store \in Contents
    BY <1>3, <1>c DEF Read, CopyInv
  <2>2. CASE ~Parses(Store)
    <3>1. me' = [me EXCEPT !.pc = "aside"] /\ file' = file /\ Store \in Broken
      BY <1>3, <2>1, <2>2, FormTypes DEF Read, Broken
    <3> QED BY <1>t, <2>1, <3>1, AbsentAssumption DEF CopyInv, SafeInv, Locals
  <2>3. CASE Parses(Store)
    <3>1. CASE me' = Idle \/ me' = [me EXCEPT !.mem = Store, !.pc = "edit"]
      <4>1. me'.pc \in {"idle", "edit"}
        BY <1>e, <3>1
      <4> QED BY <1>0, <4>1
    <3>2. CASE me' = [Copying("jobs.json", "v1.bak", "save") EXCEPT !.mem = Migrated(Store),
                                                                      !.then = "edit"]
      <4>1. me'.pc = "copy" /\ me'.src = "jobs.json" /\ me'.dst = "v1.bak" /\ me'.ret = "save"
        BY <1>t, <3>2 DEF Copying, Locals
      <4> QED BY <4>1 DEF CopyInv, SafeInv
    <3> QED BY <1>3, <2>3, <3>1, <3>2 DEF Read
  <2> QED BY <2>2, <2>3
<1>4. CASE SetAside
  BY <1>0, <1>4 DEF SetAside, Idle
<1>5. CASE Edit
  <2>1. me'.pc \in {"idle", "save"}
    <3>3. CASE me' = [me EXCEPT !.mem.jobs = @ \cup {<<adds + 1, 1>>}, !.pc = "save"]
      BY <1>e, <3>3
    <3>4. CASE \E spec \in Edits :
                 IF VerbAccepts(spec) THEN me' = [me EXCEPT !.mem.spec = spec, !.pc = "save"]
                 ELSE me' = Idle
      BY <1>e, <3>4
    <3> QED BY <1>5, <1>e, <3>3, <3>4 DEF Edit
  <2> QED BY <1>0, <2>1
<1>6. CASE Copy
  <2>1. CASE me' = Idle
    BY <1>0, <2>1 DEF Idle
  <2>2. CASE file' = [file EXCEPT ![me.dst] = file[me.src]] /\ me' = [me EXCEPT !.pc = me.ret]
    <3>1. me'.pc = me.ret
      BY <1>t, <2>2 DEF Locals
    <3>2. CASE me.ret \in {"first", "save", "look"}
      BY <1>0, <3>1, <3>2
    <3>3. CASE me.ret = "replace"
      <4>1. file' = [file EXCEPT !["bak"] = file["jobs.json"]]
        BY <1>6, <2>2, <3>3 DEF Copy, CopyInv
      <4> QED BY <1>t, <1>f, <3>1, <3>3, <4>1 DEF CopyInv, SafeInv
    <3> QED BY <1>6, <3>2, <3>3 DEF Copy, CopyInv
  <2> QED BY <1>6, <2>1, <2>2 DEF Copy
<1>7. CASE Save
  BY <1>7, <1>t DEF Save, Copying, Locals, CopyInv, SafeInv, Unreadable
<1>8. CASE Replace
  BY <1>0, <1>8, <1>t DEF Replace, Locals
<1>9. CASE FirstBackup
  <2>1. CASE me' = Copying("jobs.json", "bak", "first")
    <3>1. me'.pc = "copy" /\ me'.src = "jobs.json" /\ me'.dst = "bak" /\ me'.ret = "first"
      BY <1>t, <2>1 DEF Copying, Locals
    <3> QED BY <3>1 DEF CopyInv, SafeInv
  <2>2. CASE me' = [me EXCEPT !.then = "idle", !.pc = "edit"] \/ me' = Idle
    <3>1. me'.pc \in {"idle", "edit"}
      BY <1>e, <2>2
    <3> QED BY <1>0, <3>1
  <2> QED BY <1>9, <2>1, <2>2 DEF FirstBackup, Saved
<1>10. CASE Restore
  <2>1. CASE me' = Idle
    BY <1>0, <2>1 DEF Idle
  <2>2. CASE Bak # Absent /\ Parks /\ file' = file
    <3>1. me'.pc = "park" /\ me'.verb = "restore"
      BY <1>10, <1>t, <2>2 DEF Parks, Locals, Restore, SafeInv
    <3> QED BY <2>2, <3>1 DEF CopyInv, SafeInv
  <2> QED BY <1>10, <2>1, <2>2 DEF Restore
<1>11. CASE Reset
  <2>1. CASE me' = Idle
    BY <1>0, <2>1 DEF Idle
  <2>2. CASE (Store = Absent \/ ~Loads(Store)) /\ (Bak = Absent \/ ~Loads(Bak)) /\ Parks
    <3>1. me'.pc = "park" /\ me'.verb = me.verb
      BY <1>t, <2>2 DEF Parks, Locals
    <3>2. Store \in Unreadable /\ Bak \in Unreadable /\ file' = file
      BY <1>11, <1>c, <2>2 DEF Reset, Unreadable, Broken
    <3> QED BY <3>1, <3>2 DEF CopyInv, SafeInv
  <2> QED BY <1>11, <2>1, <2>2 DEF Reset
<1>12. CASE Park
  BY <1>12, <1>t, <1>f DEF Park, Locals, CopyInv, SafeInv
<1>13. CASE StraysParked
  BY <1>13, <1>t, <1>f DEF StraysParked, Copying, Locals, CopyInv, SafeInv
<1>18. CASE ParkStray
  BY <1>18 DEF ParkStray, CopyInv, SafeInv
<1>14. CASE ParkBak
  BY <1>0, <1>14, <1>t DEF ParkBak, Locals
<1>15. CASE Stop
  BY <1>0, <1>15 DEF Stop, Idle
<1>16. CASE Damage
  <2>1. PICK f \in {"jobs.json", "bak"}, c \in {Odd, Junk} :
          file[f] # Absent /\ file' = [file EXCEPT ![f] = c]
    BY <1>16 DEF Damage
  <2>2. me' = me /\ c \in Broken /\ c # Absent
    BY <1>16, JunkTypes DEF Damage
  <2>3. CASE f = "jobs.json"
    <3>1. Store' = c /\ Bak' = Bak
      BY <1>t, <1>f, <2>1, <2>3
    <3> QED BY <2>1, <2>2, <2>3, <3>1 DEF CopyInv, SafeInv, Unreadable
  <2>4. CASE f = "bak"
    <3>1. Store' = Store /\ Bak' = c
      BY <1>t, <1>f, <2>1, <2>4
    <3> QED BY <2>1, <2>2, <2>4, <3>1 DEF CopyInv, SafeInv, Unreadable
  <2> QED BY <2>3, <2>4
<1>17. CASE UNCHANGED vars
  BY <1>17 DEF vars, CopyInv, SafeInv
<1> QED BY <1>1, <1>2, <1>3, <1>4, <1>5, <1>6, <1>7, <1>8, <1>9, <1>10, <1>11, <1>12, <1>13,
           <1>14, <1>15, <1>16, <1>17, <1>18 DEF Next, Step

\* The store in memory is one that load takes, after every step.
LEMMA MemoryStep == TypeOK /\ CopyInv /\ Loads(me.mem) /\ [Next]_vars => Loads(me'.mem)
<1> SUFFICES ASSUME TypeOK, CopyInv, Loads(me.mem), [Next]_vars PROVE Loads(me'.mem)
  OBVIOUS
<1> USE DEF Goto, Refuse, Store, Bak
<1>t. me \in Locals /\ file \in [Names -> Contents \cup {Absent}]
  BY DEF TypeOK
<1>e. Loads(Idle.mem)
  BY EmptyTypes DEF Idle
<1>m. /\ \A mem, pc : [me EXCEPT !.mem = mem, !.pc = pc].mem = mem
      /\ \A pc : [me EXCEPT !.pc = pc].mem = me.mem
      /\ \A src, dst, ret : Copying(src, dst, ret).mem = me.mem
      /\ \A src, dst, ret, mem : [Copying(src, dst, ret) EXCEPT !.mem = mem, !.then = "edit"].mem = mem
      /\ \A verb, pc : [me EXCEPT !.verb = verb, !.pc = pc].mem = me.mem
      /\ [me EXCEPT !.then = "idle", !.pc = "edit"].mem = me.mem
  BY <1>t DEF Locals, Copying
<1>1. CASE \E verb \in Verbs \ {"none"} : Begin(verb)
  BY <1>1, <1>m DEF Begin
<1>2. CASE me' = Idle \/ me' = me
  BY <1>2, <1>e
<1>10. ASSUME NEW pc, me' = [me EXCEPT !.pc = pc] PROVE Loads(me'.mem)
  <2>1. me'.mem = me.mem
    BY <1>t, <1>10 DEF Locals
  <2> QED BY <2>1
<1>11. ASSUME NEW pc, me' = [me EXCEPT !.mem = EmptyStore, !.pc = pc] PROVE Loads(me'.mem)
  <2>1. me'.mem = EmptyStore
    BY <1>t, <1>11 DEF Locals
  <2> QED BY <2>1, EmptyTypes
<1>12. ASSUME NEW src, NEW dst, NEW ret, me' = Copying(src, dst, ret) PROVE Loads(me'.mem)
  <2>1. me'.mem = me.mem
    BY <1>t, <1>12, CopyingKeepsMem
  <2> QED BY <2>1
<1>13. CASE me' = [me EXCEPT !.then = "idle", !.pc = "edit"]
  <2>1. me'.mem = me.mem
    BY <1>t, <1>13 DEF Locals
  <2> QED BY <2>1
<1>3. CASE Look
  <2>1. me' = Idle \/ me' = [me EXCEPT !.pc = "read"]
        \/ me' = [me EXCEPT !.mem = EmptyStore, !.pc = "edit"]
    BY <1>3 DEF Look
  <2> QED BY <1>2, <1>10, <1>11, <1>12, <1>13, <2>1
<1>9. CASE Read
  <2>1. Store \in Contents
    BY <1>9, <1>t DEF Read, CopyInv, Names
  <2>2. CASE me' = Idle \/ me' = [me EXCEPT !.pc = "aside"]
    BY <1>2, <1>10, <2>2
  <2>3. CASE Loads(Store) /\ me' = [me EXCEPT !.mem = Store, !.pc = "edit"]
    BY <1>m, <2>3
  <2>4. CASE /\ Loads(Store) /\ Store.form # "v2"
             /\ me' = [Copying("jobs.json", "v1.bak", "save") EXCEPT !.mem = Migrated(Store),
                                                                    !.then = "edit"]
    <3>1. Loads(Migrated(Store))
      BY <2>1, <2>4, FormTypes, MigratedTypes DEF Loads
    <3> QED BY <1>m, <2>4, <3>1
  <2> QED BY <1>9, <2>2, <2>3, <2>4 DEF Read
<1>4. CASE Edit
  <2>1. me.mem \in Stores
    BY <1>t DEF Locals
  <2>2. CASE me' = [me EXCEPT !.mem.jobs = @ \cup {<<adds + 1, 1>>}, !.pc = "save"]
    <3>1. me'.mem = [me.mem EXCEPT !.jobs = @ \cup {<<adds + 1, 1>>}]
      BY <1>m, <2>2
    <3> QED BY <2>1, <3>1 DEF Loads, Stores
  <2>3. CASE \E spec \in Edits : VerbAccepts(spec) /\ me' = [me EXCEPT !.mem.spec = spec, !.pc = "save"]
    <3>1. PICK spec \in Edits : VerbAccepts(spec) /\ me' = [me EXCEPT !.mem.spec = spec, !.pc = "save"]
      BY <2>3
    <3>2. me'.mem = [me.mem EXCEPT !.spec = spec]
      BY <1>m, <3>1
    <3>3. LoadAccepts(spec)
      BY <3>1, StoreAssumption, VerbIsNoLaxer
    <3> QED BY <2>1, <3>2, <3>3 DEF Loads, Stores
  <2>4. CASE me' = Idle
    BY <1>e, <2>4
  <2> QED BY <1>4, <2>2, <2>3, <2>4 DEF Edit
<1>5. CASE Copy \/ Save \/ Replace
  <2>1. \/ me' = Idle \/ me' = [me EXCEPT !.pc = me.ret] \/ me' = [me EXCEPT !.pc = "replace"]
        \/ me' = Copying("jobs.json", "bak", "replace") \/ me' = [me EXCEPT !.pc = "first"]
    BY <1>5 DEF Copy, Save, Replace
  <2> QED BY <1>2, <1>10, <1>11, <1>12, <1>13, <2>1
<1>6. CASE FirstBackup
  <2>1. \/ me' = Idle \/ me' = Copying("jobs.json", "bak", "first")
        \/ me' = [me EXCEPT !.then = "idle", !.pc = "edit"]
    BY <1>6 DEF FirstBackup, Saved
  <2> QED BY <1>2, <1>10, <1>11, <1>12, <1>13, <2>1
<1>7. CASE Restore \/ Reset \/ Park \/ StraysParked \/ ParkBak
  <2>1. \/ me' = Idle \/ Parks \/ me' = [me EXCEPT !.pc = "strays"]
        \/ me' = Copying("bak", "jobs.json", "look") \/ me' = [me EXCEPT !.pc = "bak"]
        \/ me' = [me EXCEPT !.mem = EmptyStore, !.pc = "save"]
    BY <1>7 DEF Restore, Reset, Park, StraysParked, ParkBak
  <2>2. CASE Parks
    <3>1. me'.mem = me.mem
      BY <1>t, <2>2 DEF Parks, Locals
    <3> QED BY <3>1
  <2> QED BY <1>2, <1>10, <1>11, <1>12, <1>13, <2>1, <2>2
<1>8. CASE SetAside \/ ParkStray \/ Stop \/ Damage \/ UNCHANGED vars
  BY <1>2, <1>8 DEF SetAside, ParkStray, Stop, Damage, vars
<1> QED BY <1>1, <1>3, <1>4, <1>5, <1>6, <1>7, <1>8, <1>9 DEF Next, Step

\* And so is every file that nothing has written over.
LEMMA FilesStep == TypeOK /\ LoadInv /\ [Next]_vars => SavedStoreLoads'
<1> SUFFICES ASSUME TypeOK, LoadInv, [Next]_vars, (damage = 0)',
                    NEW f \in Names, file'[f] # Absent
             PROVE  Loads(file'[f])
  BY DEF SavedStoreLoads
<1> USE DEF counts, Store, Bak
<1>t. me \in Locals /\ file \in [Names -> Contents \cup {Absent}] /\ damage \in Nat
  BY StoreAssumption DEF TypeOK
<1>1. CASE Copy \/ Replace \/ Park \/ ParkBak \/ SetAside
  <2>1. damage = 0 /\ Loads(me.mem) /\ \A g \in Names : file[g] # Absent => Loads(file[g])
    BY <1>1 DEF Copy, Replace, Park, ParkBak, SetAside, LoadInv, SavedStoreLoads
  <2>2. file'[f] \in {Absent, me.mem} \cup {file[g] : g \in Names}
    BY <1>1, <1>t DEF Copy, Replace, Park, ParkBak, SetAside, Locals
  <2> QED BY <2>1, <2>2
<1>2. CASE file' = file /\ damage' = damage
  BY <1>2 DEF LoadInv, SavedStoreLoads
<1>3. CASE Damage
  BY <1>3, <1>t DEF Damage
<1>4. CASE \/ \E verb \in Verbs \ {"none"} : Begin(verb)
           \/ Look \/ Read \/ Edit \/ Save \/ FirstBackup \/ Restore \/ Reset \/ ParkStray \/ StraysParked \/ Stop
           \/ UNCHANGED vars
  BY <1>2, <1>4 DEF Begin, Look, Read, Edit, Save, FirstBackup, Restore, Reset, ParkStray, StraysParked, Stop, vars
<1> QED BY <1>1, <1>3, <1>4 DEF Next, Step

\* Every step is one of the register's, or none that it sees.
LEMMA RegisterStep == StoreInv /\ [Next]_vars => [Register!Next]_<<file["jobs.json"], file["bak"]>>
<1> SUFFICES ASSUME StoreInv, [Next]_vars PROVE [Register!Next]_<<Store, Bak>>
  BY DEF Store, Bak
<1> USE DEF StoreInv, Store, Bak
<1>t. /\ me \in Locals /\ file \in [Names -> Contents \cup {Absent}]
      /\ "jobs.json" \in Names /\ "bak" \in Names /\ "v1.bak" \in Names
  BY DEF TypeOK, Names
<1>c. Store \in Contents \cup {Absent} /\ Bak \in Contents \cup {Absent}
  BY <1>t
<1>1. CASE Copy
  <2>1. CASE UNCHANGED file
    BY <2>1
  <2>2. CASE file[me.src] # Absent /\ file' = [file EXCEPT ![me.dst] = file[me.src]]
    <3>1. CASE me.src = "jobs.json" /\ me.dst = "bak"
      <4>1. Register!Keep
        BY <1>t, <2>2, <3>1 DEF Register!Keep
      <4> QED BY <4>1 DEF Register!Next
    <3>2. CASE me.src = "jobs.json" /\ me.dst = "v1.bak"
      BY <1>t, <2>2, <3>2
    <3>3. CASE me.src = "bak" /\ me.dst = "jobs.json" /\ Store = Absent
      <4>1. Register!BringBack
        BY <1>t, <2>2, <3>3 DEF Register!BringBack
      <4> QED BY <4>1 DEF Register!Next
    <3> QED BY <1>1, <3>1, <3>2, <3>3 DEF Copy, CopyInv
  <2> QED BY <1>1, <2>1, <2>2 DEF Copy
<1>2. CASE Replace
  <2>1. Store' = me.mem /\ Bak' = Bak /\ me.mem \in Stores
    BY <1>2, <1>t DEF Replace, Locals
  <2>2. Store \in Unreadable \/ Bak = Store \/ Bak \in Broken
    BY <1>2 DEF Replace, SafeInv
  <2>3. Register!Commit
    BY <2>1, <2>2 DEF Register!Commit, Unreadable, Broken
  <2> QED BY <2>3 DEF Register!Next
<1>3. CASE SetAside \/ Park
  <2>1. Store' = Absent /\ Bak' = Bak
    BY <1>3, <1>t DEF SetAside, Park
  <2>2. Store = Absent \/ Store \in Broken \/ Bak # Absent
    BY <1>3 DEF SetAside, Park, SafeInv, Unreadable
  <2>3. CASE Store = Absent
    BY <2>1, <2>3
  <2>4. CASE Store # Absent
    <3>1. Register!Withdraw
      BY <2>1, <2>2, <2>4 DEF Register!Withdraw, Broken
    <3> QED BY <3>1 DEF Register!Next
  <2> QED BY <2>3, <2>4
<1>4. CASE ParkBak
  <2>1. Store' = Store /\ Bak' = Absent /\ Store = Absent /\ Bak \in Unreadable
    BY <1>4, <1>t DEF ParkBak, SafeInv
  <2>2. CASE Bak = Absent
    BY <2>1, <2>2
  <2>3. CASE Bak # Absent
    <3>1. Register!Discard
      BY <2>1, <2>3 DEF Register!Discard, Unreadable, Broken
    <3> QED BY <3>1 DEF Register!Next
  <2> QED BY <2>2, <2>3
<1>5. CASE Damage
  <2>1. PICK f \in {"jobs.json", "bak"}, c \in {Odd, Junk} :
          file[f] # Absent /\ file' = [file EXCEPT ![f] = c]
    BY <1>5 DEF Damage
  <2>2. c \in Broken
    BY JunkTypes
  <2>3. Register!Damage
    BY <1>t, <2>1, <2>2 DEF Register!Damage, Broken
  <2> QED BY <2>3 DEF Register!Next
<1>6. CASE UNCHANGED file
  BY <1>6
<1>7. CASE \/ \E verb \in Verbs \ {"none"} : Begin(verb)
           \/ Look \/ Read \/ Edit \/ Save \/ FirstBackup \/ Restore \/ Reset \/ ParkStray \/ StraysParked \/ Stop
           \/ UNCHANGED vars
  BY <1>6, <1>7 DEF Begin, Look, Read, Edit, Save, FirstBackup, Restore, Reset, ParkStray, StraysParked, Stop, vars
<1> QED BY <1>1, <1>2, <1>3, <1>4, <1>5, <1>7 DEF Next, Step

\* The jobs of a store that loads are those it lists.
LEMMA JobsOfStore ==
  /\ \A c \in Stores : Loads(c) => JobsIn(c) = c.jobs
  /\ \A c \in OldForms : Loads(c) => JobsIn(c) = Migrated(c).jobs
  /\ JobsIn(Absent) = {} /\ JobsIn(EmptyStore) = {}
  /\ \A c \in Broken : JobsIn(c) = {}
  BY AbsentAssumption, EmptyTypes DEF JobsIn, Stores, OldForms, Migrated, Contents, Broken, EmptyStore

\* A step that ends the verb, or leaves the verb, the store and the counters
\* alone, keeps what an add has in memory.
LEMMA MemIdle ==
  ASSUME MemInv, AddInv,
         me' = Idle \/ (me' = me /\ Store' = Store /\ adds' = adds /\ damage' = damage)
  PROVE  MemInv' /\ AddInv'
<1>1. CASE me' = Idle
  BY <1>1 DEF Idle, MemInv, AddInv, Nears
<1>2. CASE me' = me /\ Store' = Store /\ adds' = adds /\ damage' = damage
  BY <1>2 DEF MemInv, AddInv, Nears, Store, JobsIn
<1> QED BY <1>1, <1>2

\* A verb that goes on towards its save keeps what it has in memory.
LEMMA MemGoesOn ==
  ASSUME TypeOK, MemInv, AddInv, Store' = Store, adds' = adds, damage' = damage,
         me'.mem = me.mem, me'.verb = me.verb,
         me'.then = me.then \/ ~Nears({"save", "replace", "first"})',
         Nears({"edit", "save", "replace", "first"}),
         Nears({"save", "replace", "first"})' => Nears({"save", "replace", "first"}),
         Nears({"first"})' => Nears({"first"}),
         me'.pc \notin {"restore", "reset", "park", "strays", "bak"}
  PROVE  MemInv' /\ AddInv'
<1>1. JobsIn(Store)' \subseteq me'.mem.jobs
  BY DEF MemInv, JobsIn, Loads
<1>2. (damage = 0 /\ Nears({"first"}) => Store = me.mem)'
  BY DEF MemInv
<1>3. AddInv'
  BY DEF AddInv
<1> QED BY <1>1, <1>2, <1>3 DEF MemInv

\* What an add has in memory is kept by every step.
LEMMA MemKeptStep == StoreInv /\ MemInv /\ AddInv /\ [Next]_vars => MemInv' /\ AddInv'
<1> SUFFICES ASSUME StoreInv, MemInv, AddInv, [Next]_vars PROVE MemInv' /\ AddInv'
  OBVIOUS
<1> USE DEF Goto, Refuse, counts
<1>t. /\ TypeOK /\ CopyInv /\ SafeInv /\ LoadInv
      /\ me \in Locals /\ file \in [Names -> Contents \cup {Absent}]
      /\ "jobs.json" \in Names /\ "bak" \in Names /\ "v1.bak" \in Names
      /\ me.mem \in Stores
  BY DEF StoreInv, TypeOK, Names, Locals
<1>1. ASSUME NEW verb \in Verbs, Begin(verb) PROVE MemInv' /\ AddInv'
  <2>1. /\ me'.verb = verb /\ me'.pc \in {"look", "restore", "reset"}
        /\ me'.pc \in {"restore", "reset"} => verb \in {"restore", "reset"}
    BY <1>1, <1>t DEF Begin, Locals
  <2> QED BY <2>1 DEF MemInv, AddInv, Nears
<1>2. CASE Look
  <2>1. CASE me' = [me EXCEPT !.pc = "read"]
    <3>1. me'.pc = "read"
      BY <1>t, <2>1 DEF Locals
    <3> QED BY <3>1 DEF MemInv, AddInv, Nears
  <2>2. CASE Store = Absent /\ file' = file /\ me' = [me EXCEPT !.mem = EmptyStore, !.pc = "edit"]
    <3>1. me'.pc = "edit" /\ JobsIn(Store)' = {}
      BY <1>t, <2>2, JobsOfStore DEF Locals, JobsIn, Store
    <3> QED BY <3>1 DEF MemInv, AddInv, Nears
  <2> QED BY <1>2, <2>1, <2>2, MemIdle DEF Look
<1>3. CASE Read
  <2>1. Store \in Contents /\ Store' = Store
    BY <1>3, <1>t DEF Read, CopyInv, Store
  <2>2. CASE me' = [me EXCEPT !.pc = "aside"]
    <3>1. me'.pc = "aside"
      BY <1>t, <2>2 DEF Locals
    <3> QED BY <3>1 DEF MemInv, AddInv, Nears
  <2>3. CASE Loads(Store) /\ Store.form = "v2" /\ me' = [me EXCEPT !.mem = Store, !.pc = "edit"]
    <3>1. me'.pc = "edit" /\ me'.mem = Store /\ JobsIn(Store) = Store.jobs
      BY <1>t, <2>1, <2>3, FormTypes, JobsOfStore DEF Locals
    <3>2. JobsIn(Store)' \subseteq me'.mem.jobs
      BY <2>1, <3>1 DEF JobsIn, Loads
    <3> QED BY <3>1, <3>2 DEF MemInv, AddInv, Nears
  <2>4. CASE /\ Loads(Store) /\ Store.form # "v2"
             /\ me' = [Copying("jobs.json", "v1.bak", "save") EXCEPT !.mem = Migrated(Store),
                                                                    !.then = "edit"]
    <3>1. /\ me'.pc = "copy" /\ me'.ret = "save" /\ me'.then = "edit" /\ me'.mem = Migrated(Store)
          /\ JobsIn(Store) = Migrated(Store).jobs
      BY <1>t, <2>1, <2>4, FormTypes, JobsOfStore DEF Locals, Copying, Loads
    <3>2. JobsIn(Store)' \subseteq me'.mem.jobs
      BY <2>1, <3>1 DEF JobsIn, Loads
    <3> QED BY <3>1, <3>2 DEF MemInv, AddInv, Nears
  <2> QED BY <1>3, <2>2, <2>3, <2>4, MemIdle DEF Read
<1>4. CASE Edit
  <2>1. me.pc = "edit" /\ file' = file /\ damage' = damage /\ JobsIn(Store) \subseteq me.mem.jobs
    BY <1>4 DEF Edit, MemInv, Nears
  <2>2. CASE /\ me.verb = "add" /\ adds' = adds + 1
             /\ me' = [me EXCEPT !.mem.jobs = @ \cup {<<adds + 1, 1>>}, !.pc = "save"]
    <3>1. me'.pc = "save" /\ me'.mem.jobs = me.mem.jobs \cup {<<adds', 1>>}
      BY <1>t, <2>2 DEF Locals, Stores
    <3>2. JobsIn(Store)' \subseteq me'.mem.jobs
      BY <2>1, <3>1 DEF JobsIn, Loads, Store
    <3> QED BY <3>1, <3>2 DEF MemInv, AddInv, Nears
  <2>3. CASE me.verb = "set" /\ \E spec \in Edits : me' = [me EXCEPT !.mem.spec = spec, !.pc = "save"]
    <3>1. me'.pc = "save" /\ me'.verb = "set" /\ me'.mem.jobs = me.mem.jobs
      BY <1>t, <2>3 DEF Locals, Stores
    <3>2. JobsIn(Store)' \subseteq me'.mem.jobs
      BY <2>1, <3>1 DEF JobsIn, Loads, Store
    <3> QED BY <3>1, <3>2 DEF MemInv, AddInv, Nears
  <2>4. CASE me' = Idle
    BY <2>4, MemIdle
  <2> QED BY <1>4, <2>2, <2>3, <2>4 DEF Edit
<1>5. CASE Copy
  <2>1. CASE me' = Idle
    BY <2>1, MemIdle
  <2>2. CASE file' = [file EXCEPT ![me.dst] = file[me.src]] /\ me' = [me EXCEPT !.pc = me.ret]
    <3>1. me'.pc = me.ret /\ me'.mem = me.mem /\ me'.verb = me.verb /\ me'.then = me.then
      BY <1>t, <2>2 DEF Locals
    <3>2. CASE me.dst \in {"bak", "v1.bak"} /\ me.ret \in {"replace", "first", "save"}
      <4>1. Store' = Store
        BY <1>t, <2>2, <3>2 DEF Store
      <4>2. /\ Nears({"edit", "save", "replace", "first"}) /\ Nears({"save", "replace", "first"})
            /\ Nears({"first"})' => Nears({"first"})
        BY <1>5, <3>1, <3>2 DEF Copy, Nears
      <4> QED BY <1>5, <1>t, <3>1, <3>2, <4>1, <4>2, MemGoesOn DEF Copy
    <3>3. CASE me.ret = "look"
      BY <3>1, <3>3 DEF MemInv, AddInv, Nears
    <3> QED BY <1>5, <1>t, <3>2, <3>3 DEF Copy, CopyInv
  <2> QED BY <1>5, <2>1, <2>2 DEF Copy
<1>6. CASE Save
  <2>1. /\ me'.pc \in {"copy", "replace"} /\ (me'.pc = "copy" => me'.ret = "replace")
        /\ me'.mem = me.mem /\ me'.verb = me.verb /\ me'.then = me.then
    BY <1>6, <1>t DEF Save, Copying, Locals
  <2>2. Store' = Store /\ adds' = adds /\ damage' = damage
    BY <1>6 DEF Save, Store
  <2>3. /\ Nears({"edit", "save", "replace", "first"}) /\ Nears({"save", "replace", "first"})
        /\ ~Nears({"first"})'
    BY <1>6, <2>1 DEF Save, Nears
  <2> QED BY <1>t, <2>1, <2>2, <2>3, MemGoesOn
<1>7. CASE Replace
  <2>1. /\ me'.pc = "first" /\ me'.mem = me.mem /\ me'.verb = me.verb /\ me'.then = me.then
        /\ Store' = me.mem /\ adds' = adds /\ JobsIn(me.mem) = me.mem.jobs
    BY <1>7, <1>t, JobsOfStore DEF Replace, Locals, Store, LoadInv
  <2>2. JobsIn(Store)' \subseteq me'.mem.jobs
    BY <2>1 DEF JobsIn, Loads
  <2> QED BY <1>7, <2>1, <2>2 DEF Replace, MemInv, AddInv, Nears
<1>8. CASE FirstBackup
  <2>1. Store' = Store /\ adds' = adds /\ damage' = damage
    BY <1>8 DEF FirstBackup, Store
  <2>2. CASE me' = Copying("jobs.json", "bak", "first")
    <3>1. /\ me'.pc = "copy" /\ me'.ret = "first"
          /\ me'.mem = me.mem /\ me'.verb = me.verb /\ me'.then = me.then
      BY <1>t, <2>2 DEF Copying, Locals
    <3>2. /\ Nears({"edit", "save", "replace", "first"}) /\ Nears({"save", "replace", "first"})
          /\ Nears({"first"})
      BY <1>8 DEF FirstBackup, Nears
    <3> QED BY <1>t, <2>1, <3>1, <3>2, MemGoesOn
  <2>3. CASE me' = [me EXCEPT !.then = "idle", !.pc = "edit"]
    <3>1. me'.pc = "edit" /\ me'.mem = me.mem /\ me'.verb = me.verb
      BY <1>t, <2>3 DEF Locals
    <3>2. /\ Nears({"edit", "save", "replace", "first"}) /\ ~Nears({"save", "replace", "first"})'
          /\ ~Nears({"first"})'
      BY <1>8, <3>1 DEF FirstBackup, Nears
    <3> QED BY <1>t, <2>1, <3>1, <3>2, MemGoesOn
  <2> QED BY <1>8, <2>2, <2>3, MemIdle DEF FirstBackup, Saved
<1>9. CASE Restore \/ Reset \/ Park
  <2>1. CASE Parks \/ me' = [me EXCEPT !.pc = "strays"]
    <3>1. me'.pc \in {"park", "strays"} /\ me'.verb = me.verb
      BY <1>t, <2>1 DEF Parks, Locals
    <3> QED BY <1>9, <3>1 DEF MemInv, AddInv, Nears, Restore, Reset, Park
  <2> QED BY <1>9, <2>1, MemIdle DEF Restore, Reset, Park
<1>10. CASE StraysParked
  <2>1. /\ me'.pc \in {"copy", "bak"} /\ (me'.pc = "copy" => me'.ret = "look")
        /\ me'.verb = me.verb /\ me.verb \in {"restore", "reset"}
    BY <1>10, <1>t DEF StraysParked, Copying, Locals, AddInv
  <2> QED BY <2>1 DEF MemInv, AddInv, Nears
<1>11. CASE ParkBak
  <2>1. /\ me'.pc = "save" /\ me'.verb = me.verb /\ me.verb \in {"restore", "reset"}
        /\ Store' = Absent
    BY <1>11, <1>t DEF ParkBak, Locals, AddInv, SafeInv, Store
  <2>2. JobsIn(Store)' = {}
    BY <2>1 DEF JobsIn
  <2> QED BY <2>1, <2>2 DEF MemInv, AddInv, Nears
<1>12. CASE SetAside \/ Stop
  BY <1>12, MemIdle DEF SetAside, Stop
<1>13. CASE Damage
  <2>1. PICK f \in {"jobs.json", "bak"}, c \in {Odd, Junk} : file' = [file EXCEPT ![f] = c]
    BY <1>13 DEF Damage
  <2>2. Store' = Store \/ (Store' = c /\ c \in Broken)
    BY <1>t, <2>1, JunkTypes DEF Store
  <2>3. JobsIn(Store)' = JobsIn(Store) \/ JobsIn(Store)' = {}
    BY <2>2, JobsOfStore DEF JobsIn, Loads
  <2>4. me' = me /\ adds' = adds /\ damage' # 0
    BY <1>13, <1>t, StoreAssumption DEF Damage, TypeOK
  <2> QED BY <2>3, <2>4 DEF MemInv, AddInv, Nears
<1>14. CASE UNCHANGED vars \/ ParkStray
  BY <1>14, MemIdle DEF vars, ParkStray, Store, counts
<1> QED BY <1>1, <1>2, <1>3, <1>4, <1>5, <1>6, <1>7, <1>8, <1>9, <1>10, <1>11, <1>12, <1>13,
           <1>14 DEF Next, Step

\* Only what writes from outside is counted as damage.
LEMMA OnlyDamageCounts == [Next]_vars => Damage \/ damage' = damage
<1> SUFFICES ASSUME [Next]_vars, ~Damage PROVE damage' = damage
  OBVIOUS
<1>1. CASE \/ \E verb \in Verbs \ {"none"} : Begin(verb)
           \/ Look \/ Read \/ SetAside \/ Edit \/ Copy \/ Save \/ Replace
  BY <1>1 DEF Begin, Look, Read, SetAside, Edit, Copy, Save, Replace, counts
<1>2. CASE \/ FirstBackup \/ Restore \/ Reset \/ Park \/ ParkStray \/ StraysParked \/ ParkBak
           \/ Stop \/ UNCHANGED vars
  BY <1>2 DEF FirstBackup, Restore, Reset, Park, ParkStray, StraysParked, ParkBak, Stop, vars, counts
<1> QED BY <1>1, <1>2 DEF Next, Step

\* So is every job that was reported added, while nothing from outside writes.
LEMMA AckedStep ==
  StoreInv /\ StoreInv' /\ MemInv /\ AddInv /\ AckedInv /\ [Next]_vars => AckedInv'
<1> SUFFICES ASSUME StoreInv, MemInv, AddInv, AckedInv, [Next]_vars, damage' = 0
             PROVE  acked' \subseteq PutJobs' \cup JobsIn(Store)'
  BY DEF AckedInv
<1> USE DEF counts, history
<1>t. /\ TypeOK /\ CopyInv /\ SafeInv /\ LoadInv
      /\ me \in Locals /\ file \in [Names -> Contents \cup {Absent}] /\ damage \in Nat
      /\ "jobs.json" \in Names /\ "bak" \in Names /\ "v1.bak" \in Names
      /\ me.mem \in Stores
  BY StoreAssumption DEF StoreInv, TypeOK, Names, Locals
<1>0. ~Damage /\ damage = 0
  BY <1>t, OnlyDamageCounts DEF Damage
<1>a. acked \subseteq PutJobs \cup JobsIn(Store)
  BY <1>0 DEF AckedInv
<1>1. CASE acked' = acked /\ copies' = copies /\ over' = over /\ Store' = Store
  BY <1>1, <1>a DEF PutJobs, JobsIn, Loads
<1>2. CASE SetAside
  BY <1>0, <1>2, <1>t DEF SetAside, SafeInv, LoadInv, SavedStoreLoads, Broken, CopyInv, Store
<1>3. CASE Copy
  <2>1. CASE file' = file
    BY <1>1, <1>3, <2>1 DEF Copy, Store
  <2>2. CASE file' = [file EXCEPT ![me.dst] = file[me.src]]
    <3>1. Store' = Store \/ Store = Absent
      BY <1>3, <1>t, <2>2 DEF Copy, CopyInv, Store
    <3>2. CASE Store = Absent
      BY <1>3, <1>a, <3>2, JobsOfStore DEF Copy, PutJobs
    <3> QED BY <1>1, <1>3, <3>1, <3>2 DEF Copy
  <2> QED BY <1>3, <2>1, <2>2 DEF Copy
<1>4. CASE Replace
  <2>1. Store' = me.mem /\ JobsIn(me.mem) = me.mem.jobs /\ JobsIn(Store) \subseteq me.mem.jobs
    BY <1>4, <1>t, JobsOfStore DEF Replace, Store, LoadInv, MemInv, Nears
  <2>2. JobsIn(Store)' = me.mem.jobs
    BY <2>1 DEF JobsIn, Loads
  <2> QED BY <1>4, <1>a, <2>1, <2>2 DEF Replace, PutJobs
<1>5. CASE FirstBackup
  <2>1. copies' = copies /\ over' = over /\ Store' = Store
    BY <1>5 DEF FirstBackup, Store
  <2>2. CASE acked' = acked
    BY <1>1, <2>1, <2>2
  <2>3. CASE me.then # "edit" /\ me.verb = "add" /\ acked' = acked \cup {<<adds, 1>>}
    <3>1. me.then = "idle" /\ Store = me.mem /\ <<adds, 1>> \in me.mem.jobs
      BY <1>0, <1>5, <1>t, <2>3 DEF FirstBackup, Locals, MemInv, AddInv, Nears
    <3>2. <<adds, 1>> \in JobsIn(Store)
      BY <1>t, <3>1, JobsOfStore DEF LoadInv
    <3>3. JobsIn(Store)' = JobsIn(Store)
      BY <2>1 DEF JobsIn, Loads
    <3> QED BY <1>a, <2>1, <2>3, <3>2, <3>3 DEF PutJobs
  <2> QED BY <1>5, <2>2, <2>3 DEF FirstBackup, Saved
<1>6. CASE Park
  <2>1. acked' = acked /\ PutJobs \cup JobsIn(Store) \subseteq PutJobs'
    <3>1. CASE Store = Absent
      <4>1. JobsIn(Store) = {} /\ copies' = copies /\ over' = over /\ acked' = acked
        BY <1>6, <3>1, JobsOfStore DEF Park
      <4> QED BY <4>1 DEF PutJobs
    <3>2. CASE Store # Absent
      <4>1. PutAway(<<"corrupt", me.stamp>>, JobsIn(Store), copies) /\ acked' = acked
        BY <1>6, <3>2 DEF Park
      <4> QED BY <4>1, PutAwayKeeps DEF PutJobs
    <3> QED BY <3>1, <3>2
  <2> QED BY <1>a, <2>1
<1>7. CASE ParkStray \/ ParkBak \/ StraysParked
  <2>1. acked' = acked /\ Store' = Store
    BY <1>7, <1>t DEF ParkStray, ParkBak, StraysParked, Store
  <2>2. PutJobs \subseteq PutJobs'
    <3>1. CASE ParkStray
      <4>1. PICK c \in CopiesIn("aside") : PutAway(<<"corrupt", c.name[2]>>, c.jobs, copies \ {c})
        BY <3>1 DEF ParkStray
      <4>2. over \cup (UNION {d.jobs : d \in copies \ {c}}) \cup c.jobs \subseteq PutJobs'
        BY <4>1, PutAwayKeeps
      <4>3. UNION {d.jobs : d \in copies} \subseteq (UNION {d.jobs : d \in copies \ {c}}) \cup c.jobs
        OBVIOUS
      <4> QED BY <4>2, <4>3 DEF PutJobs
    <3>2. CASE ParkBak
      <4>1. \/ copies' = copies /\ over' = over
            \/ PutAway(<<"corrupt_bak", me.stamp>>, JobsIn(Bak), copies)
        BY <3>2 DEF ParkBak
      <4> QED BY <4>1, PutAwayKeeps DEF PutJobs
    <3>3. CASE StraysParked
      BY <3>3 DEF StraysParked, PutJobs
    <3> QED BY <1>7, <3>1, <3>2, <3>3
  <2>3. JobsIn(Store)' = JobsIn(Store)
    BY <2>1 DEF JobsIn, Loads
  <2> QED BY <1>a, <2>1, <2>2, <2>3
<1>8. CASE \/ \E verb \in Verbs \ {"none"} : Begin(verb)
           \/ Look \/ Read \/ Edit \/ Save \/ Restore \/ Reset \/ Stop \/ UNCHANGED vars
  BY <1>1, <1>8 DEF Begin, Look, Read, Edit, Save, Restore, Reset, Stop, vars, Store
<1> QED BY <1>0, <1>2, <1>3, <1>4, <1>5, <1>6, <1>7, <1>8 DEF Next, Step

\* The backup, once there is one, stays while nothing from outside writes.
LEMMA BackupStep == StoreInv /\ AddedJobHasBackup /\ [Next]_vars => AddedJobHasBackup'
<1> SUFFICES ASSUME StoreInv, AddedJobHasBackup, [Next]_vars, damage' = 0, acked' # {}
             PROVE  Bak' # Absent
  BY DEF AddedJobHasBackup
<1> USE DEF counts, history, Bak
<1>t. /\ CopyInv /\ SafeInv /\ LoadInv
      /\ me \in Locals /\ file \in [Names -> Contents \cup {Absent}] /\ damage \in Nat
      /\ "jobs.json" \in Names /\ "bak" \in Names /\ "v1.bak" \in Names
      /\ me.mem \in Stores
  BY StoreAssumption DEF StoreInv, TypeOK, Names, Locals
<1>0. ~Damage /\ damage = 0
  BY <1>t, OnlyDamageCounts DEF Damage
<1>1. CASE FirstBackup
  BY <1>0, <1>1 DEF FirstBackup, Saved, AddedJobHasBackup
<1>2. CASE Copy
  BY <1>0, <1>2, <1>t DEF Copy, CopyInv, AddedJobHasBackup
<1>3. CASE ParkBak
  <2>1. Bak = Absent
    BY <1>0, <1>3, <1>t DEF ParkBak, SafeInv, LoadInv, SavedStoreLoads, Unreadable, Broken
  <2> QED BY <1>0, <1>3, <2>1 DEF ParkBak, AddedJobHasBackup
<1>4. CASE SetAside \/ Replace \/ Park
  BY <1>0, <1>4, <1>t DEF SetAside, Replace, Park, AddedJobHasBackup
<1>5. CASE acked' = acked /\ file' = file
  BY <1>0, <1>5 DEF AddedJobHasBackup
<1>6. CASE \/ \E verb \in Verbs \ {"none"} : Begin(verb)
           \/ Look \/ Read \/ Edit \/ Save \/ Restore \/ Reset \/ ParkStray \/ StraysParked \/ Stop \/ UNCHANGED vars
  BY <1>5, <1>6 DEF Begin, Look, Read, Edit, Save, Restore, Reset, ParkStray, StraysParked, Stop, vars
<1> QED BY <1>0, <1>1, <1>2, <1>3, <1>4, <1>6 DEF Next, Step

-----------------------------------------------------------------------------

\* The inductive invariant: types, copies, what was made sure of, and what
\* load takes.
THEOREM StoreInvariant == Spec => []StoreInv
<1>1. StoreInv /\ [Next]_vars => StoreInv'
  BY TypeStep, SafeStep, MemoryStep, FilesStep DEF StoreInv, LoadInv
<1> QED BY InitStoreInv, <1>1, PTL DEF Spec

\* Every variable of the store keeps its type.
THEOREM StoreTypeCorrect == Spec => []TypeOK
<1>1. StoreInv => TypeOK
  BY DEF StoreInv
<1> QED BY StoreInvariant, <1>1, PTL

\* For every set of edits: what add, set, restore and reset leave behind, every
\* load accepts, unless something outside of awrise wrote over it.
THEOREM WhatIsSavedLoads == Spec => []SavedStoreLoads
<1>1. StoreInv => SavedStoreLoads
  BY DEF StoreInv, LoadInv
<1> QED BY StoreInvariant, <1>1, PTL

\* jobs.json and its backup are a register with one spare, whatever verbs
\* follow each other, stop half-way and are damaged (store.py:1040-1278).
THEOREM StoreIsARegister == Spec => IsARegister
<1>1. Init => Register!Init
  BY DEF Init, Register!Init, Names
<1> QED BY StoreInvariant, RegisterStep, <1>1, PTL DEF Spec, IsARegister, Register!Spec

\* An add that was reported done has its job in the store or put away with one,
\* and a backup beside it, until something from outside writes.
THEOREM KeptInvariant == Spec => []KeptInv
<1>1. Init => KeptInv
  BY DEF Init, Idle, KeptInv, MemInv, AddInv, AckedInv, AddedJobHasBackup, Nears
<1>2. StoreInv /\ StoreInv' /\ KeptInv /\ [Next]_vars => KeptInv'
  BY MemKeptStep, AckedStep, BackupStep DEF KeptInv
<1> QED BY StoreInvariant, <1>1, <1>2, PTL DEF Spec

\* No job that was reported added is lost from every copy, whatever stops,
\* is restored or is reset in between, but for one that a copy held whose
\* name another copy of the same second took.
THEOREM NoJobIsLost == Spec => []NothingIsLost
<1>1. KeptInv => NothingIsLost
  <2>1. JobsIn(Store) \subseteq KeptJobs /\ PutJobs \subseteq KeptJobs \cup over
    BY DEF KeptJobs, PutJobs, Store, Names
  <2> QED BY <2>1 DEF KeptInv, AckedInv, NothingIsLost
<1> QED BY KeptInvariant, <1>1, PTL

\* From the first job that was reported added on there is a backup.
THEOREM AddedJobsHaveBackup == Spec => []AddedJobHasBackup
<1>1. KeptInv => AddedJobHasBackup
  BY DEF KeptInv
<1> QED BY KeptInvariant, <1>1, PTL

=============================================================================
