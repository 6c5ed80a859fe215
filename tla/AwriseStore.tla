---------------------------- MODULE AwriseStore ----------------------------
(***************************************************************************)
(* The files of the job store (store.py) under one verb after another: the *)
(* load with its migration and its corrupt copies, the save with its       *)
(* backup, `reconcile --restore` and `reconcile --reset`.  A verb may stop *)
(* between any two file operations, killed or refused by the disk, and     *)
(* something outside of awrise may write over a file.                      *)
(*                                                                         *)
(* A file is replaced whole: it is written under a temporary name that     *)
(* nobody reads, then renamed.  Verbs that run at the same time are the    *)
(* subject of AwrisePass.                                                  *)
(***************************************************************************)
EXTENDS AwriseSpec

CONSTANTS
  MaxAdds,     \* bound: how many jobs are added
  MaxDamage,   \* bound: how often a file is written over from outside
  MaxStops,    \* bound: how many verbs stop half-way
  OldStores,   \* the 0.1.0 stores there may be at first, as their names
  MaxOld,      \* bound: the jobs of an old store
  Edits,       \* what an operator makes of a record with `set`
  Seconds,     \* the seconds of local time that copies are named by; one may
               \* come again, within itself or when the clock is set back
  Absent       \* no such file

ASSUME StoreAssumption ==
  /\ MaxAdds \in Nat \ {0}
  /\ MaxDamage \in Nat /\ MaxStops \in Nat
  /\ MaxOld \in Nat \ {0} /\ Edits \subseteq Specs
  /\ Seconds # {}
  /\ \A old \in OldStores : old \in Seq(OldNames({0})) /\ Len(old) <= MaxOld

\* Jobs are named 1 to MaxAdds by `add`, and 0 with a serial by the migration.
JobNames == (0..MaxAdds) \X (1..MaxOld)

\* What a file may hold: this version's store, with the one record that
\* `set` works on; the old version's; JSON that no load accepts; no JSON.
Stores == [form : {"v2"}, jobs : SUBSET JobNames, spec : Specs]
OldForms == [form : {"v1"}, names : OldStores, spec : Specs]
Odd == [form |-> "odd"]
Junk == [form |-> "junk"]
Contents == Stores \cup OldForms \cup {Odd, Junk}

ASSUME AbsentAssumption == Absent \notin Contents

\* The names of the copies that are put away: jobs.json.corrupt-<second> beside
\* the store or under corrupt/, and jobs.json.bak.corrupt-<second> there.
CopyNames == {"aside", "corrupt", "corrupt_bak"} \X Seconds

\* The serials of the migration stay within the bound.
ASSUME MigrationAssumption == \A old \in OldStores : MigratedNames(old) \subseteq JobNames

\* _loadable, and what load does not refuse.
Loads(c) == c.form \in {"v1", "v2"} /\ LoadAccepts(c.spec)
Parses(c) == c.form # "junk"

EmptyStore == [form |-> "v2", jobs |-> {}, spec |-> NewSpec]
Migrated(c) == [form |-> "v2", jobs |-> MigratedNames(c.names), spec |-> c.spec]

VARIABLES
  file,     \* what each file holds
  copies,   \* the copies put away: their names, and the jobs in them
  me,       \* the verb at work: what it has in memory
  adds, damage, stops,   \* how often so far
  acked,    \* the jobs whose add was reported done
  over      \* the jobs of copies that another copy took the name of

counts == <<adds, damage, stops>>
history == <<acked, over>>
vars == <<file, copies, me, counts, history>>

Names == {"jobs.json", "bak", "v1.bak"}
Verbs == {"none", "add", "set", "restore", "reset"}
Pcs == {"idle", "look", "read", "aside", "copy", "edit", "save", "replace", "first",
        "restore", "reset", "park", "strays", "bak"}

\* mem is the store in memory; a copy goes from src to dst, then to ret; a
\* save ends the verb, or goes on to its edit after a migration; stamp is the
\* second that a restore or a reset started in.
Locals == [pc : Pcs, verb : Verbs, mem : Stores, src : Names, dst : Names, ret : Pcs,
           then : {"idle", "edit"}, stamp : Seconds]

Idle == [pc |-> "idle", verb |-> "none", mem |-> EmptyStore,
         src |-> "jobs.json", dst |-> "bak", ret |-> "idle", then |-> "idle",
         stamp |-> CHOOSE s \in Seconds : TRUE]

TypeOK ==
  /\ file \in [Names -> Contents \cup {Absent}]
  /\ copies \subseteq [name : CopyNames, jobs : SUBSET JobNames]
  /\ me \in Locals
  /\ adds \in 0..MaxAdds /\ damage \in 0..MaxDamage /\ stops \in 0..MaxStops
  /\ acked \in SUBSET JobNames /\ over \in SUBSET JobNames

Init ==
  /\ \E first \in {Absent} \cup {[form |-> "v1", names |-> old, spec |-> NewSpec] : old \in OldStores} :
       file = [f \in Names |-> IF f = "jobs.json" THEN first ELSE Absent]
  /\ copies = {}
  /\ me = Idle
  /\ adds = 0 /\ damage = 0 /\ stops = 0
  /\ acked = {} /\ over = {}

Goto(pc) == me' = [me EXCEPT !.pc = pc]
Refuse == me' = Idle
Copying(src, dst, ret) ==
  [me EXCEPT !.src = src, !.dst = dst, !.ret = ret, !.pc = "copy"]

Store == file["jobs.json"]
Bak == file["bak"]

\* Every job some copy of the store holds.
JobsIn(c) == IF c = Absent \/ ~Loads(c) THEN {}
             ELSE IF c.form = "v1" THEN MigratedNames(c.names) ELSE c.jobs
KeptJobs == (UNION {JobsIn(file[f]) : f \in Names}) \cup (UNION {c.jobs : c \in copies})

\* The copies of a place.
CopiesIn(place) == {c \in copies : c.name[1] = place}

\* os.replace: what is put away goes under a name, over what was there.
PutAway(name, jobs, others) ==
  LET replaced == {c \in others : c.name = name}
  IN /\ copies' = (others \ replaced) \cup {[name |-> name, jobs |-> jobs]}
     /\ over' = over \cup ((UNION {c.jobs : c \in replaced}) \ jobs)

-----------------------------------------------------------------------------
(* load                                                                    *)

\* A verb starts.  add and set load first.
Begin(verb) ==
  /\ me.pc = "idle"
  /\ me' = [me EXCEPT !.verb = verb,
                      !.pc = IF verb \in {"restore", "reset"} THEN verb ELSE "look"]
  /\ UNCHANGED <<file, copies, counts, history>>

\* No jobs.json: no jobs, unless a corrupt copy lies beside it.
Look ==
  /\ me.pc = "look"
  /\ IF Store # Absent THEN Goto("read")
     ELSE IF CopiesIn("aside") # {} THEN Refuse
     ELSE me' = [me EXCEPT !.mem = EmptyStore, !.pc = "edit"]
  /\ UNCHANGED <<file, copies, counts, history>>

\* jobs.json is read: no JSON is set aside, what load does not accept is
\* refused, a 0.1.0 store is migrated, kept as v1.bak and saved.
Read ==
  /\ me.pc = "read"
  /\ IF ~Parses(Store) THEN Goto("aside")
     ELSE IF ~Loads(Store) THEN Refuse
     ELSE IF Store.form = "v2" THEN me' = [me EXCEPT !.mem = Store, !.pc = "edit"]
     ELSE me' = [Copying("jobs.json", "v1.bak", "save") EXCEPT !.mem = Migrated(Store),
                                                                   !.then = "edit"]
  /\ UNCHANGED <<file, copies, counts, history>>

SetAside ==
  /\ me.pc = "aside"
  /\ \E s \in Seconds : PutAway(<<"aside", s>>, JobsIn(Store), copies)
  /\ file' = [file EXCEPT !["jobs.json"] = Absent]
  /\ Refuse
  /\ UNCHANGED <<counts, acked>>

\* A verb that only loads (list, or the end of a restore) is done; add and
\* set change the store in memory, or refuse the fields they were given.
Edit ==
  /\ me.pc = "edit"
  /\ CASE me.verb = "add" /\ adds < MaxAdds ->
            /\ adds' = adds + 1
            /\ me' = [me EXCEPT !.mem.jobs = @ \cup {<<adds + 1, 1>>}, !.pc = "save"]
       [] me.verb = "set" ->
            /\ \E spec \in Edits :
                 IF VerbAccepts(spec) THEN me' = [me EXCEPT !.mem.spec = spec, !.pc = "save"]
                 ELSE Refuse
            /\ UNCHANGED adds
       [] OTHER -> Refuse /\ UNCHANGED adds
  /\ UNCHANGED <<file, copies, damage, stops, history>>

-----------------------------------------------------------------------------
(* save                                                                    *)

\* _copy: the destination holds the old bytes or the new ones.
Copy ==
  /\ me.pc = "copy"
  /\ IF file[me.src] = Absent THEN Refuse /\ UNCHANGED file
     ELSE /\ file' = [file EXCEPT ![me.dst] = file[me.src]]
          /\ Goto(me.ret)
  /\ UNCHANGED <<copies, counts, history>>

\* A slip: no backup is made.
SaveUnkept ==
  /\ me.pc = "save"
  /\ Goto("replace")
  /\ UNCHANGED <<file, copies, counts, history>>

\* save: the new store is written aside; the one there becomes the backup.
Save ==
  /\ me.pc = "save"
  /\ me' = IF Store # Absent THEN Copying("jobs.json", "bak", "replace")
           ELSE [me EXCEPT !.pc = "replace"]
  /\ UNCHANGED <<file, copies, counts, history>>

Replace ==
  /\ me.pc = "replace"
  /\ file' = [file EXCEPT !["jobs.json"] = me.mem]
  /\ Goto("first")
  /\ UNCHANGED <<copies, counts, history>>

\* A save is over: the verb goes on to its edit, or is reported done.
Saved ==
  IF me.then = "edit" THEN me' = [me EXCEPT !.then = "idle", !.pc = "edit"] /\ UNCHANGED acked
  ELSE /\ Refuse
       /\ acked' = IF me.verb = "add" THEN acked \cup {<<adds, 1>>} ELSE acked

\* A slip: the first save leaves no backup.
FirstUnkept ==
  /\ me.pc = "first"
  /\ Saved
  /\ UNCHANGED <<file, copies, counts, over>>

\* The first store saved is its own backup.
FirstBackup ==
  /\ me.pc = "first"
  /\ IF Bak = Absent THEN me' = Copying("jobs.json", "bak", "first") /\ UNCHANGED acked
     ELSE Saved
  /\ UNCHANGED <<file, copies, counts, over>>

-----------------------------------------------------------------------------
(* restore and reset                                                       *)

\* Both name what they park by the second they start in.
Parks == \E s \in Seconds : me' = [me EXCEPT !.stamp = s, !.pc = "park"]

\* restore: the backup is there and is JSON.
Restore ==
  /\ me.pc = "restore"
  /\ IF Bak = Absent \/ ~Parses(Bak) THEN Refuse ELSE Parks
  /\ UNCHANGED <<file, copies, counts, history>>

\* A slip: any backup there is can be restored.
ResetWithoutBackup ==
  /\ me.pc = "reset"
  /\ IF \/ Store # Absent /\ Loads(Store)
        \/ Bak # Absent
        \/ Store = Absent /\ CopiesIn("aside") \cup CopiesIn("corrupt") = {}
       THEN Refuse ELSE Parks
  /\ UNCHANGED <<file, copies, counts, history>>

\* reset: no store loads, neither jobs.json nor the backup, and there is
\* something to reset.
Reset ==
  /\ me.pc = "reset"
  /\ IF \/ Store # Absent /\ Loads(Store)
        \/ Bak # Absent /\ Loads(Bak)
        \/ Store = Absent /\ CopiesIn("aside") \cup CopiesIn("corrupt") = {}
       THEN Refuse ELSE Parks
  /\ UNCHANGED <<file, copies, counts, history>>

\* A slip: what is there is deleted.
ParkNothing ==
  /\ me.pc = "park"
  /\ file' = [file EXCEPT !["jobs.json"] = Absent]
  /\ Goto("strays")
  /\ UNCHANGED <<copies, counts, history>>

\* Both first move what is there under corrupt/.
Park ==
  /\ me.pc = "park"
  /\ IF Store = Absent THEN UNCHANGED <<copies, over>>
     ELSE PutAway(<<"corrupt", me.stamp>>, JobsIn(Store), copies)
  /\ file' = [file EXCEPT !["jobs.json"] = Absent]
  /\ Goto("strays")
  /\ UNCHANGED <<counts, acked>>

\* Then, one by one, the copies beside the store, under the names they have.
ParkStray ==
  /\ me.pc = "strays"
  /\ \E c \in CopiesIn("aside") : PutAway(<<"corrupt", c.name[2]>>, c.jobs, copies \ {c})
  /\ UNCHANGED <<file, me, counts, acked>>

StraysParked ==
  /\ me.pc = "strays" /\ CopiesIn("aside") = {}
  /\ me' = IF me.verb = "restore" THEN Copying("bak", "jobs.json", "look")
           ELSE [me EXCEPT !.pc = "bak"]
  /\ UNCHANGED <<file, copies, counts, history>>

\* reset parks the backup too, and saves an empty store.
ParkBak ==
  /\ me.pc = "bak"
  /\ IF Bak = Absent THEN UNCHANGED <<copies, over>>
     ELSE PutAway(<<"corrupt_bak", me.stamp>>, JobsIn(Bak), copies)
  /\ file' = [file EXCEPT !["bak"] = Absent]
  /\ me' = [me EXCEPT !.mem = EmptyStore, !.pc = "save"]
  /\ UNCHANGED <<counts, acked>>

-----------------------------------------------------------------------------

\* The verb is killed, or a file operation is refused.
Stop ==
  /\ me.pc # "idle" /\ stops < MaxStops
  /\ stops' = stops + 1
  /\ Refuse
  /\ UNCHANGED <<file, copies, adds, damage, history>>

\* jobs.json or its backup is written over from outside.
Damage ==
  /\ damage < MaxDamage
  /\ \E f \in {"jobs.json", "bak"} : \E c \in {Odd, Junk} :
       /\ file[f] # Absent
       /\ file' = [file EXCEPT ![f] = c]
  /\ damage' = damage + 1
  /\ UNCHANGED <<copies, me, adds, stops, history>>

Step ==
  \/ Look \/ Read \/ SetAside \/ Edit \/ Copy \/ Save \/ Replace \/ FirstBackup
  \/ Restore \/ Reset \/ Park \/ ParkStray \/ StraysParked \/ ParkBak

Next ==
  \/ \E verb \in Verbs \ {"none"} : Begin(verb)
  \/ Step \/ Stop \/ Damage

Spec == Init /\ [][Next]_vars

\* A verb runs on; and an operator whose store does not load keeps trying
\* the two ways out that the refusal names.
FairSpec ==
  /\ Spec
  /\ WF_vars(Step)
  /\ SF_vars(Begin("restore")) /\ SF_vars(Begin("reset"))

-----------------------------------------------------------------------------
(* Properties                                                              *)

\* The files implement a register with one spare, whatever stops half-way:
\* a store is replaced only when the backup holds it.
Register ==
  INSTANCE AwriseStoreContract WITH
    Whole <- Stores, Broken <- {c \in Contents : ~Loads(c)},
    value <- file["jobs.json"], spare <- file["bak"]

IsARegister == Register!Spec

\* No job that was reported added is lost from every copy while nothing from
\* outside writes over a file, whatever stops and is restored in between -
\* but a job that a copy held whose name another copy took: copies are named
\* by the second of local time (1060, 1186-1194, 1245-1274).
NothingIsLost ==
  damage = 0 => acked \ over \subseteq KeptJobs

\* store.py:1271-1272: "nothing here ever deletes evidence".  Two restores in
\* the same second do: the second one parks over what the first one parked,
\* and TLC finds a reported job that no copy holds any more.
ParkedIsKept ==
  damage = 0 => acked \subseteq KeptJobs

\* What a verb has saved, every later load accepts, and so it does the
\* backup: add and set judge fields no less strictly than load.
SavedStoreLoads ==
  damage = 0 => \A f \in Names : file[f] # Absent => Loads(file[f])

\* From the first job that was reported added on there is a backup to
\* restore.
AddedJobHasBackup ==
  damage = 0 /\ acked # {} => Bak # Absent

\* There is always a way out: an operator who follows the refusals ends with
\* a store that loads and stays so.
StoreComesBack ==
  <>[](me.pc = "idle" => IF Store = Absent THEN CopiesIn("aside") = {} ELSE Loads(Store))

\* store.py: a store that cannot be parsed is never replaced by {}; a load
\* does not answer "no jobs" while a copy that an operator restores has some.
NeverEmptied ==
  [][Look /\ me'.pc = "edit" => JobsIn(Bak) = {}]_vars

\* _migrate_v1 keeps every job of the old store, under one name or another.
MigrationKeepsJobs ==
  me.then = "edit" /\ file["v1.bak"] # Absent =>
    Cardinality(me.mem.jobs) = Len(file["v1.bak"].names)

=============================================================================
