----------------------------- MODULE AwriseLock -----------------------------
(***************************************************************************)
(* The lock directory of awrise/lock.py: locks/<job>/ for one job (or      *)
(* pass.lock, which shares the code), taken by processes that run          *)
(* concurrently, die at any instant and leave children behind.             *)
(*                                                                         *)
(* A process is one awrise invocation: it may sweep the locks directory,   *)
(* tries once to acquire, spawns at most one child under the lock and      *)
(* releases it.  A later invocation is another element of Procs.  Every    *)
(* step is one system call on the directory (mkdir, rename, open of the    *)
(* temporary file, replace, unlink, rmdir) or one read of wake.json; what  *)
(* a step decided on may have changed by the next one.                     *)
(*                                                                         *)
(* Time is abstracted to two facts the judge can observe: the age bound of *)
(* a wake has passed (old), and an unnamed directory has gone unchanged    *)
(* for EMPTY_LOCK_S (the field aged).                                      *)
(***************************************************************************)
EXTENDS Naturals, FiniteSets

CONSTANTS
  Procs,      \* the awrise processes that compete for this lock
  Detach,     \* the job's `detach` field
  Overruns,   \* may a running process outlast timeout_s + GRACE_S, or
              \* EMPTY_LOCK_S between its mkdir and its wake.json (suspended)?
  Posix,      \* rename onto an empty directory replaces it (fails on Windows)
  Path,       \* the lock directory
  NoDir,      \* nothing at a location
  NoHolder    \* no wake.json in a directory

\* A slip: one attempt, so a broken lock is never taken.
OneTry == 1

\* Attempts of _take; a sweep's own claim is made at attempt 0.
MaxTries == 2

\* Where a directory can be: the lock path, and the names .breaking-* a
\* process renames it to, one for each claim it can make.
Claims == Procs \X (0..MaxTries)
Locs == {Path} \cup Claims

\* What wake.json says: whose wake it is, and how far note_child and
\* mark_detached have got.
Stages == {"taken", "noted", "detached"}
Holders == [wake : Procs, stage : Stages]
Dirs == [file : Holders \cup {NoHolder}, tmps : SUBSET Procs, aged : BOOLEAN]

ASSUME ConstantsAssumption ==
  /\ Detach \in BOOLEAN
  /\ Overruns \in BOOLEAN
  /\ Posix \in BOOLEAN
  /\ Path \notin Claims
  /\ NoDir \notin Dirs
  /\ NoHolder \notin Holders

VARIABLES
  pc,         \* where each process is
  tries,      \* mkdir attempts made by _take
  seen,       \* the holder each process has read and not yet judged
  stage,      \* the holder document each process has in memory
  rmAt,       \* the directory each process' _remove works on
  dir,        \* the file system
  child,      \* the child each wake spawned
  old,        \* wakes started longer than timeout_s + GRACE_S ago
  displaced   \* history: wakes renamed aside while their lock was not stale

vars == <<pc, tries, seen, stage, rmAt, dir, child, old, displaced>>

Pcs == {"start", "sweep", "try", "read", "judge", "end", "read_again",
        "judge_again", "claim", "rejudge", "put_back", "open", "replace",
        "hold", "note", "spawned", "mark", "release", "unlink", "rmdir",
        "done", "gone"}

TypeOK ==
  /\ pc \in [Procs -> Pcs]
  /\ tries \in [Procs -> 0..MaxTries]
  /\ seen \in [Procs -> Holders \cup {NoHolder}]
  /\ stage \in [Procs -> Stages \cup {"none", "kept"}]
  /\ rmAt \in [Procs -> Locs]
  /\ dir \in [Locs -> Dirs \cup {NoDir}]
  /\ child \in [Procs -> {"none", "alive", "dead"}]
  /\ old \in SUBSET Procs
  /\ displaced \in BOOLEAN

Init ==
  /\ pc = [p \in Procs |-> "start"]
  /\ tries = [p \in Procs |-> 0]
  /\ seen = [p \in Procs |-> NoHolder]
  /\ stage = [p \in Procs |-> "none"]
  /\ rmAt = [p \in Procs |-> Path]
  /\ dir = [l \in Locs |-> NoDir]
  /\ child = [p \in Procs |-> "none"]
  /\ old = {}
  /\ displaced = FALSE

-----------------------------------------------------------------------------
(* Reading and judging                                                     *)

\* A fresh directory, as mkdir leaves it.
FreshDir == [file |-> NoHolder, tmps |-> {}, aged |-> FALSE]

IsEmpty(d) == d # NoDir /\ d.file = NoHolder /\ d.tmps = {}

\* _read_holder: no directory and no wake.json read alike.
HolderAt(l) == IF dir[l] = NoDir THEN NoHolder ELSE dir[l].file

\* The age of an unnamed directory; one that is not there has none.
AgedAt(l) == dir[l] # NoDir /\ dir[l].aged

\* is_alive of the child pid the holder names: a child not yet noted has none.
ChildLives(h) == h.stage # "taken" /\ child[h.wake] = "alive"

\* A slip: the age bound outranks a detached child too.
AgeOutranksChild(h) ==
  \/ h.wake \in old
  \/ IF h.stage = "detached" THEN ~ChildLives(h)
     ELSE pc[h.wake] = "gone" /\ ~ChildLives(h)

\* judge: the lock named by h is stale.  A detached child is the wake and
\* outranks age and pass pid; for the others age outranks both pids.
StaleHolder(h) ==
  IF h.stage = "detached"
    THEN ~ChildLives(h)
    ELSE \/ h.wake \in old
         \/ pc[h.wake] = "gone" /\ ~ChildLives(h)

\* A slip: a directory without wake.json is free at once.
UnnamedIsFree(h, aged) == IF h = NoHolder THEN TRUE ELSE StaleHolder(h)

Stale(h, aged) == IF h = NoHolder THEN aged ELSE StaleHolder(h)

Overdue(h) ==
  /\ h # NoHolder
  /\ h.stage = "detached" /\ ChildLives(h) /\ h.wake \in old

Goto(p, label) == pc' = [pc EXCEPT ![p] = label]

\* sweep: the entries of locks/ in order; .breaking-* names sort first.
StartSweep(p) ==
  /\ pc[p] = "start"
  /\ Goto(p, "sweep")
  /\ UNCHANGED <<tries, seen, stage, rmAt, dir, child, old, displaced>>

\* sweep: a leftover claim is removed as nobody's lock.
SweepLeftover(p) ==
  /\ pc[p] = "sweep"
  /\ \E c \in Claims :
       /\ dir[c] # NoDir
       /\ rmAt' = [rmAt EXCEPT ![p] = c]
  /\ Goto(p, "unlink")
  /\ UNCHANGED <<tries, seen, stage, dir, child, old, displaced>>

\* sweep reaches the lock itself, and judges it like acquire does.
SweepLock(p) ==
  /\ pc[p] = "sweep"
  /\ Goto(p, "read")
  /\ UNCHANGED <<tries, seen, stage, rmAt, dir, child, old, displaced>>

\* _take: os.mkdir succeeds; the holder document exists in memory only.
Mkdir(p) ==
  /\ pc[p] \in {"start", "try"}
  /\ tries[p] < MaxTries
  /\ dir[Path] = NoDir
  /\ dir' = [dir EXCEPT ![Path] = FreshDir]
  /\ tries' = [tries EXCEPT ![p] = @ + 1]
  /\ stage' = [stage EXCEPT ![p] = "taken"]
  /\ Goto(p, "open")
  /\ UNCHANGED <<seen, rmAt, child, old, displaced>>

\* _take: FileExistsError, so the holder is judged.
MkdirExists(p) ==
  /\ pc[p] \in {"start", "try"}
  /\ tries[p] < MaxTries
  /\ dir[Path] # NoDir
  /\ tries' = [tries EXCEPT ![p] = @ + 1]
  /\ Goto(p, "read")
  /\ UNCHANGED <<seen, stage, rmAt, dir, child, old, displaced>>

\* _take: the loop is exhausted; the lock went to another process.
LoseRetake(p) ==
  /\ pc[p] = "try"
  /\ tries[p] = MaxTries
  /\ Goto(p, "done")
  /\ UNCHANGED <<tries, seen, stage, rmAt, dir, child, old, displaced>>

\* judge: wake.json is read.  While there is none, settle_s reads it again.
ReadHolder(p) ==
  /\ \/ pc[p] \in {"read", "read_again"}
     \/ pc[p] = "judge" /\ seen[p] = NoHolder /\ tries[p] > 0
  /\ seen' = [seen EXCEPT ![p] = HolderAt(Path)]
  /\ Goto(p, IF pc[p] = "read_again" THEN "judge_again" ELSE "judge")
  /\ UNCHANGED <<tries, stage, rmAt, dir, child, old, displaced>>

\* A slip: a held lock is waited for.
WaitWhileHeld(p) ==
  /\ pc[p] \in {"judge", "judge_again"}
  /\ ~Stale(seen[p], AgedAt(Path))
  /\ Goto(p, "read")
  /\ seen' = [seen EXCEPT ![p] = NoHolder]
  /\ UNCHANGED <<tries, stage, rmAt, dir, child, old, displaced>>

\* judge says Held: a sweep moves on, an acquire reports the holder, unless
\* the holder is a detached child past its timeout.
JudgeHeld(p) ==
  /\ pc[p] \in {"judge", "judge_again"}
  /\ ~Stale(seen[p], AgedAt(Path))
  /\ Goto(p, IF tries[p] = 0 THEN "try"
             ELSE IF pc[p] = "judge" /\ Overdue(seen[p]) THEN "end"
             ELSE "done")
  /\ seen' = [seen EXCEPT ![p] = NoHolder]
  /\ UNCHANGED <<tries, stage, rmAt, dir, child, old, displaced>>

JudgeStale(p) ==
  /\ pc[p] \in {"judge", "judge_again"}
  /\ Stale(seen[p], AgedAt(Path))
  /\ Goto(p, "claim")
  /\ seen' = [seen EXCEPT ![p] = NoHolder]
  /\ UNCHANGED <<tries, stage, rmAt, dir, child, old, displaced>>

\* The child whose pid a holder document names, if any.
NamedChild(h) ==
  IF h = NoHolder \/ (h # NoHolder /\ h.stage = "taken") THEN {} ELSE {h.wake}

\* _take, overdue: the holder is read AGAIN and end_overdue_child ends the
\* child it names now; a refusal or a failed kill reports the lock as held.
EndOverdue(p) ==
  /\ pc[p] = "end"
  /\ LET named == NamedChild(HolderAt(Path)) IN
       \/ /\ named # {}
          /\ child' = [q \in Procs |-> IF q \in named THEN "dead" ELSE child[q]]
          /\ Goto(p, "read_again")
       \/ /\ \A q \in named : child[q] = "alive"
          /\ Goto(p, "done")
          /\ UNCHANGED child
  /\ UNCHANGED <<tries, seen, stage, rmAt, dir, old, displaced>>

-----------------------------------------------------------------------------
(* Breaking a stale lock                                                   *)

\* The name this process renames a lock to in its current attempt.
ClaimOf(p) == <<p, tries[p]>>

\* _claim_stale: rename the directory aside, or lose it to another.
Claim(p) ==
  /\ pc[p] = "claim"
  /\ IF dir[Path] = NoDir
       THEN /\ Goto(p, "try")
            /\ UNCHANGED <<dir, displaced>>
       ELSE /\ dir' = [dir EXCEPT ![ClaimOf(p)] = dir[Path], ![Path] = NoDir]
            /\ displaced' = (displaced \/ ~Stale(dir[Path].file, dir[Path].aged))
            /\ Goto(p, "rejudge")
  /\ UNCHANGED <<tries, seen, stage, rmAt, child, old>>

\* A slip: the first verdict is trusted.
DeleteUnjudged(p) ==
  /\ pc[p] = "rejudge"
  /\ rmAt' = [rmAt EXCEPT ![p] = ClaimOf(p)]
  /\ Goto(p, "unlink")
  /\ UNCHANGED <<tries, seen, stage, dir, child, old, displaced>>

\* _claim_stale: judge the directory again now that it is out of the way.
Rejudge(p) ==
  /\ pc[p] = "rejudge"
  /\ IF Stale(HolderAt(ClaimOf(p)), AgedAt(ClaimOf(p)))
       THEN /\ rmAt' = [rmAt EXCEPT ![p] = ClaimOf(p)]
            /\ Goto(p, "unlink")
       ELSE /\ Goto(p, "put_back")
            /\ UNCHANGED rmAt
  /\ UNCHANGED <<tries, seen, stage, dir, child, old, displaced>>

\* _claim_stale: rename the live lock back; a failure is suppressed and
\* leaves the claim behind.
PutBack(p) ==
  /\ pc[p] = "put_back"
  /\ Goto(p, "try")
  /\ IF /\ dir[ClaimOf(p)] # NoDir
        /\ dir[Path] = NoDir \/ (Posix /\ IsEmpty(dir[Path]))
       THEN dir' = [dir EXCEPT ![Path] = dir[ClaimOf(p)], ![ClaimOf(p)] = NoDir]
       ELSE UNCHANGED dir
  /\ UNCHANGED <<tries, seen, stage, rmAt, child, old, displaced>>

-----------------------------------------------------------------------------
(* _remove and _write_holder, each two system calls                        *)

\* _remove: unlink every file of the directory that is at rmAt now.
Unlink(p) ==
  /\ pc[p] = "unlink"
  /\ dir' = IF dir[rmAt[p]] = NoDir \/ IsEmpty(dir[rmAt[p]])
              THEN dir
              ELSE [dir EXCEPT ![rmAt[p]] = FreshDir]
  /\ Goto(p, "rmdir")
  /\ UNCHANGED <<tries, seen, stage, rmAt, child, old, displaced>>

\* _remove: rmdir, given up after five attempts if it is not empty.
\* It ends a release (or a failed take), a break, or one entry of a sweep.
Rmdir(p) ==
  /\ pc[p] = "rmdir"
  /\ dir' = IF IsEmpty(dir[rmAt[p]]) THEN [dir EXCEPT ![rmAt[p]] = NoDir] ELSE dir
  /\ Goto(p, IF rmAt[p] = Path THEN "done"
             ELSE IF rmAt[p] = ClaimOf(p) THEN "try"
             ELSE "sweep")
  /\ rmAt' = [rmAt EXCEPT ![p] = Path]
  /\ UNCHANGED <<tries, seen, stage, child, old, displaced>>

\* The document a process writes.
DocOf(p) == [wake |-> p, stage |-> stage[p]]

\* Where a process goes when its wake.json is written: into the wake, back
\* to the wait for its child, or out (a detached wake keeps its lock).
AfterWrite(p) ==
  CASE stage[p] = "taken" -> "hold"
    [] stage[p] = "noted" -> "spawned"
    [] OTHER -> "done"

\* A write that fails: taking the lock removes what is at the path and
\* raises; a rewrite suppresses the error.
WriteFails(p) ==
  IF stage[p] = "taken"
    THEN rmAt' = [rmAt EXCEPT ![p] = Path] /\ Goto(p, "unlink")
    ELSE UNCHANGED rmAt /\ Goto(p, AfterWrite(p))

\* _write_holder: open the temporary file inside the lock directory.
OpenTmp(p) ==
  /\ pc[p] = "open"
  /\ IF dir[Path] = NoDir
       THEN WriteFails(p) /\ UNCHANGED dir
       ELSE /\ dir' = [dir EXCEPT ![Path].tmps = @ \cup {p}, ![Path].aged = FALSE]
            /\ Goto(p, "replace")
            /\ UNCHANGED rmAt
  /\ UNCHANGED <<tries, seen, stage, child, old, displaced>>

\* _write_holder: replace wake.json by it, if it is still at this path.
ReplaceFile(p) ==
  /\ pc[p] = "replace"
  /\ IF dir[Path] = NoDir \/ (dir[Path] # NoDir /\ p \notin dir[Path].tmps)
       THEN WriteFails(p) /\ UNCHANGED <<dir, stage>>
       ELSE /\ dir' = [dir EXCEPT ![Path].file = DocOf(p), ![Path].tmps = @ \ {p},
                                  ![Path].aged = FALSE]
            /\ stage' = [stage EXCEPT ![p] = IF @ = "detached" THEN "kept" ELSE @]
            /\ Goto(p, AfterWrite(p))
            /\ UNCHANGED rmAt
  /\ UNCHANGED <<tries, seen, child, old, displaced>>

-----------------------------------------------------------------------------
(* The wake under the lock                                                 *)

\* _run_process: Popen.
Spawn(p) ==
  /\ pc[p] = "hold"
  /\ child' = [child EXCEPT ![p] = "alive"]
  /\ Goto(p, "note")
  /\ UNCHANGED <<tries, seen, stage, rmAt, dir, old, displaced>>

\* _rewrite_if_ours: only while wake.json still names this wake.
RewriteIfOurs(p, otherwise) ==
  Goto(p, IF HolderAt(Path) # NoHolder /\ HolderAt(Path).wake = p
            THEN "open" ELSE otherwise)

\* note_child, the on_spawn callback.
NoteChild(p) ==
  /\ pc[p] = "note"
  /\ stage' = [stage EXCEPT ![p] = "noted"]
  /\ RewriteIfOurs(p, "spawned")
  /\ UNCHANGED <<tries, seen, rmAt, dir, child, old, displaced>>

\* mark_detached: the wake closes at once and its lock stays.
MarkDetached(p) ==
  /\ Detach
  /\ pc[p] = "spawned"
  /\ stage' = [stage EXCEPT ![p] = "detached"]
  /\ RewriteIfOurs(p, "done")
  /\ UNCHANGED <<tries, seen, rmAt, dir, child, old, displaced>>

\* The wake is over: it needed no child, or its child exited or was killed.
EndWake(p) ==
  /\ \/ pc[p] = "hold"
     \/ ~Detach /\ pc[p] = "spawned" /\ child[p] = "dead"
  /\ Goto(p, "release")
  /\ UNCHANGED <<tries, seen, stage, rmAt, dir, child, old, displaced>>

\* release: read wake.json, and remove the directory if it names this wake.
Release(p) ==
  /\ pc[p] = "release"
  /\ IF HolderAt(Path) # NoHolder /\ HolderAt(Path).wake = p
       THEN /\ rmAt' = [rmAt EXCEPT ![p] = Path]
            /\ Goto(p, "unlink")
       ELSE /\ Goto(p, "done")
            /\ UNCHANGED rmAt
  /\ UNCHANGED <<tries, seen, stage, dir, child, old, displaced>>

-----------------------------------------------------------------------------
(* The environment                                                         *)

\* The process exits or is killed, and its memory is gone; its child, if any,
\* runs on.
Die(p) ==
  /\ pc[p] # "gone"
  /\ Goto(p, "gone")
  /\ tries' = [tries EXCEPT ![p] = 0]
  /\ seen' = [seen EXCEPT ![p] = NoHolder]
  /\ rmAt' = [rmAt EXCEPT ![p] = Path]
  /\ UNCHANGED <<stage, dir, child, old, displaced>>

\* The child exits, or is killed at its timeout by the pass that waits on it.
ChildExit(p) ==
  /\ child[p] = "alive"
  /\ child' = [child EXCEPT ![p] = "dead"]
  /\ UNCHANGED <<pc, tries, seen, stage, rmAt, dir, old, displaced>>

\* Labels between the mkdir of a lock and the end of its release.
Owning == {"open", "replace", "hold", "note", "spawned", "release"}

\* The process is inside its wake: the lock is its own, as far as it knows.
InWake(p) == pc[p] \in Owning \/ (pc[p] \in {"unlink", "rmdir"} /\ rmAt[p] = Path)

\* timeout_s + GRACE_S passes since a wake's started_at.  The executor ends a
\* wake at timeout_s, so a wake still in progress is overrunning.
AgeWake(p) ==
  /\ stage[p] # "none" /\ p \notin old
  /\ InWake(p) => Overruns
  /\ old' = old \cup {p}
  /\ UNCHANGED <<pc, tries, seen, stage, rmAt, dir, child, displaced>>

\* EMPTY_LOCK_S passes since the unnamed directory last changed.
AgeDir ==
  /\ dir[Path] # NoDir
  /\ dir[Path].file = NoHolder /\ ~dir[Path].aged
  /\ (\E p \in Procs : InWake(p) /\ pc[p] \in {"open", "replace", "unlink", "rmdir"}) => Overruns
  /\ dir' = [dir EXCEPT ![Path].aged = TRUE]
  /\ UNCHANGED <<pc, tries, seen, stage, rmAt, child, old, displaced>>

\* One step of the process' own code.
Step(p) ==
  \/ StartSweep(p) \/ SweepLeftover(p) \/ SweepLock(p)
  \/ Mkdir(p) \/ MkdirExists(p) \/ LoseRetake(p)
  \/ ReadHolder(p) \/ JudgeHeld(p) \/ JudgeStale(p) \/ EndOverdue(p)
  \/ Claim(p) \/ Rejudge(p) \/ PutBack(p)
  \/ Unlink(p) \/ Rmdir(p) \/ OpenTmp(p) \/ ReplaceFile(p)
  \/ Spawn(p) \/ NoteChild(p) \/ MarkDetached(p) \/ EndWake(p) \/ Release(p)

Next ==
  \/ \E p \in Procs : Step(p) \/ Die(p) \/ ChildExit(p) \/ AgeWake(p)
  \/ AgeDir

Spec == Init /\ [][Next]_vars

FairSpec == Spec /\ \A p \in Procs : WF_vars(Step(p))

-----------------------------------------------------------------------------
(* Properties                                                              *)

\* lock.py:1, README "Overlap": one wake of the job at a time.  Refuted when
\* four processes meet, see OneWakeUnlessDisplaced.
OneWake ==
  \A p, q \in Procs : InWake(p) /\ InWake(q) => p = q

\* The only way two passes are ever inside a wake of the same job, when none
\* of them outlasts its age bound: some breaker renamed aside a lock that
\* was not stale (_claim_stale, between its judge and its re-judge).
OneWakeUnlessDisplaced ==
  ~Overruns /\ ~displaced => OneWake

\* A lock whose holder document says `detached` keeps every other wake of
\* the job out while the child lives, through the exit of its pass, through
\* the age bound and through every sweep (lock.py, judge, the detached case).
DetachedChildIsAlone ==
  ~Overruns /\ ~displaced =>
    \A p, q \in Procs : 
      stage[p] = "kept" /\ child[p] = "alive" /\ InWake(q) => p = q

\* README, job field `detach`: the child keeps the job's lock until it exits.
\* Refuted by a pass that dies between the spawn and mark_detached.
SpawnedDetachedChildIsAlone ==
  Detach /\ ~Overruns /\ ~displaced =>
    \A p, q \in Procs : child[p] = "alive" /\ InWake(q) => p = q

\* _claim_stale deletes only what it proved stale: whatever was raced, the
\* directory a breaker empties under its own claim names no wake that may be
\* running.
BreaksOnlyStale ==
  [][\A p \in Procs :
       Unlink(p) /\ rmAt[p] = ClaimOf(p) /\ HolderAt(rmAt[p]) # NoHolder
         => StaleHolder(HolderAt(rmAt[p]))]_vars

\* Acquiring never waits for a holder: whatever the others do, or do not do,
\* an acquire ends with the lock, a refusal, or the death of the process.
AcquireEnds ==
  \A p \in Procs : pc[p] \in {"try", "read", "judge", "claim"} ~>
                     pc[p] \in {"hold", "done", "gone"}

\* A lock cannot outlive its holder: an acquire that finds a lock stale, when
\* no other process runs, breaks it and takes it.
LoneAcquireTakesStaleLock ==
  \A p \in Procs :
    /\ pc[p] = "read" /\ tries[p] = 1
    /\ dir[Path] # NoDir /\ Stale(dir[Path].file, dir[Path].aged)
    /\ \A q \in Procs \ {p} : pc[q] = "gone"
    ~> pc[p] \in {"hold", "gone"}

-----------------------------------------------------------------------------
(* The inductive invariant of the proofs, in named parts                   *)

\* Labels of a process that has not taken the lock.
BeforeTake(p) ==
  \/ pc[p] \in {"start", "sweep", "try", "read", "judge", "end", "read_again",
                "judge_again", "claim", "rejudge", "put_back"}
  \/ pc[p] \in {"unlink", "rmdir"} /\ rmAt[p] # Path

\* ... and of one that has, and has not spawned a child.
BeforeSpawn(p) ==
  pc[p] = "hold" \/ (pc[p] \in {"open", "replace"} /\ stage[p] = "taken")

\* A document says "noted" or "detached" only of a wake that has a child.
ChildInv ==
  /\ \A p \in Procs :
       /\ BeforeTake(p) => stage[p] = "none" /\ child[p] = "none" /\ p \notin old
       /\ BeforeSpawn(p) => stage[p] = "taken" /\ child[p] = "none"
       /\ pc[p] \in {"open", "replace"} => stage[p] \in Stages
       /\ stage[p] \in {"detached", "kept"} => child[p] # "none"
       /\ stage[p] = "noted" => child[p] # "none"
       /\ pc[p] \in {"note", "spawned"} => child[p] # "none"
  /\ \A l \in Locs :
       dir[l] # NoDir /\ dir[l].file # NoHolder /\ dir[l].file.stage # "taken"
         => child[dir[l].file.wake] # "none"

\* A sweeping process has made no claim yet.
SweepsFirst(p) ==
  \/ pc[p] \in {"start", "sweep"}
  \/ pc[p] \in {"unlink", "rmdir"} /\ rmAt[p] \notin {Path, ClaimOf(p)}
  => dir[<<p, 0>>] = NoDir /\ tries[p] = 0

\* What a breaker is about to delete under its own claim is stale.
DeletesStale(p) ==
  pc[p] \in {"unlink", "rmdir"} /\ rmAt[p] = ClaimOf(p)
  => HolderAt(rmAt[p]) = NoHolder \/ StaleHolder(HolderAt(rmAt[p]))

BreakInv == \A p \in Procs : SweepsFirst(p) /\ DeletesStale(p)

\* Labels of a wake whose wake.json has been written.
Named(p) ==
  \/ pc[p] \in {"hold", "note", "spawned", "release"}
  \/ pc[p] \in {"open", "replace"} /\ stage[p] # "taken"

\* What is at the lock path is the lock of p, and cannot be judged stale.
Owner(p) ==
  /\ p \notin old
  /\ dir[Path] # NoDir
  /\ dir[Path].file = NoHolder => ~dir[Path].aged /\ ~Named(p)
  /\ dir[Path].file # NoHolder =>
       dir[Path].file.wake = p /\ dir[Path].file.stage # "detached"

\* While no live lock has been renamed aside: every wake owns the lock at the
\* path, claims hold stale locks only, and a kept lock is in its place.
Undisplaced ==
  /\ OneWake
  /\ \A p \in Procs : InWake(p) => Owner(p)
  /\ \A c \in Claims :
       dir[c] # NoDir => Stale(dir[c].file, dir[c].aged) \/ dir[c] = FreshDir
  /\ \A p \in Procs : pc[p] = "put_back" => dir[ClaimOf(p)] \in {NoDir, FreshDir}
  /\ \A p \in Procs : stage[p] = "kept" /\ child[p] = "alive" =>
       dir[Path] # NoDir /\ dir[Path].file = [wake |-> p, stage |-> "detached"]

LockInv ==
  /\ TypeOK
  /\ ChildInv
  /\ BreakInv
  /\ ~Overruns /\ ~displaced => Undisplaced

=============================================================================
