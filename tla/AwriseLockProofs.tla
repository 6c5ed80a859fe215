-------------------------- MODULE AwriseLockProofs --------------------------
(***************************************************************************)
(* Theorems about AwriseLock for every set of processes.  The inductive    *)
(* invariant is LockInv: its parts are proved one after the other, each    *)
(* with one step for each action that can disturb it.                      *)
(***************************************************************************)
EXTENDS AwriseLock, TLAPS

\* The claim names are locations, and none of them is the lock path.
LEMMA ClaimIsLoc ==
  ASSUME TypeOK, NEW p \in Procs
  PROVE  ClaimOf(p) \in Claims /\ ClaimOf(p) \in Locs /\ ClaimOf(p) # Path
  BY ConstantsAssumption DEF TypeOK, ClaimOf, Claims, Locs

\* A directory that is there has the fields of a directory.
LEMMA DirType ==
  ASSUME TypeOK, NEW l \in Locs
  PROVE  /\ dir[l] # NoDir => dir[l] \in Dirs
         /\ HolderAt(l) \in Holders \cup {NoHolder}
  BY DEF TypeOK, Dirs, HolderAt

\* A directory just made is one, and holds nothing.
LEMMA FreshDirType == FreshDir \in Dirs /\ IsEmpty(FreshDir)
<1>1. FreshDir \in Dirs
  BY DEF FreshDir, Dirs
<1>2. FreshDir # NoDir
  BY <1>1, ConstantsAssumption DEF ConstantsAssumption
<1> QED BY <1>1, <1>2 DEF IsEmpty, FreshDir

\* Init establishes the invariant.
LEMMA InitLockInv == Init => LockInv
<1> SUFFICES ASSUME Init PROVE LockInv
  OBVIOUS
<1>1. TypeOK
  <2>1. pc \in [Procs -> Pcs] /\ rmAt \in [Procs -> Locs]
    BY DEF Init, Pcs, Locs
  <2>2. tries \in [Procs -> 0..MaxTries]
    BY DEF Init, MaxTries
  <2> QED BY <2>1, <2>2 DEF Init, TypeOK
<1>2. ChildInv
  BY DEF Init, ChildInv, BeforeTake, BeforeSpawn, Locs
<1>3. BreakInv
  BY DEF Init, BreakInv, SweepsFirst, DeletesStale, Locs, Claims, MaxTries
<1>4. Undisplaced
  BY ClaimIsLoc, <1>1 DEF Init, Undisplaced, OneWake, InWake, Owning, Locs
<1> QED BY <1>1, <1>2, <1>3, <1>4 DEF LockInv

\* Every step keeps the types.
LEMMA TypeStep == TypeOK /\ ChildInv /\ [Next]_vars => TypeOK'
<1> SUFFICES ASSUME TypeOK, ChildInv, [Next]_vars PROVE TypeOK'
  OBVIOUS
<1> USE DEF Goto
<1>1. ASSUME NEW p \in Procs, StartSweep(p) \/ SweepLock(p) \/ LoseRetake(p)
             \/ Spawn(p) \/ EndWake(p) \/ Die(p) \/ ChildExit(p) \/ AgeWake(p)
      PROVE  TypeOK'
  BY <1>1 DEF TypeOK, Pcs, StartSweep, SweepLock, LoseRetake, Spawn, EndWake,
              Die, ChildExit, AgeWake, Locs, MaxTries
<1>2. ASSUME NEW p \in Procs, SweepLeftover(p) PROVE TypeOK'
  BY <1>2 DEF TypeOK, Pcs, SweepLeftover, Locs
<1>3. ASSUME NEW p \in Procs, Mkdir(p) \/ MkdirExists(p) PROVE TypeOK'
  BY <1>3, FreshDirType DEF TypeOK, Pcs, Mkdir, MkdirExists, MaxTries, Stages
<1>4. ASSUME NEW p \in Procs, ReadHolder(p) PROVE TypeOK'
  BY <1>4, DirType DEF TypeOK, Pcs, ReadHolder, Locs
<1>5. ASSUME NEW p \in Procs, JudgeHeld(p) \/ JudgeStale(p) PROVE TypeOK'
  BY <1>5 DEF TypeOK, Pcs, JudgeHeld, JudgeStale
<1>6. ASSUME NEW p \in Procs, EndOverdue(p) PROVE TypeOK'
  BY <1>6 DEF TypeOK, Pcs, EndOverdue
<1>7. ASSUME NEW p \in Procs, Claim(p) PROVE TypeOK'
  BY <1>7, ClaimIsLoc DEF TypeOK, Pcs, Claim, Locs
<1>8. ASSUME NEW p \in Procs, Rejudge(p) \/ PutBack(p) PROVE TypeOK'
  BY <1>8, ClaimIsLoc DEF TypeOK, Pcs, Rejudge, PutBack, Locs
<1>9. ASSUME NEW p \in Procs, Unlink(p) \/ Rmdir(p) PROVE TypeOK'
  BY <1>9, FreshDirType DEF TypeOK, Pcs, Unlink, Rmdir, Locs
<1>10. ASSUME NEW p \in Procs, OpenTmp(p) PROVE TypeOK'
  <2>1. CASE dir[Path] = NoDir
    BY <1>10, <2>1 DEF TypeOK, Pcs, OpenTmp, WriteFails, AfterWrite, Locs
  <2>2. CASE dir[Path] # NoDir
    <3>1. [dir[Path] EXCEPT !.tmps = @ \cup {p}, !.aged = FALSE] \in Dirs
      BY <2>2 DEF TypeOK, Dirs, Locs
    <3> QED BY <1>10, <2>2, <3>1 DEF TypeOK, Pcs, OpenTmp, Locs
  <2> QED BY <2>1, <2>2
<1>11. ASSUME NEW p \in Procs, ReplaceFile(p) PROVE TypeOK'
  <2>1. CASE dir[Path] = NoDir \/ (dir[Path] # NoDir /\ p \notin dir[Path].tmps)
    BY <1>11, <2>1 DEF TypeOK, Pcs, ReplaceFile, WriteFails, AfterWrite, Locs
  <2>2. CASE dir[Path] # NoDir /\ p \in dir[Path].tmps
    <3>1. DocOf(p) \in Holders
      BY <1>11 DEF ReplaceFile, ChildInv, DocOf, Holders
    <3>2. [dir[Path] EXCEPT !.file = DocOf(p), !.tmps = @ \ {p}, !.aged = FALSE] \in Dirs
      BY <2>2, <3>1 DEF TypeOK, Dirs, Locs
    <3>3. dir' = [dir EXCEPT ![Path] = [dir[Path] EXCEPT !.file = DocOf(p),
                                 !.tmps = @ \ {p}, !.aged = FALSE]]
      BY <1>11, <2>2 DEF TypeOK, ReplaceFile, Locs
    <3>4. dir' \in [Locs -> Dirs \cup {NoDir}]
      BY <3>2, <3>3 DEF TypeOK, Locs
    <3> QED BY <1>11, <2>2, <3>4 DEF TypeOK, Pcs, ReplaceFile, AfterWrite, Stages
  <2> QED BY <2>1, <2>2
<1>12. ASSUME NEW p \in Procs, NoteChild(p) \/ MarkDetached(p) \/ Release(p) PROVE TypeOK'
  BY <1>12 DEF TypeOK, Pcs, NoteChild, MarkDetached, Release, RewriteIfOurs, Stages, Locs
<1>13. ASSUME AgeDir PROVE TypeOK'
  BY <1>13 DEF TypeOK, AgeDir, Dirs, Locs
<1>14. CASE UNCHANGED vars
  BY <1>14 DEF TypeOK, vars
<1> QED
  BY <1>1, <1>2, <1>3, <1>4, <1>5, <1>6, <1>7, <1>8, <1>9, <1>10, <1>11, <1>12,
     <1>13, <1>14 DEF Next, Step

\* Every step keeps ChildInv: its clauses about one process change only by
\* that process' own steps, its clause about documents only by ReplaceFile.
LEMMA ChildStep == TypeOK /\ ChildInv /\ [Next]_vars => ChildInv'
<1> SUFFICES ASSUME TypeOK, ChildInv, [Next]_vars PROVE ChildInv'
  OBVIOUS
<1> USE DEF Goto
<1>1. ASSUME NEW p \in Procs, StartSweep(p) \/ SweepLock(p) \/ SweepLeftover(p)
             \/ MkdirExists(p) \/ LoseRetake(p) \/ ReadHolder(p) \/ JudgeHeld(p)
             \/ JudgeStale(p) \/ Die(p) \/ AgeWake(p) \/ EndWake(p)
      PROVE  ChildInv'
  BY <1>1, ConstantsAssumption
  DEF TypeOK, ChildInv, BeforeTake, BeforeSpawn, StartSweep, SweepLock, SweepLeftover, Locs,
      MkdirExists, LoseRetake, ReadHolder, JudgeHeld, JudgeStale, Die, AgeWake,
      EndWake, ConstantsAssumption
<1>2. ASSUME NEW p \in Procs, Mkdir(p) PROVE ChildInv'
  BY <1>2 DEF TypeOK, ChildInv, BeforeTake, BeforeSpawn, Mkdir, FreshDir, Stages
<1>3. ASSUME NEW p \in Procs, EndOverdue(p) \/ ChildExit(p) \/ Spawn(p) PROVE ChildInv'
  <2>1. \A q \in Procs : child[q] # "none" => child'[q] # "none"
    BY <1>3 DEF TypeOK, EndOverdue, ChildExit, Spawn
  <2>2. CASE EndOverdue(p)
    <3>1. \A q \in Procs : child[q] = "none" => child'[q] = "none"
      BY <2>2, DirType DEF TypeOK, ChildInv, EndOverdue, NamedChild, HolderAt, Locs, Holders
    <3> QED BY <2>1, <2>2, <3>1, DirType
        DEF TypeOK, ChildInv, BeforeTake, BeforeSpawn, EndOverdue, Dirs, Holders
  <2>3. CASE ChildExit(p)
    BY <2>1, <2>3, DirType DEF TypeOK, ChildInv, BeforeTake, BeforeSpawn, ChildExit, Dirs, Holders
  <2>4. CASE Spawn(p)
    BY <2>1, <2>4, DirType DEF TypeOK, ChildInv, BeforeTake, BeforeSpawn, Spawn, Dirs, Holders
  <2> QED BY <1>3, <2>2, <2>3, <2>4
<1>4. ASSUME NEW p \in Procs, Claim(p) \/ PutBack(p) \/ Rejudge(p) PROVE ChildInv'
  BY <1>4, ClaimIsLoc DEF TypeOK, ChildInv, BeforeTake, BeforeSpawn, Claim, PutBack, Rejudge, Locs
<1>5. ASSUME NEW p \in Procs, Unlink(p) \/ Rmdir(p) PROVE ChildInv'
  BY <1>5, ClaimIsLoc DEF TypeOK, ChildInv, BeforeTake, BeforeSpawn, Unlink, Rmdir, FreshDir, Locs
<1>6. ASSUME NEW p \in Procs, OpenTmp(p) PROVE ChildInv'
  BY <1>6, DirType DEF TypeOK, ChildInv, BeforeTake, BeforeSpawn, OpenTmp, WriteFails, AfterWrite,
     Dirs, Locs, Stages
<1>7. ASSUME NEW p \in Procs, ReplaceFile(p) PROVE ChildInv'
  BY <1>7, DirType DEF TypeOK, ChildInv, BeforeTake, BeforeSpawn, ReplaceFile, WriteFails,
     AfterWrite, DocOf, Dirs, Locs, Stages
<1>8. ASSUME NEW p \in Procs, NoteChild(p) \/ MarkDetached(p) \/ Release(p) PROVE ChildInv'
  BY <1>8 DEF TypeOK, ChildInv, BeforeTake, BeforeSpawn, NoteChild, MarkDetached, Release,
     RewriteIfOurs, Stages
<1>9. ASSUME AgeDir PROVE ChildInv'
  BY <1>9, DirType DEF TypeOK, ChildInv, BeforeTake, BeforeSpawn, AgeDir, Dirs, Locs
<1>10. CASE UNCHANGED vars
  BY <1>10 DEF ChildInv, BeforeTake, BeforeSpawn, vars
<1> QED
  BY <1>1, <1>2, <1>3, <1>4, <1>5, <1>6, <1>7, <1>8, <1>9, <1>10 DEF Next, Step

\* Death, the exit of a child and age are for ever.
LEMMA Monotone ==
  ASSUME TypeOK, ChildInv, [Next]_vars
  PROVE  /\ \A q \in Procs : pc[q] = "gone" => pc'[q] = "gone"
         /\ \A q \in Procs : child[q] = "dead" => child'[q] = "dead"
         /\ old \subseteq old'
<1>1. ASSUME NEW p \in Procs, Step(p)
      PROVE  /\ \A q \in Procs : pc[q] = "gone" => pc'[q] = "gone"
             /\ UNCHANGED old
  BY <1>1 DEF TypeOK, Step, Goto, StartSweep, SweepLeftover, SweepLock, Mkdir,
     MkdirExists, LoseRetake, ReadHolder, JudgeHeld, JudgeStale, EndOverdue, Claim,
     Rejudge, PutBack, Unlink, Rmdir, OpenTmp, ReplaceFile, WriteFails, Spawn,
     NoteChild, MarkDetached, RewriteIfOurs, EndWake, Release
<1>2. ASSUME NEW p \in Procs, Step(p)
      PROVE  \A q \in Procs : child[q] = "dead" => child'[q] = "dead"
  BY <1>2 DEF TypeOK, ChildInv, BeforeTake, BeforeSpawn, Step, StartSweep, SweepLeftover,
     SweepLock, Mkdir, MkdirExists, LoseRetake, ReadHolder, JudgeHeld, JudgeStale,
     EndOverdue, Claim, Rejudge, PutBack, Unlink, Rmdir, OpenTmp, ReplaceFile,
     WriteFails, Spawn, NoteChild, MarkDetached, EndWake, Release
<1>3. ASSUME NEW p \in Procs, Die(p) \/ ChildExit(p) \/ AgeWake(p)
      PROVE  /\ \A q \in Procs : pc[q] = "gone" => pc'[q] = "gone"
             /\ \A q \in Procs : child[q] = "dead" => child'[q] = "dead"
             /\ old \subseteq old'
  BY <1>3 DEF TypeOK, Goto, Die, ChildExit, AgeWake
<1> QED BY <1>1, <1>2, <1>3 DEF Next, AgeDir, vars

\* A stale document stays stale, so a verdict on a private directory is final.
LEMMA StaleStays ==
  ASSUME TypeOK, ChildInv, [Next]_vars, NEW h \in Holders,
         h.stage # "taken" => child[h.wake] # "none", StaleHolder(h)
  PROVE  StaleHolder(h)'
<1>1. h.wake \in Procs
  BY DEF Holders
<1>2. h.stage # "taken" /\ child[h.wake] # "alive" => child[h.wake] = "dead"
  BY <1>1 DEF TypeOK
<1>3. ~ChildLives(h) => ~ChildLives(h)'
  BY <1>1, <1>2, Monotone DEF ChildLives
<1> QED BY <1>1, <1>3, Monotone DEF StaleHolder

\* Every step keeps BreakInv: a claim is private until it is removed, except
\* to sweepers, which only empty it.
LEMMA BreakStep == TypeOK /\ ChildInv /\ BreakInv /\ [Next]_vars => BreakInv'
<1> SUFFICES ASSUME TypeOK, ChildInv, BreakInv, [Next]_vars,
                    NEW q \in Procs
             PROVE  SweepsFirst(q)' /\ DeletesStale(q)'
  BY DEF BreakInv
<1> USE DEF Goto
<1>0. <<q, 0>> \in Claims /\ <<q, 0>> \in Locs /\ <<q, 0>> # Path
  BY ConstantsAssumption DEF Claims, Locs, MaxTries, ConstantsAssumption
<1>a. \A l \in Locs : HolderAt(l) # NoHolder /\ StaleHolder(HolderAt(l))
                        => StaleHolder(HolderAt(l))' \/ HolderAt(l)' # HolderAt(l)
  <2> SUFFICES ASSUME NEW l \in Locs, HolderAt(l) # NoHolder, StaleHolder(HolderAt(l)),
                      HolderAt(l)' = HolderAt(l)
               PROVE  StaleHolder(HolderAt(l))'
    OBVIOUS
  <2> DEFINE h == HolderAt(l)
  <2>1. h \in Holders /\ (h.stage # "taken" => child[h.wake] # "none")
    BY DirType DEF ChildInv, HolderAt
  <2> HIDE DEF h
  <2>2. ASSUME NEW g \in Holders, g = h PROVE StaleHolder(g)'
    BY <2>1, <2>2, StaleStays DEF h
  <2> QED BY <2>1, <2>2 DEF StaleHolder, ChildLives, h
<1>b. ASSUME NEW p \in Procs, Step(p), NEW c \in Claims, ~(Claim(p) /\ c = ClaimOf(p))
      PROVE  /\ dir[c] = NoDir => dir'[c] = NoDir
             /\ HolderAt(c)' = HolderAt(c) \/ HolderAt(c)' = NoHolder
  <2>1. c \in Locs /\ c # Path
    BY ConstantsAssumption DEF Locs, ConstantsAssumption
  <2>2. CASE Claim(p)
    BY <1>b, <2>1, <2>2 DEF TypeOK, Claim, HolderAt
  <2>3. CASE PutBack(p)
    BY <2>1, <2>3, ClaimIsLoc DEF TypeOK, PutBack, HolderAt
  <2>4. CASE Unlink(p) \/ Rmdir(p)
    BY <2>1, <2>4, FreshDirType DEF TypeOK, Unlink, Rmdir, HolderAt, IsEmpty, FreshDir
  <2>5. CASE Mkdir(p) \/ OpenTmp(p) \/ ReplaceFile(p)
    BY <2>1, <2>5 DEF TypeOK, Mkdir, OpenTmp, ReplaceFile, HolderAt
  <2>6. CASE UNCHANGED dir
    BY <2>6 DEF HolderAt
  <2> QED BY <1>b, <2>2, <2>3, <2>4, <2>5, <2>6
      DEF Step, StartSweep, SweepLeftover, SweepLock, MkdirExists, LoseRetake,
          ReadHolder, JudgeHeld, JudgeStale, EndOverdue, Rejudge, Spawn, NoteChild,
          MarkDetached, EndWake, Release
<1>1. ASSUME NEW p \in Procs, Step(p), p # q
      PROVE  /\ pc'[q] = pc[q] /\ tries'[q] = tries[q] /\ rmAt'[q] = rmAt[q]
             /\ ~(Claim(p) /\ <<q, 0>> = ClaimOf(p))
             /\ ~(Claim(p) /\ ClaimOf(q) = ClaimOf(p))
  BY <1>1 DEF TypeOK, Step, StartSweep, SweepLeftover, SweepLock, Mkdir,
     MkdirExists, LoseRetake, ReadHolder, JudgeHeld, JudgeStale, EndOverdue, Claim,
     Rejudge, PutBack, Unlink, Rmdir, OpenTmp, ReplaceFile, WriteFails, Spawn,
     NoteChild, MarkDetached, RewriteIfOurs, EndWake, Release, ClaimOf
<1>2. SweepsFirst(q) /\ DeletesStale(q)
  BY DEF BreakInv
<1>3. CASE UNCHANGED <<pc, tries, rmAt>> /\ UNCHANGED dir
  BY <1>2, <1>3, <1>a DEF TypeOK, SweepsFirst, DeletesStale, ClaimOf, HolderAt
<1>4. ASSUME NEW p \in Procs, Step(p), p # q PROVE SweepsFirst(q)' /\ DeletesStale(q)'
  <2>1. SweepsFirst(q)'
    BY <1>0, <1>b, <1>1, <1>2, <1>4 DEF SweepsFirst, ClaimOf
  <2>2. ASSUME pc[q] \in {"unlink", "rmdir"} /\ rmAt[q] = ClaimOf(q)
        PROVE  DeletesStale(q)'
    <3> SUFFICES ASSUME NEW c \in Claims, c \in Locs, c = ClaimOf(q)
                 PROVE  DeletesStale(q)'
      BY ClaimIsLoc
    <3>1. HolderAt(c)' = HolderAt(c) \/ HolderAt(c)' = NoHolder
      BY <1>b, <1>1, <1>4
    <3>2. rmAt'[q] = c /\ ClaimOf(q)' = c
      BY <1>1, <1>4, <2>2 DEF ClaimOf
    <3>3. HolderAt(c) = NoHolder \/ StaleHolder(HolderAt(c))
      BY <1>2, <2>2 DEF DeletesStale
    <3>4. HolderAt(c)' = NoHolder \/ StaleHolder(HolderAt(c))'
      BY <3>1, <3>3, <1>a
    <3> QED BY <3>2, <3>4 DEF DeletesStale, StaleHolder, ChildLives, HolderAt
  <2>3. ASSUME ~(pc[q] \in {"unlink", "rmdir"} /\ rmAt[q] = ClaimOf(q))
        PROVE  DeletesStale(q)'
    BY <1>1, <1>4, <2>3 DEF DeletesStale, ClaimOf
  <2> QED BY <2>1, <2>2, <2>3
<1>5. ASSUME Step(q) PROVE SweepsFirst(q)' /\ DeletesStale(q)'
  <2>1. CASE Rejudge(q)
    <3>1. CASE pc'[q] = "put_back"
      BY <3>1 DEF SweepsFirst, DeletesStale
    <3>2. CASE pc'[q] = "unlink"
      <4> SUFFICES ASSUME NEW c \in Claims, c \in Locs, c # Path, c = ClaimOf(q)
                   PROVE  SweepsFirst(q)' /\ DeletesStale(q)'
        BY ClaimIsLoc
      <4>1. rmAt'[q] = c /\ ClaimOf(q)' = c /\ HolderAt(c)' = HolderAt(c)
        BY <2>1, <3>2 DEF TypeOK, Rejudge, HolderAt, ClaimOf
      <4>2. HolderAt(c) = NoHolder \/ StaleHolder(HolderAt(c))
        BY <2>1, <3>2 DEF TypeOK, Rejudge, Stale
      <4>3. HolderAt(c)' = NoHolder \/ StaleHolder(HolderAt(c))'
        BY <4>1, <4>2, <1>a
      <4> QED BY <4>1, <4>3, <3>2
          DEF SweepsFirst, DeletesStale, HolderAt, StaleHolder, ChildLives
    <3>3. pc'[q] \in {"put_back", "unlink"}
      BY <2>1 DEF TypeOK, Rejudge
    <3> QED BY <3>1, <3>2, <3>3
  <2>2. CASE Unlink(q)
    <3>1. pc[q] = "unlink" /\ pc'[q] = "rmdir" /\ UNCHANGED <<tries, rmAt>>
      BY <2>2 DEF TypeOK, Unlink
    <3>2. HolderAt(rmAt[q])' = NoHolder
      BY <2>2, <3>1 DEF TypeOK, Unlink, HolderAt, IsEmpty, FreshDir
    <3>3. dir[<<q, 0>>] = NoDir => dir'[<<q, 0>>] = NoDir
      BY <1>0, <2>2, <3>1 DEF TypeOK, Unlink
    <3> QED BY <1>2, <3>1, <3>2, <3>3 DEF SweepsFirst, DeletesStale, ClaimOf
  <2>3. CASE SweepLeftover(q)
    BY <1>0, <1>2, <2>3 DEF TypeOK, SweepLeftover, SweepsFirst, DeletesStale, ClaimOf
  <2>4. CASE Rmdir(q)
    BY <1>0, <1>2, <2>4 DEF TypeOK, Rmdir, SweepsFirst, DeletesStale, ClaimOf
  <2>5. CASE StartSweep(q)
    BY <1>2, <2>5 DEF TypeOK, StartSweep, SweepsFirst, DeletesStale
  <2>6. CASE Release(q) \/ OpenTmp(q) \/ ReplaceFile(q)
    BY <1>2, <2>6, ClaimIsLoc DEF TypeOK, Release, OpenTmp, ReplaceFile, WriteFails,
       AfterWrite, SweepsFirst, DeletesStale, ClaimOf
  <2>7. CASE pc'[q] \notin {"start", "sweep", "unlink", "rmdir"}
    BY <2>7 DEF SweepsFirst, DeletesStale
  <2> QED BY <1>5, <2>1, <2>2, <2>3, <2>4, <2>5, <2>6, <2>7
      DEF TypeOK, Step, SweepLock, Mkdir, MkdirExists, LoseRetake, ReadHolder,
          JudgeHeld, JudgeStale, EndOverdue, Claim, PutBack, Spawn, NoteChild,
          MarkDetached, RewriteIfOurs, EndWake
<1>6. ASSUME NEW p \in Procs, Die(p) PROVE SweepsFirst(q)' /\ DeletesStale(q)'
  <2>1. CASE p = q
    BY <1>6, <2>1 DEF TypeOK, Die, SweepsFirst, DeletesStale
  <2>2. CASE p # q
    BY <1>2, <1>6, <1>a, <2>2 DEF TypeOK, Die, SweepsFirst, DeletesStale, ClaimOf, HolderAt
  <2> QED BY <2>1, <2>2
<1>7. ASSUME NEW p \in Procs, ChildExit(p) \/ AgeWake(p)
      PROVE  SweepsFirst(q)' /\ DeletesStale(q)'
  BY <1>3, <1>7 DEF ChildExit, AgeWake
<1>8. CASE AgeDir
  <2>1. HolderAt(rmAt[q])' = HolderAt(rmAt[q]) /\ dir'[<<q, 0>>] = dir[<<q, 0>>]
    BY <1>0, <1>8 DEF TypeOK, AgeDir, HolderAt
  <2> QED BY <1>2, <1>8, <1>a, <2>1 DEF TypeOK, AgeDir, SweepsFirst, DeletesStale, ClaimOf
<1>9. CASE UNCHANGED vars
  BY <1>3, <1>9 DEF vars
<1> QED
  BY <1>4, <1>5, <1>6, <1>7, <1>8, <1>9 DEF Next

\* A process enters a wake only by its own mkdir.
LEMMA EntersByMkdir ==
  ASSUME TypeOK, NEW p \in Procs, Step(p), NEW q \in Procs, InWake(q)'
  PROVE  InWake(q) \/ (q = p /\ Mkdir(p))
<1>1. CASE p # q
  BY <1>1 DEF TypeOK, Goto, InWake, Owning, Step, StartSweep, SweepLeftover,
     SweepLock, Mkdir, MkdirExists, LoseRetake, ReadHolder, JudgeHeld, JudgeStale,
     EndOverdue, Claim, Rejudge, PutBack, Unlink, Rmdir, OpenTmp, ReplaceFile,
     WriteFails, Spawn, NoteChild, MarkDetached, RewriteIfOurs, EndWake, Release
<1>2. CASE p = q
  <2>1. CASE SweepLeftover(p) \/ Rejudge(p)
    BY <1>2, <2>1, ClaimIsLoc, ConstantsAssumption
    DEF TypeOK, Goto, InWake, Owning, SweepLeftover, Rejudge, ConstantsAssumption
  <2>2. CASE ~(SweepLeftover(p) \/ Rejudge(p))
    BY <1>2, <2>2 DEF TypeOK, Goto, InWake, Owning, Step, StartSweep, SweepLock,
       MkdirExists, LoseRetake, ReadHolder, JudgeHeld, JudgeStale, EndOverdue, Claim,
       PutBack, Unlink, Rmdir, OpenTmp, ReplaceFile, WriteFails, AfterWrite, Spawn,
       NoteChild, MarkDetached, RewriteIfOurs, EndWake, Release
  <2> QED BY <2>1, <2>2
<1> QED BY <1>1, <1>2

\* A process outside a wake leaves a lock that is not stale where it is; it
\* can at most rename a claim onto an empty directory.
LEMMA PathStays ==
  ASSUME TypeOK, NEW p \in Procs, Step(p), ~InWake(p), dir[Path] # NoDir,
         ~Stale(dir[Path].file, dir[Path].aged), ~displaced'
  PROVE  \/ dir'[Path] = dir[Path]
         \/ /\ IsEmpty(dir[Path])
            /\ pc[p] = "put_back" /\ dir[ClaimOf(p)] # NoDir
            /\ dir'[Path] = dir[ClaimOf(p)]
<1>1. Path \in Locs
  BY DEF Locs
<1>2. CASE Claim(p)
  BY <1>2 DEF TypeOK, Claim
<1>3. CASE PutBack(p)
  BY <1>1, <1>3, ClaimIsLoc DEF TypeOK, PutBack
<1>4. CASE Unlink(p) \/ Rmdir(p)
  BY <1>1, <1>4 DEF TypeOK, Unlink, Rmdir, InWake
<1>5. CASE Mkdir(p) \/ OpenTmp(p) \/ ReplaceFile(p)
  BY <1>5 DEF Mkdir, OpenTmp, ReplaceFile, InWake, Owning
<1>6. CASE UNCHANGED dir
  BY <1>6
<1> QED BY <1>2, <1>3, <1>4, <1>5, <1>6
    DEF Step, StartSweep, SweepLeftover, SweepLock, MkdirExists, LoseRetake,
        ReadHolder, JudgeHeld, JudgeStale, EndOverdue, Rejudge, Spawn, NoteChild,
        MarkDetached, EndWake, Release

\* The lock of a wake in progress is not stale.
LEMMA OwnedIsNotStale ==
  ASSUME TypeOK, NEW q \in Procs, InWake(q), Owner(q)
  PROVE  ~Stale(dir[Path].file, dir[Path].aged)
  BY DEF TypeOK, InWake, Owning, Owner, Stale, StaleHolder

\* Every step of another process keeps the lock of a wake in progress.
LEMMA OwnerKeptByOthers ==
  ASSUME TypeOK, Undisplaced, ~displaced', NEW p \in Procs, Step(p),
         NEW q \in Procs, p # q, InWake(q)
  PROVE  Owner(q)'
<1>1. Owner(q) /\ ~InWake(p)
  BY DEF Undisplaced, OneWake
<1>2. ~Stale(dir[Path].file, dir[Path].aged)
  BY <1>1, OwnedIsNotStale
<1>3. /\ dir'[Path] # NoDir
      /\ dir'[Path] = dir[Path] \/ (dir[Path].file = NoHolder /\ dir'[Path] = FreshDir)
  <2>1. CASE dir'[Path] = dir[Path]
    BY <1>1, <2>1 DEF Owner
  <2>2. CASE dir'[Path] # dir[Path]
    <3>1. IsEmpty(dir[Path]) /\ pc[p] = "put_back" /\ dir[ClaimOf(p)] # NoDir
          /\ dir'[Path] = dir[ClaimOf(p)]
      BY <1>1, <1>2, <2>2, PathStays DEF Owner
    <3>2. dir[ClaimOf(p)] = FreshDir
      BY <3>1 DEF Undisplaced
    <3> QED BY <3>1, <3>2 DEF IsEmpty
  <2> QED BY <2>1, <2>2
<1>4. UNCHANGED old /\ pc'[q] = pc[q] /\ stage'[q] = stage[q]
  BY DEF TypeOK, Goto, Step, StartSweep, SweepLeftover,
     SweepLock, Mkdir, MkdirExists, LoseRetake, ReadHolder, JudgeHeld, JudgeStale,
     EndOverdue, Claim, Rejudge, PutBack, Unlink, Rmdir, OpenTmp, ReplaceFile,
     WriteFails, Spawn, NoteChild, MarkDetached, RewriteIfOurs, EndWake, Release
<1> QED BY <1>1, <1>3, <1>4 DEF Owner, Named, FreshDir

\* A step of a wake keeps its own lock, until the wake leaves it.
LEMMA OwnerKeptByItself ==
  ASSUME TypeOK, ChildInv, Undisplaced, NEW q \in Procs, Step(q), InWake(q)', ~Overruns
  PROVE  Owner(q)'
<1> USE DEF Goto
<1>1. Path \in Locs
  BY DEF Locs
<1>2. CASE Mkdir(q)
  <2>1. q \notin old
    BY <1>2 DEF Mkdir, ChildInv, BeforeTake
  <2> QED BY <1>1, <1>2, <2>1, FreshDirType DEF TypeOK, Mkdir, Owner, Named, FreshDir, IsEmpty
<1>3. CASE ~Mkdir(q)
  <2>1. InWake(q) /\ Owner(q)
    BY <1>3, EntersByMkdir DEF Undisplaced
  <2>2. CASE OpenTmp(q)
    <3>1. dir[Path] \in Dirs
      BY <1>1, <2>1, DirType DEF Owner
    <3>2. dir'[Path] = [dir[Path] EXCEPT !.tmps = @ \cup {q}, !.aged = FALSE]
      BY <1>1, <2>1, <2>2 DEF TypeOK, OpenTmp, Owner
    <3>3. dir'[Path] \in Dirs /\ dir'[Path].file = dir[Path].file /\ ~dir'[Path].aged
      BY <3>1, <3>2 DEF Dirs
    <3>4. dir'[Path] # NoDir
      BY <3>3, ConstantsAssumption DEF ConstantsAssumption
    <3> QED BY <2>1, <2>2, <3>3, <3>4 DEF TypeOK, OpenTmp, Owner, Named
  <2>3. CASE ReplaceFile(q)
    <3>1. CASE q \notin dir[Path].tmps
      BY <2>1, <2>3, <3>1 DEF TypeOK, ReplaceFile, WriteFails, AfterWrite, Owner, Named,
         InWake, Owning
    <3>2. CASE q \in dir[Path].tmps
      <4>1. dir'[Path] = [dir[Path] EXCEPT !.file = DocOf(q), !.tmps = @ \ {q},
                                           !.aged = FALSE]
        BY <1>1, <2>1, <2>3, <3>2 DEF TypeOK, ReplaceFile, Owner
      <4>2. DocOf(q) \in Holders /\ DocOf(q) # NoHolder
        BY <2>3, ConstantsAssumption
        DEF ReplaceFile, ChildInv, DocOf, Holders, ConstantsAssumption
      <4>3. stage[q] # "detached"
        BY <2>1, <2>3, <3>2 DEF TypeOK, ReplaceFile, AfterWrite, Owner, InWake, Owning
      <4>4. dir'[Path] # NoDir /\ dir'[Path].file = DocOf(q)
        <5>1. dir[Path] \in Dirs
          BY <1>1, <2>1, DirType DEF Owner
        <5>2. dir'[Path] \in Dirs /\ dir'[Path].file = DocOf(q)
          BY <4>1, <4>2, <5>1 DEF Dirs
        <5> QED BY <5>2, ConstantsAssumption DEF ConstantsAssumption
      <4>5. q \notin old'
        BY <2>1, <2>3 DEF ReplaceFile, Owner
      <4> QED BY <4>2, <4>3, <4>4, <4>5 DEF Owner, DocOf
    <3> QED BY <3>1, <3>2
  <2>4. CASE Unlink(q)
    BY <1>1, <2>1, <2>4, FreshDirType DEF TypeOK, Unlink, Owner, Named, InWake,
       Owning, FreshDir, IsEmpty
  <2>5. CASE Spawn(q) \/ NoteChild(q) \/ MarkDetached(q) \/ EndWake(q) \/ Release(q)
    BY <2>1, <2>5 DEF TypeOK, Spawn, NoteChild, MarkDetached, RewriteIfOurs, EndWake,
       Release, Owner, Named, InWake, Owning
  <2>6. CASE Rmdir(q)
    BY <2>6 DEF TypeOK, Rmdir, InWake, Owning
  <2> QED BY <1>3, <2>1, <2>2, <2>3, <2>4, <2>5, <2>6
      DEF Step, InWake, Owning, StartSweep, SweepLeftover, SweepLock, MkdirExists,
          LoseRetake, ReadHolder, JudgeHeld, JudgeStale, EndOverdue, Claim, Rejudge,
          PutBack
<1> QED BY <1>2, <1>3

\* What can happen at the name of a claim: nothing, a removal (or a put-back),
\* an emptying, or the arrival of the directory of the lock.
LEMMA ClaimChanges ==
  ASSUME TypeOK, [Next]_vars, NEW c \in Claims
  PROVE  \/ dir'[c] = dir[c]
         \/ dir'[c] \in {NoDir, FreshDir}
         \/ \E p \in Procs : /\ Claim(p) /\ c = ClaimOf(p)
                             /\ dir[Path] # NoDir /\ dir'[c] = dir[Path]
<1>1. c \in Locs /\ c # Path
  BY ConstantsAssumption DEF Locs, ConstantsAssumption
<1>2. ASSUME NEW p \in Procs, Claim(p)
      PROVE  \/ dir'[c] = dir[c]
             \/ c = ClaimOf(p) /\ dir[Path] # NoDir /\ dir'[c] = dir[Path]
  BY <1>1, <1>2, ClaimIsLoc DEF TypeOK, Claim
<1>3. ASSUME NEW p \in Procs, PutBack(p)
      PROVE  dir'[c] = dir[c] \/ dir'[c] = NoDir
  BY <1>1, <1>3, ClaimIsLoc DEF TypeOK, PutBack
<1>4. ASSUME NEW p \in Procs, Unlink(p) \/ Rmdir(p)
      PROVE  dir'[c] = dir[c] \/ dir'[c] \in {NoDir, FreshDir}
  BY <1>1, <1>4 DEF TypeOK, Unlink, Rmdir
<1>5. ASSUME NEW p \in Procs, Mkdir(p) \/ OpenTmp(p) \/ ReplaceFile(p)
      PROVE  dir'[c] = dir[c]
  BY <1>1, <1>5 DEF TypeOK, Mkdir, OpenTmp, ReplaceFile
<1>6. CASE AgeDir
  BY <1>1, <1>6 DEF TypeOK, AgeDir
<1> QED BY <1>2, <1>3, <1>4, <1>5, <1>6
    DEF Next, vars, Step, StartSweep, SweepLeftover, SweepLock, MkdirExists,
        LoseRetake, ReadHolder, JudgeHeld, JudgeStale, EndOverdue, Rejudge, Spawn,
        NoteChild, MarkDetached, EndWake, Release, Die, ChildExit, AgeWake

\* A directory judged stale stays stale while its content does.
LEMMA StaleDirStays ==
  ASSUME TypeOK, ChildInv, [Next]_vars, NEW l \in Locs, dir[l] # NoDir,
         Stale(dir[l].file, dir[l].aged), NEW d, d = dir[l]
  PROVE  Stale(d.file, d.aged)'
<1>1. d \in Dirs
  BY DirType
<1>2. CASE d.file = NoHolder
  BY <1>2 DEF Stale
<1>3. CASE d.file # NoHolder
  <2>1. d.file \in Holders /\ StaleHolder(d.file)
    BY <1>1, <1>3 DEF Stale, Dirs
  <2>2. d.file.stage # "taken" => child[d.file.wake] # "none"
    BY <1>3 DEF ChildInv
  <2>3. ASSUME NEW h, h = d.file PROVE StaleHolder(h)'
    BY <2>1, <2>2, <2>3, StaleStays
  <2> QED BY <1>3, <2>3 DEF Stale, StaleHolder, ChildLives
<1> QED BY <1>2, <1>3

\* Every step keeps Undisplaced, as long as no live lock is renamed aside.
LEMMA UndisplacedStep ==
  ASSUME TypeOK, ChildInv, Undisplaced, [Next]_vars, ~Overruns, ~displaced'
  PROVE  Undisplaced'
<1> USE DEF Goto
<1>1. Path \in Locs /\ Path \notin Claims /\ Claims \subseteq Locs
  BY ConstantsAssumption DEF Locs, ConstantsAssumption
<1>2. \A q \in Procs : InWake(q) => Owner(q)
  BY DEF Undisplaced
<1>3. ASSUME NEW q \in Procs, InWake(q)' PROVE Owner(q)'
  <2>1. ASSUME NEW p \in Procs, Step(p) PROVE Owner(q)'
    <3>1. CASE p = q
      BY <1>3, <2>1, <3>1, OwnerKeptByItself
    <3>2. CASE p # q
      BY <1>3, <2>1, <3>2, EntersByMkdir, OwnerKeptByOthers
    <3> QED BY <3>1, <3>2
  <2>2. ASSUME NEW p \in Procs, Die(p) PROVE Owner(q)'
    BY <1>2, <1>3, <2>2 DEF TypeOK, Die, InWake, Owning, Owner, Named
  <2>3. ASSUME NEW p \in Procs, ChildExit(p) \/ AgeWake(p) PROVE Owner(q)'
    BY <1>2, <1>3, <2>3 DEF TypeOK, ChildExit, AgeWake, InWake, Owner, Named
  <2>4. CASE AgeDir
    BY <1>2, <1>3, <2>4 DEF TypeOK, AgeDir, InWake, Owning, Owner, Named
  <2>5. CASE UNCHANGED vars
    BY <1>2, <1>3, <2>5 DEF vars, InWake, Owner, Named
  <2> QED BY <2>1, <2>2, <2>3, <2>4, <2>5 DEF Next
<1>4. ASSUME NEW p \in Procs, NEW q \in Procs, InWake(p)', InWake(q)' PROVE p = q
  <2>1. CASE \E r \in Procs : Mkdir(r)
    BY <1>2, <1>4, <2>1, EntersByMkdir DEF Mkdir, Owner, Step
  <2>2. CASE \E r \in Procs : Step(r) /\ ~Mkdir(r)
    BY <1>4, <2>2, EntersByMkdir DEF Undisplaced, OneWake
  <2>3. CASE \E r \in Procs : Die(r) \/ ChildExit(r) \/ AgeWake(r)
    BY <1>4, <2>3 DEF TypeOK, Die, ChildExit, AgeWake, InWake, Owning, Undisplaced, OneWake
  <2>4. CASE AgeDir \/ UNCHANGED vars
    BY <1>4, <2>4 DEF AgeDir, vars, InWake, Undisplaced, OneWake
  <2> QED BY <2>1, <2>2, <2>3, <2>4 DEF Next
<1>5. ASSUME NEW c \in Claims, dir'[c] # NoDir
      PROVE  (Stale(dir[c].file, dir[c].aged) \/ dir[c] = FreshDir)'
  <2>1. CASE dir'[c] = dir[c]
    <3> SUFFICES ASSUME NEW d, d = dir[c], d # FreshDir PROVE Stale(d.file, d.aged)'
      BY <2>1 DEF Stale, StaleHolder, ChildLives, FreshDir
    <3> QED BY <1>1, <1>5, <2>1, StaleDirStays DEF Undisplaced
  <2>2. CASE dir'[c] = FreshDir
    BY <2>2 DEF FreshDir
  <2>3. ASSUME NEW p \in Procs, Claim(p), c = ClaimOf(p), dir[Path] # NoDir,
               dir'[c] = dir[Path]
        PROVE  Stale(dir[c].file, dir[c].aged)'
    <3>1. Stale(dir[Path].file, dir[Path].aged)
      BY <2>3 DEF Claim
    <3> SUFFICES ASSUME NEW d, d = dir[Path] PROVE Stale(d.file, d.aged)'
      BY <2>3 DEF Stale, StaleHolder, ChildLives
    <3> QED BY <1>1, <2>3, <3>1, StaleDirStays
  <2> QED BY <1>5, <2>1, <2>2, <2>3, ClaimChanges
<1>6. ASSUME NEW q \in Procs, (pc[q] = "put_back")'
      PROVE  (dir[ClaimOf(q)] \in {NoDir, FreshDir})'
  <2>1. CASE Rejudge(q)
    <3>1. /\ UNCHANGED <<dir, tries>>
          /\ ~Stale(HolderAt(ClaimOf(q)), AgedAt(ClaimOf(q)))
      BY <1>6, <2>1 DEF TypeOK, Rejudge
    <3>2. dir[ClaimOf(q)] \in {NoDir, FreshDir}
      <4> SUFFICES ASSUME NEW c \in Claims, c = ClaimOf(q), dir[c] # NoDir
                   PROVE  dir[c] = FreshDir
        BY ClaimIsLoc
      <4>1. HolderAt(c) = dir[c].file /\ AgedAt(c) = dir[c].aged
        <5>1. dir[c] \in Dirs
          BY <1>1, DirType
        <5> QED BY <5>1 DEF HolderAt, AgedAt, Dirs
      <4> QED BY <3>1, <4>1 DEF Undisplaced
    <3> QED BY <3>1, <3>2 DEF ClaimOf
  <2>2. CASE ~Rejudge(q)
    <3>1. pc[q] = "put_back" /\ ~Step(q) /\ tries'[q] = tries[q]
      <4>1. ~Step(q)
        BY <1>6, <2>2 DEF TypeOK, Step, StartSweep, SweepLeftover,
           SweepLock, Mkdir, MkdirExists, LoseRetake, ReadHolder, JudgeHeld, JudgeStale,
           EndOverdue, Claim, PutBack, Unlink, Rmdir, OpenTmp, ReplaceFile, WriteFails,
           AfterWrite, Spawn, NoteChild, MarkDetached, RewriteIfOurs, EndWake, Release
      <4>2. ASSUME NEW p \in Procs, p # q, Step(p)
            PROVE  pc'[q] = pc[q] /\ tries'[q] = tries[q]
        BY <4>2 DEF TypeOK, Step, StartSweep, SweepLeftover,
           SweepLock, Mkdir, MkdirExists, LoseRetake, ReadHolder, JudgeHeld, JudgeStale,
           EndOverdue, Claim, Rejudge, PutBack, Unlink, Rmdir, OpenTmp, ReplaceFile,
           WriteFails, Spawn, NoteChild, MarkDetached, RewriteIfOurs, EndWake, Release
      <4>3. ASSUME NEW p \in Procs, Die(p) \/ ChildExit(p) \/ AgeWake(p)
            PROVE  pc'[q] = pc[q] /\ tries'[q] = tries[q]
        BY <1>6, <4>3 DEF TypeOK, Die, ChildExit, AgeWake
      <4> QED BY <1>6, <4>1, <4>2, <4>3 DEF Next, AgeDir, vars
    <3> SUFFICES ASSUME NEW c \in Claims, c = ClaimOf(q), ClaimOf(q)' = c
                 PROVE  dir'[c] \in {NoDir, FreshDir}
      BY <3>1, ClaimIsLoc DEF ClaimOf
    <3>2. dir[c] \in {NoDir, FreshDir}
      BY <3>1 DEF Undisplaced
    <3>3. ASSUME NEW p \in Procs, Claim(p) PROVE c # ClaimOf(p)
      BY <3>1, <3>3 DEF Step, ClaimOf
    <3> QED BY <3>2, <3>3, ClaimChanges
  <2> QED BY <2>1, <2>2
<1>7. ASSUME NEW q \in Procs, (stage[q] = "kept" /\ child[q] = "alive")'
      PROVE  (dir[Path] # NoDir /\ dir[Path].file = [wake |-> q, stage |-> "detached"])'
  <2>1. CASE ReplaceFile(q)
    <3>1. stage[q] # "kept"
      BY <2>1 DEF ReplaceFile, ChildInv, Stages
    <3>2. dir[Path] # NoDir /\ q \in dir[Path].tmps /\ stage[q] = "detached"
      BY <1>7, <2>1, <3>1 DEF TypeOK, ReplaceFile
    <3>3. dir'[Path] = [dir[Path] EXCEPT !.file = DocOf(q), !.tmps = @ \ {q},
                                         !.aged = FALSE]
      BY <1>1, <2>1, <3>2 DEF TypeOK, ReplaceFile
    <3>4. dir[Path] \in Dirs /\ DocOf(q) \in Holders
      BY <1>1, <3>2, DirType DEF DocOf, Holders, Stages
    <3>5. dir'[Path] \in Dirs /\ dir'[Path].file = DocOf(q)
      BY <3>3, <3>4 DEF Dirs
    <3> QED BY <3>2, <3>5, ConstantsAssumption DEF DocOf, ConstantsAssumption
  <2>2. CASE ~ReplaceFile(q)
    <3>1. stage[q] = "kept"
      <4>1. ASSUME NEW p \in Procs, Step(p) PROVE stage'[q] = "kept" => stage[q] = "kept"
        BY <2>2, <4>1 DEF TypeOK, Step, StartSweep, SweepLeftover,
           SweepLock, Mkdir, MkdirExists, LoseRetake, ReadHolder, JudgeHeld, JudgeStale,
           EndOverdue, Claim, Rejudge, PutBack, Unlink, Rmdir, OpenTmp, ReplaceFile,
           Spawn, NoteChild, MarkDetached, EndWake, Release
      <4> QED BY <1>7, <4>1 DEF Next, Die, ChildExit, AgeWake, AgeDir, vars
    <3>2. child[q] = "alive"
      <4>1. ASSUME NEW p \in Procs, Step(p) PROVE child'[q] = "alive" => child[q] = "alive"
        BY <3>1, <4>1 DEF TypeOK, ChildInv, BeforeSpawn, Step, StartSweep, SweepLeftover,
           SweepLock, Mkdir, MkdirExists, LoseRetake, ReadHolder, JudgeHeld, JudgeStale,
           EndOverdue, Claim, Rejudge, PutBack, Unlink, Rmdir, OpenTmp, ReplaceFile,
           Spawn, NoteChild, MarkDetached, EndWake, Release
      <4> QED BY <1>7, <4>1 DEF TypeOK, Next, Die, ChildExit, AgeWake, AgeDir, vars
    <3>3. dir[Path] # NoDir /\ dir[Path].file = [wake |-> q, stage |-> "detached"]
      BY <3>1, <3>2 DEF Undisplaced
    <3>4. dir[Path].file # NoHolder
      BY <3>3, ConstantsAssumption DEF ConstantsAssumption, Holders, Stages
    <3>5. ~Stale(dir[Path].file, dir[Path].aged) /\ ~IsEmpty(dir[Path])
      BY <3>2, <3>3, <3>4 DEF Stale, StaleHolder, ChildLives, IsEmpty
    <3>6. \A p \in Procs : ~InWake(p)
      BY <1>2, <3>3, <3>4 DEF Owner
    <3>7. ASSUME NEW p \in Procs, Step(p) PROVE dir'[Path] = dir[Path]
      BY <3>3, <3>5, <3>6, <3>7, PathStays
    <3> QED BY <3>3, <3>4, <3>7 DEF Next, Die, ChildExit, AgeWake, AgeDir, vars
  <2> QED BY <2>1, <2>2
<1> QED
  BY <1>3, <1>4, <1>5, <1>6, <1>7 DEF Undisplaced, OneWake

\* The history of displacements only grows.
LEMMA DisplacedGrows == TypeOK /\ [Next]_vars /\ displaced => displaced'
  BY DEF TypeOK, Next, vars, Step, StartSweep, SweepLeftover, SweepLock, Mkdir,
     MkdirExists, LoseRetake, ReadHolder, JudgeHeld, JudgeStale, EndOverdue, Claim,
     Rejudge, PutBack, Unlink, Rmdir, OpenTmp, ReplaceFile, Spawn, NoteChild,
     MarkDetached, EndWake, Release, Die, ChildExit, AgeWake, AgeDir

\* LockInv is an invariant of the specification.
THEOREM LockInvariant == Spec => []LockInv
<1>1. LockInv /\ [Next]_vars => LockInv'
  BY TypeStep, ChildStep, BreakStep, UndisplacedStep, DisplacedGrows DEF LockInv
<1> QED BY InitLockInv, <1>1, PTL DEF Spec

\* The state of the lock model is always well typed, for any set of processes.
THEOREM TypeCorrect == Spec => []TypeOK
<1>1. LockInv => TypeOK
  BY DEF LockInv
<1> QED BY <1>1, LockInvariant, PTL

\* Two wakes of a job never run at once unless a breaker renamed aside a lock
\* that was not stale, or a wake outlasted its age bound (lock.py, _take,
\* judge and _claim_stale), however many processes meet at the lock.
THEOREM NoDoubleFireUnlessDisplaced == Spec => []OneWakeUnlessDisplaced
<1>1. LockInv => OneWakeUnlessDisplaced
  BY DEF LockInv, OneWakeUnlessDisplaced, Undisplaced
<1> QED BY <1>1, LockInvariant, PTL

\* A detached child whose lock is marked keeps every other wake of its job
\* out while it lives (lock.py, judge and mark_detached).
THEOREM DetachedChildKeepsLock == Spec => []DetachedChildIsAlone
<1>1. LockInv => DetachedChildIsAlone
  <2> SUFFICES ASSUME LockInv, ~Overruns, ~displaced, NEW p \in Procs, NEW q \in Procs,
                      stage[p] = "kept", child[p] = "alive", InWake(q)
               PROVE  FALSE
    BY DEF DetachedChildIsAlone
  <2>1. Undisplaced
    BY DEF LockInv
  <2>2. Owner(q) /\ dir[Path].file = [wake |-> p, stage |-> "detached"]
    BY <2>1 DEF Undisplaced
  <2>3. dir[Path].file # NoHolder
    BY <2>2, ConstantsAssumption DEF ConstantsAssumption, Holders, Stages
  <2> QED BY <2>2, <2>3 DEF Owner
<1> QED BY <1>1, LockInvariant, PTL

\* A breaker empties, under its own claim, only a directory whose document is
\* stale: the re-judgement of _claim_stale cannot be raced.
THEOREM BreakersDeleteStaleLocks == Spec => BreaksOnlyStale
<1>1. LockInv /\ [Next]_vars =>
        [\A p \in Procs :
           Unlink(p) /\ rmAt[p] = ClaimOf(p) /\ HolderAt(rmAt[p]) # NoHolder
             => StaleHolder(HolderAt(rmAt[p]))]_vars
  BY DEF LockInv, BreakInv, DeletesStale, Unlink
<1> QED BY <1>1, LockInvariant, PTL DEF BreaksOnlyStale, Spec

=============================================================================
