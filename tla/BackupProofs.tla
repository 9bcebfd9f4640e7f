-------------------------- MODULE BackupProofs --------------------------
(* Proofs about the backups.  The file backups, for any number of runners,   *)
(* backups and deaths: one backup at a time, and a whole full archive kept,  *)
(* until a lock that a living runner holds has been cleared.  The database   *)
(* backups, for any number of batches, backups, retentions and restarts: a   *)
(* row has its file until chosen for removal, and the rows stay bounded.     *)
EXTENDS FileBackups, DbBackups, SequenceTheorems, FiniteSetTheorems, TLAPS

RunnerSteps == {"idle", "waiting", "clearing", "blank", "locked", "archiving", "archived",
                "stamped", "kept"}
Run == [step : RunnerSteps, full : BOOLEAN, taken : SUBSET Uploads]
LockFile == [by : Runners \cup {"none"}, pid : BOOLEAN, alive : BOOLEAN]

LockTypes ==
  /\ run \in [Runners -> Run] /\ fileLock \in LockFile
  /\ newer \subseteq Uploads

\* Who is inside made the lock file that is there, and lives.
HoldersLock ==
  stolen \/ \A r \in Runners : Inside(r) => fileLock.by = r /\ fileLock.alive

LockInv == LockTypes /\ HoldersLock

(* One runner takes a step.                                                  *)

LEMMA RunTo ==
    ASSUME LockTypes, NEW r \in Runners, NEW b \in Run, run' = [run EXCEPT ![r] = b]
    PROVE  /\ run' \in [Runners -> Run] /\ run'[r] = b
           /\ \A o \in Runners \ {r} : run'[o] = run[o]
BY DEF LockTypes

LEMMA AtStep ==
    ASSUME LockTypes, NEW r \in Runners, NEW step \in RunnerSteps, At(r, step)
    PROVE  /\ run' \in [Runners -> Run] /\ run'[r].step = step
           /\ \A o \in Runners \ {r} : run'[o] = run[o]
<1> DEFINE b == [run[r] EXCEPT !.step = step]
<1>1. b \in Run /\ b.step = step  BY DEF LockTypes, Run
<1>2. run' = [run EXCEPT ![r] = b]  BY DEF At
<1> HIDE DEF b
<1>3. QED  BY <1>1, <1>2, RunTo

LEMMA RunnerLeaves ==
    ASSUME LockTypes, NEW r \in Runners, Leave(r)
    PROVE  /\ run' \in [Runners -> Run] /\ run'[r].step = "idle"
           /\ \A o \in Runners \ {r} : run'[o] = run[o]
<1>1. Resting \in Run /\ Resting.step = "idle"  BY DEF Resting, Run, RunnerSteps
<1>2. QED  BY <1>1, RunTo DEF Leave

LEMMA NoLockTyped == NoLock \in LockFile /\ NoLock.alive = FALSE
BY DEF NoLock, LockFile

\* A runner that was and stays inside, or was and stays outside.
LEMMA LockKept ==
    ASSUME LockInv, NEW r \in Runners, run' \in [Runners -> Run],
           \A o \in Runners \ {r} : run'[o] = run[o],
           Inside(r)' => Inside(r), UNCHANGED <<fileLock, stolen>>, newer' \subseteq Uploads
    PROVE  LockInv'
BY DEF LockInv, LockTypes, HoldersLock, Inside

\* A runner inside takes its lock away: no other is inside.
LEMMA LockReleased ==
    ASSUME LockInv, NEW r \in Runners, Inside(r), Leave(r), fileLock' = NoLock,
           stolen' = stolen, newer' \subseteq Uploads
    PROVE  LockInv'
<1>1. LockTypes /\ run' \in [Runners -> Run] /\ run'[r].step = "idle"
      /\ \A o \in Runners \ {r} : run'[o] = run[o]
  BY RunnerLeaves DEF LockInv
<1>2. stolen \/ \A o \in Runners \ {r} : ~Inside(o)  BY DEF LockInv, HoldersLock
<1>3. QED  BY <1>1, <1>2, NoLockTyped DEF LockInv, LockTypes, HoldersLock, Inside

(* The steps.                                                                *)

\* Only one runner makes the file, and nobody is inside without it.
LEMMA CreateStep == ASSUME LockInv, NEW r \in Runners, CreateLock(r) PROVE LockInv'
<1>1. /\ fileLock = NoLock /\ fileLock' = [by |-> r, pid |-> FALSE, alive |-> TRUE]
      /\ At(r, "blank") /\ stolen' = stolen /\ newer' = newer
  BY DEF CreateLock, uploadVars
<1>2. run' \in [Runners -> Run] /\ run'[r].step = "blank"
      /\ \A o \in Runners \ {r} : run'[o] = run[o]
  BY <1>1, AtStep DEF LockInv, RunnerSteps
<1>3. fileLock' \in LockFile /\ fileLock'.by = r /\ fileLock'.alive
  BY <1>1 DEF LockFile
<1>4. stolen \/ \A o \in Runners : ~Inside(o)
  BY <1>1, NoLockTyped DEF LockInv, HoldersLock
<1>5. QED  BY <1>1, <1>2, <1>3, <1>4 DEF LockInv, LockTypes, HoldersLock, Inside

LEMMA WritePidStep == ASSUME LockInv, NEW r \in Runners, WritePid(r) PROVE LockInv'
<1>1. /\ Inside(r) /\ At(r, "locked") /\ stolen' = stolen /\ newer' = newer
      /\ fileLock' = [fileLock EXCEPT !.pid = fileLock.pid \/ fileLock.by = r]
  BY DEF WritePid, uploadVars, Inside
<1>2. run' \in [Runners -> Run] /\ \A o \in Runners \ {r} : run'[o] = run[o]
  BY <1>1, AtStep DEF LockInv, RunnerSteps
<1>3. fileLock' \in LockFile /\ fileLock'.by = fileLock.by /\ fileLock'.alive = fileLock.alive
  BY <1>1 DEF LockInv, LockTypes, LockFile
<1>4. QED  BY <1>1, <1>2, <1>3 DEF LockInv, LockTypes, HoldersLock, Inside

\* The lock of a dead runner is cleared, or it is stolen.
LEMMA ClearStep == ASSUME LockInv, NEW r \in Runners, ClearLock(r) PROVE LockInv'
<1>1. /\ At(r, "waiting") /\ fileLock' = NoLock /\ newer' = newer
      /\ stolen' = (stolen \/ \E o \in Runners \ {r} : Inside(o))
  BY DEF ClearLock, uploadVars
<1>2. run' \in [Runners -> Run] /\ run'[r].step = "waiting"
      /\ \A o \in Runners \ {r} : run'[o] = run[o]
  BY <1>1, AtStep DEF LockInv, RunnerSteps
<1>3. QED  BY <1>1, <1>2, NoLockTyped DEF LockInv, LockTypes, HoldersLock, Inside

LEMMA OutsideStep ==
    ASSUME LockInv, NEW r \in Runners, AskFileBackup(r) \/ FindDead(r) \/ WaitedTooLong(r)
    PROVE  LockInv'
<1>1. UNCHANGED <<fileLock, stolen>> /\ newer' = newer
  BY DEF AskFileBackup, FindDead, WaitedTooLong, uploadVars
<1>2. /\ run' \in [Runners -> Run] /\ \A o \in Runners \ {r} : run'[o] = run[o]
      /\ run'[r].step \in {"waiting", "clearing", "idle"}
  <2>1. CASE AskFileBackup(r)
    <3>1. PICK full \in BOOLEAN :
            run' = [run EXCEPT ![r] = [Resting EXCEPT !.step = "waiting", !.full = full]]
      BY <2>1 DEF AskFileBackup
    <3> DEFINE b == [Resting EXCEPT !.step = "waiting", !.full = full]
    <3>2. b \in Run /\ b.step = "waiting"  BY DEF Resting, Run, RunnerSteps
    <3>3. run' = [run EXCEPT ![r] = b]  BY <3>1
    <3> HIDE DEF b
    <3>4. QED  BY <3>2, <3>3, RunTo DEF LockInv
  <2>2. CASE FindDead(r)  BY <2>2, AtStep DEF FindDead, LockInv, RunnerSteps
  <2>3. CASE WaitedTooLong(r)  BY <2>3, RunnerLeaves DEF WaitedTooLong, LockInv
  <2>4. QED  BY <2>1, <2>2, <2>3
<1>3. QED  BY <1>1, <1>2, LockKept DEF Inside, LockInv, LockTypes

LEMMA EndStep ==
    ASSUME LockInv, NEW r \in Runners,
           RefuseBackup(r) \/ NothingNew(r) \/ ArchiveFails(r) \/ SendArchive(r)
    PROVE  LockInv'
<1>1. Inside(r) /\ Leave(r) /\ fileLock' = NoLock /\ stolen' = stolen /\ newer' = newer
  BY DEF RefuseBackup, NothingNew, ArchiveFails, SendArchive, uploadVars, Inside
<1>2. QED  BY <1>1, LockReleased DEF LockInv, LockTypes

LEMMA BackupStep ==
    ASSUME LockInv, NEW r \in Runners,
           Archive(r) \/ ArchiveEnds(r) \/ WriteStamp(r) \/ CleanFulls(r)
    PROVE  LockInv'
<1>1. Inside(r) /\ UNCHANGED <<fileLock, stolen>>
  BY DEF Archive, ArchiveEnds, WriteStamp, CleanFulls, Inside
<1>2. newer' \subseteq Uploads
  BY DEF Archive, ArchiveEnds, WriteStamp, CleanFulls, uploadVars, LockInv, LockTypes
<1>3. run' \in [Runners -> Run] /\ \A o \in Runners \ {r} : run'[o] = run[o]
  <2>1. CASE Archive(r)
    <3> DEFINE full == run[r].full \/ ~stamped
               b == [step |-> "archiving", full |-> full,
                     taken |-> IF full THEN Uploads ELSE newer]
    <3>1. b \in Run  BY DEF LockInv, LockTypes, Run, RunnerSteps
    <3>2. run' = [run EXCEPT ![r] = b]  BY <2>1 DEF Archive
    <3> HIDE DEF b
    <3>3. QED  BY <3>1, <3>2, RunTo DEF LockInv
  <2>2. CASE ArchiveEnds(r)  BY <2>2, AtStep DEF ArchiveEnds, LockInv, RunnerSteps
  <2>3. CASE WriteStamp(r)  BY <2>3, AtStep DEF WriteStamp, LockInv, RunnerSteps
  <2>4. CASE CleanFulls(r)  BY <2>4, AtStep DEF CleanFulls, LockInv, RunnerSteps
  <2>5. QED  BY <2>1, <2>2, <2>3, <2>4
<1>4. QED  BY <1>1, <1>2, <1>3, LockKept

\* A death leaves the lock file to those who look for the pid.
LEMMA KilledStep == ASSUME LockInv, NEW r \in Runners, Killed(r) PROVE LockInv'
<1>1. /\ Leave(r) /\ stolen' = stolen /\ newer' = newer
      /\ fileLock' = [fileLock EXCEPT !.alive = fileLock.alive /\ fileLock.by # r]
  BY DEF Killed, uploadVars
<1>2. run' \in [Runners -> Run] /\ run'[r].step = "idle"
      /\ \A o \in Runners \ {r} : run'[o] = run[o]
  BY <1>1, RunnerLeaves DEF LockInv
<1>3. /\ fileLock' \in LockFile /\ fileLock'.by = fileLock.by
      /\ fileLock'.alive = (fileLock.alive /\ fileLock.by # r)
  BY <1>1 DEF LockInv, LockTypes, LockFile
<1>4. QED  BY <1>1, <1>2, <1>3 DEF LockInv, LockTypes, HoldersLock, Inside

LEMMA UploadStep == ASSUME LockInv, NEW f \in Uploads, WriteUpload(f) PROVE LockInv'
<1>1. /\ run' = [r \in Runners |-> [run[r] EXCEPT !.taken = run[r].taken \ {f}]]
      /\ UNCHANGED <<fileLock, stolen>> /\ newer' = newer \cup {f}
  BY DEF WriteUpload
<1>2. \A r \in Runners : /\ [run[r] EXCEPT !.taken = run[r].taken \ {f}] \in Run
                         /\ [run[r] EXCEPT !.taken = run[r].taken \ {f}].step = run[r].step
  BY DEF LockInv, LockTypes, Run
<1>3. run' \in [Runners -> Run] /\ \A r \in Runners : run'[r].step = run[r].step
  BY <1>1, <1>2
<1>4. QED  BY <1>1, <1>3 DEF LockInv, LockTypes, HoldersLock, Inside

LEMMA LockStep == ASSUME LockInv, [NextFb]_varsFb PROVE LockInv'
<1>1. CASE UNCHANGED varsFb
  BY <1>1 DEF varsFb, uploadVars, LockInv, LockTypes, HoldersLock, Inside
<1>2. QED
  BY <1>1, CreateStep, WritePidStep, ClearStep, OutsideStep, EndStep, BackupStep,
     KilledStep, UploadStep
  DEF NextFb, RunBackup

LEMMA LockInit == ASSUME InitFb PROVE LockInv /\ \A r \in Runners : run[r].step = "idle"
<1>1. Resting \in Run /\ Resting.step = "idle"  BY DEF Resting, Run, RunnerSteps
<1>2. run = [r \in Runners |-> Resting] /\ fileLock = NoLock /\ newer = Uploads
  BY DEF InitFb
<1>3. LockTypes  BY <1>1, <1>2, NoLockTyped DEF LockTypes
<1>4. \A r \in Runners : ~Inside(r) /\ run[r].step = "idle"  BY <1>1, <1>2 DEF Inside
<1>5. QED  BY <1>3, <1>4 DEF LockInv, HoldersLock

\* acquireFileBackupLock: the lock file keeps the backups of the panel and of cron
\* one at a time, over waits, refusals, failed archives and dead holders, until
\* two waiters that found the same dead holder clear it one after the other.
THEOREM OneBackup == SpecFb => []OneFileBackup
<1>1. InitFb => LockInv  BY LockInit
<1>2. LockInv /\ [NextFb]_varsFb => LockInv'  BY LockStep
<1>3. LockInv => OneFileBackup  BY DEF LockInv, HoldersLock, OneFileBackup
<1>4. QED  BY <1>1, <1>2, <1>3, PTL DEF SpecFb

------------------------------------------------------------------------------
(* The full archives.  While the lock holds, the archive of the full backup   *)
(* under way is the last entry of the directory: unfinished while tar writes  *)
(* it, whole from then on.  So its pruning keeps it and its copy takes it.    *)

Archives == [by : Runners, good : BOOLEAN]
Good(by) == [by |-> by, good |-> TRUE]
Unfinished(by) == [by |-> by, good |-> FALSE]
EndsWith(s, e) == s # <<>> /\ s[Len(s)] = e

LastIs(r) ==
  run[r].full =>
    /\ run[r].step = "archiving" => EndsWith(fulls, Unfinished(r))
    /\ run[r].step \in {"archived", "stamped", "kept"} => EndsWith(fulls, Good(r))
SomeWhole(s) == \E i \in DOMAIN s : s[i].good
FullsKept ==
  stolen \/ /\ fulls \in Seq(Archives)
            /\ \A r \in Runners : LastIs(r)
            /\ fullDone => remoteFulls \/ SomeWhole(fulls)
FullInv == LockInv /\ FullsKept

(* Operators on the list of archives. *)

LEMMA AppendEnds ==
  ASSUME NEW S, NEW s \in Seq(S), NEW e \in S
  PROVE  /\ Append(s, e) \in Seq(S) /\ EndsWith(Append(s, e), e)
         /\ \A i \in DOMAIN s : i \in DOMAIN Append(s, e) /\ Append(s, e)[i] = s[i]
BY DEF EndsWith

LEMMA RemoveTyped ==
  ASSUME NEW S, NEW s \in Seq(S), NEW i \in 1..Len(s)
  PROVE  RemoveAt(s, i) \in Seq(S)
<1>1. SubSeq(s, 1, i - 1) \in Seq(S)  BY SubSeqProperties
<1>2. SubSeq(s, i + 1, Len(s)) \in Seq(S)  BY SubSeqProperties
<1>3. QED  BY <1>1, <1>2, ConcatProperties DEF RemoveAt

\* The pruning keeps at least one entry, and so the last.
LEMMA NewestEnds ==
  ASSUME NEW S, NEW s \in Seq(S), NEW n \in Nat \ {0}, NEW e, EndsWith(s, e)
  PROVE  Newest(s, n) \in Seq(S) /\ EndsWith(Newest(s, n), e)
<1>1. Len(s) \in Nat /\ Len(s) # 0 /\ s[Len(s)] = e  BY DEF EndsWith
<1>2. CASE Len(s) <= n  BY <1>2 DEF Newest
<1>3. CASE ~(Len(s) <= n)
  <2> DEFINE m == Len(s) - n + 1
             t == SubSeq(s, m, Len(s))
  <2>1. m \in 1..Len(s) /\ Len(s) - m + 1 = n  BY <1>1, <1>3
  <2>2. \A i \in m..Len(s) : s[i] \in S  BY <2>1
  <2>3. /\ t \in Seq(S) /\ Len(t) = n
        /\ \A i \in 1..n : t[i] = s[m + i - 1]
    <3> HIDE DEF m
    <3>1. Len(s) - m + 1 = n /\ m <= Len(s) /\ m \in Int  BY <2>1
    <3>2. QED  BY <1>1, <2>2, <3>1, SubSeqProperties
  <2>4. m + n - 1 = Len(s)  BY <1>1
  <2>5. Newest(s, n) = t  BY <1>3 DEF Newest
  <2> HIDE DEF t, m
  <2>6. t # <<>> /\ t[n] = e  BY <1>1, <2>3, <2>4
  <2>7. QED  BY <2>3, <2>5, <2>6 DEF EndsWith
<1>4. QED  BY <1>2, <1>3

LEMMA WholeTyped ==
  ASSUME NEW r \in Runners
  PROVE  /\ Good(r) \in Archives /\ Unfinished(r) \in Archives
         /\ Good(r).good /\ Good(r).by = r /\ ~Unfinished(r).good /\ Unfinished(r).by = r
BY DEF Good, Unfinished, Archives

LEMMA EndsWhole ==
  ASSUME NEW s \in Seq(Archives), NEW r \in Runners, EndsWith(s, Good(r)) PROVE SomeWhole(s)
<1>1. Len(s) \in DOMAIN s  BY DEF EndsWith
<1>2. QED  BY <1>1, WholeTyped DEF EndsWith, SomeWhole

(* The steps. *)

LEMMA FullFacts ==
  ASSUME FullInv, ~stolen
  PROVE  /\ fulls \in Seq(Archives) /\ \A r \in Runners : LastIs(r)
         /\ fullDone => remoteFulls \/ SomeWhole(fulls)
         /\ \A r, o \in Runners : Inside(r) /\ Inside(o) => r = o
BY DEF FullInv, FullsKept, LockInv, HoldersLock

Writes(r) == run[r].step \in {"archiving", "archived", "stamped", "kept"}

\* A step of a runner inside, which becomes what it says of the archives.
LEMMA InsideKeeps ==
  ASSUME FullInv, LockInv', NEW r \in Runners, Inside(r), stolen' = stolen,
         \A o \in Runners \ {r} : run'[o] = run[o],
         ~stolen => /\ fulls' \in Seq(Archives) /\ LastIs(r)'
                    /\ fullDone' => remoteFulls' \/ SomeWhole(fulls')
  PROVE  FullInv'
<1>1. SUFFICES ASSUME ~stolen
               PROVE \A o \in Runners : LastIs(o)'
  BY DEF FullInv, FullsKept
<1>2. \A o \in Runners \ {r} : ~Inside(o)  BY <1>1, FullFacts
<1>3. \A o \in Runners \ {r} : LastIs(o)'  BY <1>2 DEF LastIs, Inside
<1>4. QED  BY <1>1, <1>3

\* A step that leaves the archives, and nobody nearer to one.
LEMMA ArchivesStay ==
  ASSUME FullInv, LockInv', UNCHANGED archiveVars, stolen => stolen',
         \A r \in Runners : Writes(r)' => run'[r].step = run[r].step /\ run'[r].full = run[r].full
  PROVE  FullInv'
<1>1. SUFFICES ASSUME ~stolen', ~stolen
               PROVE \A r \in Runners : LastIs(r)'
  BY DEF FullInv, FullsKept, archiveVars
<1>2. \A r \in Runners : LastIs(r)  BY <1>1, FullFacts
<1>3. fulls' = fulls  BY DEF archiveVars
<1>4. QED  BY <1>2, <1>3 DEF LastIs, Writes

LEMMA BesideStep ==
  ASSUME FullInv, LockInv', NEW r \in Runners,
         \/ AskFileBackup(r) \/ CreateLock(r) \/ WritePid(r) \/ FindDead(r) \/ ClearLock(r)
         \/ WaitedTooLong(r) \/ RefuseBackup(r) \/ NothingNew(r) \/ ArchiveFails(r)
         \/ Killed(r)
  PROVE  FullInv'
<1>1. LockTypes  BY DEF FullInv, LockInv
<1>2. UNCHANGED archiveVars /\ (stolen => stolen')
  <2>1. CASE ClearLock(r)  BY <2>1 DEF ClearLock
  <2>2. ASSUME ~ClearLock(r) PROVE UNCHANGED archiveVars /\ stolen' = stolen
    BY <2>2 DEF AskFileBackup, CreateLock, WritePid, FindDead, WaitedTooLong, RefuseBackup,
                NothingNew, ArchiveFails, Killed
  <2>3. QED  BY <2>1, <2>2
<1>3. /\ \A o \in Runners \ {r} : run'[o] = run[o]
      /\ run'[r].step \in {"waiting", "blank", "locked", "clearing", "idle"}
  <2>1. CASE AskFileBackup(r)
    <3>1. PICK full \in BOOLEAN :
            run' = [run EXCEPT ![r] = [Resting EXCEPT !.step = "waiting", !.full = full]]
      BY <2>1 DEF AskFileBackup
    <3> DEFINE b == [Resting EXCEPT !.step = "waiting", !.full = full]
    <3>2. b \in Run /\ b.step = "waiting"  BY DEF Resting, Run, RunnerSteps
    <3>3. run' = [run EXCEPT ![r] = b]  BY <3>1
    <3> HIDE DEF b
    <3>4. QED  BY <1>1, <3>2, <3>3, RunTo
  <2>2. CASE CreateLock(r)  BY <1>1, <2>2, AtStep DEF CreateLock, RunnerSteps
  <2>3. CASE WritePid(r)  BY <1>1, <2>3, AtStep DEF WritePid, RunnerSteps
  <2>4. CASE FindDead(r)  BY <1>1, <2>4, AtStep DEF FindDead, RunnerSteps
  <2>5. CASE ClearLock(r)  BY <1>1, <2>5, AtStep DEF ClearLock, RunnerSteps
  <2>6. CASE \/ WaitedTooLong(r) \/ RefuseBackup(r) \/ NothingNew(r) \/ ArchiveFails(r)
             \/ Killed(r)
    <3>1. Leave(r)
      BY <2>6 DEF WaitedTooLong, RefuseBackup, NothingNew, ArchiveFails, Killed
    <3>2. QED  BY <1>1, <3>1, RunnerLeaves
  <2>7. QED  BY <2>1, <2>2, <2>3, <2>4, <2>5, <2>6
<1>4. QED  BY <1>2, <1>3, ArchivesStay DEF Writes

\* tar opens the archive: it is the last entry from here on.
LEMMA ArchiveStep == ASSUME FullInv, LockInv', NEW r \in Runners, Archive(r) PROVE FullInv'
<1> DEFINE full == run[r].full \/ ~stamped
           b == [step |-> "archiving", full |-> full,
                 taken |-> IF full THEN Uploads ELSE newer]
<1>1. LockTypes  BY DEF FullInv, LockInv
<1>2. b \in Run /\ b.step = "archiving" /\ b.full = full
  BY <1>1 DEF LockTypes, Run, RunnerSteps
<1>3. run' = [run EXCEPT ![r] = b]  BY DEF Archive
<1>4. /\ Inside(r) /\ UNCHANGED <<remoteFulls, fullDone, stolen>>
      /\ fulls' = IF full THEN Append(fulls, Unfinished(r)) ELSE fulls
  BY DEF Archive, Inside, Unfinished
<1> HIDE DEF b, full
<1>5. run'[r] = b /\ \A o \in Runners \ {r} : run'[o] = run[o]  BY <1>1, <1>2, <1>3, RunTo
<1>6. ASSUME ~stolen
      PROVE  /\ fulls' \in Seq(Archives) /\ LastIs(r)'
             /\ fullDone' => remoteFulls' \/ SomeWhole(fulls')
  <2>1. fulls \in Seq(Archives) /\ (fullDone => remoteFulls \/ SomeWhole(fulls))
    BY <1>6, FullFacts
  <2>2. CASE full
    <3>1. /\ fulls' \in Seq(Archives) /\ EndsWith(fulls', Unfinished(r))
          /\ SomeWhole(fulls) => SomeWhole(fulls')
      BY <1>4, <2>1, <2>2, AppendEnds, WholeTyped DEF SomeWhole
    <3>2. QED  BY <1>2, <1>4, <1>5, <2>1, <3>1 DEF LastIs
  <2>3. CASE ~full  BY <1>2, <1>4, <1>5, <2>1, <2>3 DEF LastIs
  <2>4. QED  BY <2>2, <2>3
<1>7. QED  BY <1>4, <1>5, <1>6, InsideKeeps

\* A step of a runner that keeps its archive as it is.
LEMMA AtKeeps ==
  ASSUME LockTypes, NEW r \in Runners, NEW step \in RunnerSteps, At(r, step)
  PROVE  /\ run'[r].step = step /\ run'[r].full = run[r].full
         /\ \A o \in Runners \ {r} : run'[o] = run[o]
<1> DEFINE b == [run[r] EXCEPT !.step = step]
<1>1. b \in Run /\ b.step = step /\ b.full = run[r].full  BY DEF LockTypes, Run
<1>2. run' = [run EXCEPT ![r] = b]  BY DEF At
<1> HIDE DEF b
<1>3. QED  BY <1>1, <1>2, RunTo

\* tar ends: the entry it was writing is the last, and is whole now.
LEMMA ArchiveEndsStep == ASSUME FullInv, LockInv', NEW r \in Runners, ArchiveEnds(r) PROVE FullInv'
<1> DEFINE i == CHOOSE i \in Mine(r) : \A j \in Mine(r) : j <= i
<1>1. /\ Inside(r) /\ At(r, "archived") /\ run[r].step = "archiving"
      /\ UNCHANGED <<remoteFulls, fullDone, stolen>>
      /\ fulls' = IF run[r].full /\ Mine(r) # {} THEN Append(RemoveAt(fulls, i), Good(r))
                  ELSE fulls
  BY DEF ArchiveEnds, Inside, Good
<1>2. /\ run'[r].step = "archived" /\ run'[r].full = run[r].full
      /\ \A o \in Runners \ {r} : run'[o] = run[o]
  BY <1>1, AtKeeps DEF FullInv, LockInv, RunnerSteps
<1>3. ASSUME ~stolen
      PROVE  /\ fulls' \in Seq(Archives) /\ LastIs(r)'
             /\ fullDone' => remoteFulls' \/ SomeWhole(fulls')
  <2>1. /\ fulls \in Seq(Archives) /\ LastIs(r)
        /\ fullDone => remoteFulls \/ SomeWhole(fulls)
    BY <1>3, FullFacts
  <2>2. CASE run[r].full
    <3>1. EndsWith(fulls, Unfinished(r))  BY <1>1, <2>1, <2>2 DEF LastIs
    <3>2. Len(fulls) \in Mine(r) /\ \A j \in Mine(r) : j <= Len(fulls)
      BY <2>1, <3>1, WholeTyped DEF Mine, EndsWith
    <3>3. i \in Mine(r)  BY <3>2
    <3>4. i \in 1..Len(fulls)  BY <2>1, <3>3 DEF Mine
    <3>5. fulls' = Append(RemoveAt(fulls, i), Good(r))  BY <1>1, <2>2, <3>2
    <3> HIDE DEF i
    <3>6. RemoveAt(fulls, i) \in Seq(Archives)  BY <2>1, <3>4, RemoveTyped
    <3>7. fulls' \in Seq(Archives) /\ EndsWith(fulls', Good(r))
      BY <3>5, <3>6, AppendEnds, WholeTyped
    <3>8. QED  BY <1>2, <3>7, EndsWhole DEF LastIs
  <2>3. CASE ~run[r].full
    <3>1. fulls' = fulls  BY <1>1, <2>3
    <3>2. QED  BY <1>1, <1>2, <2>1, <2>3, <3>1 DEF LastIs
  <2>4. QED  BY <2>2, <2>3
<1>4. QED  BY <1>1, <1>2, <1>3, InsideKeeps

\* The stamp, then the pruning: the archive of this backup stays the last.
LEMMA StampStep == ASSUME FullInv, LockInv', NEW r \in Runners, WriteStamp(r) PROVE FullInv'
<1>1. /\ Inside(r) /\ At(r, "stamped") /\ run[r].step = "archived"
      /\ UNCHANGED <<fulls, remoteFulls, stolen>> /\ fullDone' = (fullDone \/ run[r].full)
  BY DEF WriteStamp, Inside
<1>2. /\ run'[r].step = "stamped" /\ run'[r].full = run[r].full
      /\ \A o \in Runners \ {r} : run'[o] = run[o]
  BY <1>1, AtKeeps DEF FullInv, LockInv, RunnerSteps
<1>3. ASSUME ~stolen
      PROVE  /\ fulls' \in Seq(Archives) /\ LastIs(r)'
             /\ fullDone' => remoteFulls' \/ SomeWhole(fulls')
  <2>1. /\ fulls \in Seq(Archives) /\ LastIs(r)
        /\ fullDone => remoteFulls \/ SomeWhole(fulls)
    BY <1>3, FullFacts
  <2>2. run[r].full => EndsWith(fulls, Good(r)) /\ SomeWhole(fulls)
    BY <1>1, <2>1, EndsWhole DEF LastIs
  <2>3. LastIs(r)'  BY <1>1, <1>2, <2>2 DEF LastIs
  <2>4. QED  BY <1>1, <2>1, <2>2, <2>3
<1>4. QED  BY <1>1, <1>2, <1>3, InsideKeeps

LEMMA CleanStep == ASSUME FullInv, LockInv', NEW r \in Runners, CleanFulls(r) PROVE FullInv'
<1>1. /\ Inside(r) /\ At(r, "kept") /\ run[r].step = "stamped"
      /\ UNCHANGED <<remoteFulls, fullDone, stolen>>
      /\ fulls' = IF run[r].full THEN Newest(fulls, KeepFulls) ELSE fulls
  BY DEF CleanFulls, Inside
<1>2. /\ run'[r].step = "kept" /\ run'[r].full = run[r].full
      /\ \A o \in Runners \ {r} : run'[o] = run[o]
  BY <1>1, AtKeeps DEF FullInv, LockInv, RunnerSteps
<1>3. ASSUME ~stolen
      PROVE  /\ fulls' \in Seq(Archives) /\ LastIs(r)'
             /\ fullDone' => remoteFulls' \/ SomeWhole(fulls')
  <2>1. /\ fulls \in Seq(Archives) /\ LastIs(r)
        /\ fullDone => remoteFulls \/ SomeWhole(fulls)
    BY <1>3, FullFacts
  <2>2. CASE run[r].full
    <3>1. EndsWith(fulls, Good(r))  BY <1>1, <2>1, <2>2 DEF LastIs
    <3>2. fulls' \in Seq(Archives) /\ EndsWith(fulls', Good(r))
      BY <1>1, <2>1, <2>2, <3>1, NewestEnds, FilesAssumption
    <3>3. QED  BY <1>2, <3>2, EndsWhole DEF LastIs
  <2>3. CASE ~run[r].full  BY <1>1, <1>2, <2>1, <2>3 DEF LastIs
  <2>4. QED  BY <2>2, <2>3
<1>4. QED  BY <1>1, <1>2, <1>3, InsideKeeps

\* The local archive goes only after the server has it.
LEMMA SendStep == ASSUME FullInv, LockInv', NEW r \in Runners, SendArchive(r) PROVE FullInv'
<1> DEFINE i == CHOOSE i \in Own(r) : \A j \in Own(r) : j <= i
<1>1. /\ Inside(r) /\ Leave(r) /\ run[r].step = "kept" /\ UNCHANGED <<fullDone, stolen>>
      /\ \/ UNCHANGED <<fulls, remoteFulls>>
         \/ /\ run[r].full /\ remoteFulls' = TRUE
            /\ fulls' = IF sending = "move" THEN RemoveAt(fulls, i) ELSE fulls
  BY DEF SendArchive, Inside
<1>2. run'[r].step = "idle" /\ \A o \in Runners \ {r} : run'[o] = run[o]
  BY <1>1, RunnerLeaves DEF FullInv, LockInv
<1>3. ASSUME ~stolen
      PROVE  /\ fulls' \in Seq(Archives) /\ LastIs(r)'
             /\ fullDone' => remoteFulls' \/ SomeWhole(fulls')
  <2>1. /\ fulls \in Seq(Archives) /\ LastIs(r)
        /\ fullDone => remoteFulls \/ SomeWhole(fulls)
    BY <1>3, FullFacts
  <2>2. LastIs(r)'  BY <1>2 DEF LastIs
  <2>3. CASE UNCHANGED <<fulls, remoteFulls>>  BY <1>1, <2>1, <2>2, <2>3
  <2>4. CASE /\ run[r].full /\ remoteFulls' = TRUE
             /\ fulls' = IF sending = "move" THEN RemoveAt(fulls, i) ELSE fulls
    <3>1. EndsWith(fulls, Good(r))  BY <1>1, <2>1, <2>4 DEF LastIs
    <3>2. Len(fulls) \in Own(r) /\ \A j \in Own(r) : j <= Len(fulls)
      BY <2>1, <3>1, WholeTyped DEF Own, EndsWith
    <3>3. i \in Own(r)  BY <3>2
    <3>4. i \in 1..Len(fulls)  BY <2>1, <3>3 DEF Own
    <3>5. fulls' = RemoveAt(fulls, i) \/ fulls' = fulls  BY <2>4
    <3> HIDE DEF i
    <3>6. fulls' \in Seq(Archives)  BY <2>1, <3>4, <3>5, RemoveTyped
    <3>7. QED  BY <2>2, <2>4, <3>6
  <2>5. QED  BY <1>1, <2>3, <2>4
<1>4. QED  BY <1>1, <1>2, <1>3, InsideKeeps

LEMMA FullUploadStep == ASSUME FullInv, LockInv', NEW f \in Uploads, WriteUpload(f) PROVE FullInv'
<1>1. /\ run' = [r \in Runners |-> [run[r] EXCEPT !.taken = run[r].taken \ {f}]]
      /\ UNCHANGED archiveVars /\ stolen' = stolen
  BY DEF WriteUpload
<1>2. \A r \in Runners : /\ [run[r] EXCEPT !.taken = run[r].taken \ {f}].step = run[r].step
                         /\ [run[r] EXCEPT !.taken = run[r].taken \ {f}].full = run[r].full
  BY DEF FullInv, LockInv, LockTypes, Run
<1>3. \A r \in Runners : run'[r].step = run[r].step /\ run'[r].full = run[r].full
  BY <1>1, <1>2
<1>4. QED  BY <1>1, <1>3, ArchivesStay

LEMMA FullStep == ASSUME FullInv, [NextFb]_varsFb PROVE FullInv'
<1>1. LockInv'  BY LockStep DEF FullInv
<1>2. CASE UNCHANGED varsFb
  <2>1. UNCHANGED archiveVars /\ stolen' = stolen /\ run' = run
    BY <1>2 DEF varsFb, archiveVars
  <2>2. QED  BY <1>1, <2>1, ArchivesStay
<1>3. ASSUME NEW r \in Runners, RunBackup(r) PROVE FullInv'
  BY <1>1, <1>3, BesideStep, ArchiveStep, ArchiveEndsStep, StampStep, CleanStep, SendStep
  DEF RunBackup
<1>4. ASSUME NEW f \in Uploads, WriteUpload(f) PROVE FullInv'  BY <1>1, <1>4, FullUploadStep
<1>5. QED  BY <1>2, <1>3, <1>4 DEF NextFb

\* executeFileBackup, cleanOldBackups: for any number of runners, archives kept,
\* backups and deaths, a site that once had a whole full archive keeps one, here
\* or on the remote server, until a lock that a living runner holds is cleared.
THEOREM FullArchiveKept == SpecFb => []FullSurvives
<1>1. InitFb => FullInv
  <2> SUFFICES ASSUME InitFb PROVE FullInv  OBVIOUS
  <2>1. LockInv /\ \A r \in Runners : run[r].step = "idle"  BY LockInit
  <2>2. fulls = <<>> /\ fullDone = FALSE  BY DEF InitFb
  <2>3. QED  BY <2>1, <2>2 DEF FullInv, FullsKept, LastIs
<1>2. FullInv /\ [NextFb]_varsFb => FullInv'  BY FullStep
<1>3. FullInv => FullSurvives  BY DEF FullInv, FullsKept, FullSurvives, SomeWhole
<1>4. QED  BY <1>1, <1>2, <1>3, PTL DEF SpecFb

(* The types of every variable.  An archive is taken out of the list at the   *)
(* last of some places: there is one, as the distances of the places to the   *)
(* end of the list have a least element.                                      *)

Below == {d \in Nat \X Nat : d[1] < d[2]}

LEMMA BelowFounded == IsWellFoundedOn(Below, Nat)
BY NatLessThanWellFounded DEF OpToRel, Below

LEMMA HasLast ==
  ASSUME NEW n \in Nat, NEW P \in SUBSET (1..n), P # {}
  PROVE  \E m \in P : \A j \in P : j <= m
<1> DEFINE T == {d \in Nat : n - d \in P}
<1>1. T \subseteq Nat /\ T # {}
  <2>1. PICK i \in P : TRUE  OBVIOUS
  <2>2. n - i \in Nat /\ n - (n - i) = i  BY <2>1
  <2>3. QED  BY <2>1, <2>2
<1>2. PICK d \in T : \A e \in T : ~(<<e, d>> \in Below)
  <2> HIDE DEF T
  <2>1. QED  BY <1>1, BelowFounded, WFMin
<1>3. \A e \in T : ~(e < d)  BY <1>1, <1>2 DEF Below
<1>4. n - d \in P /\ \A j \in P : j <= n - d
  <2>1. d \in Nat /\ n - d \in P  BY <1>2
  <2>2. ASSUME NEW j \in P, ~(j <= n - d) PROVE FALSE
    <3>1. n - j \in Nat /\ n - (n - j) = j /\ n - j < d  BY <2>1, <2>2
    <3>2. n - j \in T  BY <3>1
    <3>3. QED  BY <1>3, <3>1, <3>2
  <2>3. QED  BY <2>1, <2>2
<1>5. QED  BY <1>4

LEMMA LastPlace ==
  ASSUME NEW S, NEW s \in Seq(S), NEW P \in SUBSET (DOMAIN s), P # {}
  PROVE  (CHOOSE i \in P : \A j \in P : j <= i) \in 1..Len(s)
<1>1. Len(s) \in Nat /\ DOMAIN s = 1..Len(s)  OBVIOUS
<1>2. \E m \in P : \A j \in P : j <= m  BY <1>1, HasLast
<1>3. QED  BY <1>1, <1>2

LEMMA NewestTyped ==
  ASSUME NEW S, NEW s \in Seq(S), NEW n \in Nat \ {0} PROVE Newest(s, n) \in Seq(S)
<1>1. CASE Len(s) <= n  BY <1>1 DEF Newest
<1>2. CASE ~(Len(s) <= n)
  <2>1. Len(s) \in Nat /\ Len(s) - n + 1 \in 1..Len(s)  BY <1>2
  <2>2. SubSeq(s, Len(s) - n + 1, Len(s)) \in Seq(S)  BY <2>1, SubSeqProperties
  <2>3. QED  BY <1>2, <2>2 DEF Newest
<1>3. QED  BY <1>1, <1>2

FbCount == [runs : 0..MaxRuns, writes : 0..MaxWrites, kills : 0..MaxKills]
FbTypes ==
  /\ fulls \in Seq(Archives) /\ unsaved \subseteq Uploads /\ fbCount \in FbCount
  /\ {remoteFulls, stamped, fullDone, stolen} \subseteq BOOLEAN
  /\ sending \in {"off", "keep", "move"}

LEMMA FullsTyped ==
  ASSUME LockInv, FbTypes, [NextFb]_varsFb PROVE fulls' \in Seq(Archives)
<1>1. fulls \in Seq(Archives)  BY DEF FbTypes
<1>2. ASSUME NEW r \in Runners, Archive(r) PROVE fulls' \in Seq(Archives)
  <2>1. fulls' \in {fulls, Append(fulls, Unfinished(r))}  BY <1>2 DEF Archive, Unfinished
  <2>2. QED  BY <1>1, <2>1, AppendEnds, WholeTyped
<1>3. ASSUME NEW r \in Runners, ArchiveEnds(r) PROVE fulls' \in Seq(Archives)
  <2> DEFINE i == CHOOSE i \in Mine(r) : \A j \in Mine(r) : j <= i
  <2>1. \/ fulls' = fulls
        \/ Mine(r) # {} /\ fulls' = Append(RemoveAt(fulls, i), Good(r))
    BY <1>3 DEF ArchiveEnds, Good
  <2>2. Mine(r) # {} => i \in 1..Len(fulls)
    <3>1. Mine(r) \in SUBSET (DOMAIN fulls)  BY DEF Mine
    <3>2. QED  BY <1>1, <3>1, LastPlace
  <2> HIDE DEF i
  <2>3. QED  BY <1>1, <2>1, <2>2, RemoveTyped, AppendEnds, WholeTyped
<1>4. ASSUME NEW r \in Runners, CleanFulls(r) PROVE fulls' \in Seq(Archives)
  <2>1. fulls' \in {fulls, Newest(fulls, KeepFulls)}  BY <1>4 DEF CleanFulls
  <2>2. QED  BY <1>1, <2>1, NewestTyped, FilesAssumption
<1>5. ASSUME NEW r \in Runners, SendArchive(r) PROVE fulls' \in Seq(Archives)
  <2> DEFINE i == CHOOSE i \in Own(r) : \A j \in Own(r) : j <= i
  <2>1. fulls' = fulls \/ (Own(r) # {} /\ fulls' = RemoveAt(fulls, i))
    BY <1>5 DEF SendArchive
  <2>2. Own(r) # {} => i \in 1..Len(fulls)
    <3>1. Own(r) \in SUBSET (DOMAIN fulls)  BY DEF Own
    <3>2. QED  BY <1>1, <3>1, LastPlace
  <2> HIDE DEF i
  <2>3. QED  BY <1>1, <2>1, <2>2, RemoveTyped
<1>6. ASSUME ~ \E r \in Runners : Archive(r) \/ ArchiveEnds(r) \/ CleanFulls(r) \/ SendArchive(r)
      PROVE  fulls' = fulls
  BY <1>6 DEF NextFb, varsFb, archiveVars, RunBackup, AskFileBackup, CreateLock, WritePid,
              FindDead, ClearLock, WaitedTooLong, RefuseBackup, NothingNew, ArchiveFails,
              WriteStamp, Killed, WriteUpload
<1>7. QED  BY <1>1, <1>2, <1>3, <1>4, <1>5, <1>6

LEMMA FbCounted ==
  ASSUME fbCount \in FbCount, [NextFb]_varsFb PROVE fbCount' \in FbCount
<1> DEFINE a == [fbCount EXCEPT !.runs = @ + 1]
           b == [fbCount EXCEPT !.writes = @ + 1]
           c == [fbCount EXCEPT !.kills = @ + 1]
<1>1. \/ fbCount' = fbCount
      \/ fbCount.runs < MaxRuns /\ fbCount' = a
      \/ fbCount.writes < MaxWrites /\ fbCount' = b
      \/ fbCount.kills < MaxKills /\ fbCount' = c
  BY DEF NextFb, varsFb, RunBackup, AskFileBackup, CreateLock, WritePid, FindDead, ClearLock,
         WaitedTooLong, RefuseBackup, Archive, NothingNew, ArchiveFails, ArchiveEnds, WriteStamp,
         CleanFulls, SendArchive, Killed, WriteUpload
<1>2. fbCount.runs \in 0..MaxRuns /\ fbCount.writes \in 0..MaxWrites
      /\ fbCount.kills \in 0..MaxKills
  BY DEF FbCount
<1>3. fbCount.runs < MaxRuns => a \in FbCount  BY <1>2, FilesAssumption DEF FbCount
<1>4. fbCount.writes < MaxWrites => b \in FbCount  BY <1>2, FilesAssumption DEF FbCount
<1>5. fbCount.kills < MaxKills => c \in FbCount  BY <1>2, FilesAssumption DEF FbCount
<1> HIDE DEF a, b, c
<1>6. QED  BY <1>1, <1>3, <1>4, <1>5

LEMMA FbTypesStep == ASSUME LockInv, FbTypes, [NextFb]_varsFb PROVE FbTypes'
<1>1. fbCount' \in FbCount  BY FbCounted DEF FbTypes
<1>2. unsaved' \subseteq Uploads
  BY DEF FbTypes, NextFb, varsFb, uploadVars, RunBackup, AskFileBackup, CreateLock, WritePid,
         FindDead, ClearLock, WaitedTooLong, RefuseBackup, Archive, NothingNew, ArchiveFails,
         ArchiveEnds, WriteStamp, CleanFulls, SendArchive, Killed, WriteUpload
<1>3. remoteFulls' \in BOOLEAN /\ sending' = sending
  BY DEF FbTypes, NextFb, varsFb, archiveVars, RunBackup, AskFileBackup, CreateLock, WritePid,
         FindDead, ClearLock, WaitedTooLong, RefuseBackup, Archive, NothingNew, ArchiveFails,
         ArchiveEnds, WriteStamp, CleanFulls, SendArchive, Killed, WriteUpload
<1>4. stamped' \in BOOLEAN
  BY DEF FbTypes, NextFb, varsFb, uploadVars, RunBackup, AskFileBackup, CreateLock, WritePid,
         FindDead, ClearLock, WaitedTooLong, RefuseBackup, Archive, NothingNew, ArchiveFails,
         ArchiveEnds, WriteStamp, CleanFulls, SendArchive, Killed, WriteUpload
<1>5. fullDone' \in BOOLEAN
  <2>1. \A r \in Runners : run[r].full \in BOOLEAN  BY DEF LockInv, LockTypes, Run
  <2>2. QED
    BY <2>1
    DEF FbTypes, NextFb, varsFb, archiveVars, RunBackup, AskFileBackup, CreateLock, WritePid,
        FindDead, ClearLock, WaitedTooLong, RefuseBackup, Archive, NothingNew, ArchiveFails,
        ArchiveEnds, WriteStamp, CleanFulls, SendArchive, Killed, WriteUpload
<1>6. stolen' \in BOOLEAN
  BY DEF FbTypes, NextFb, varsFb, RunBackup, AskFileBackup, CreateLock, WritePid,
         FindDead, ClearLock, WaitedTooLong, RefuseBackup, Archive, NothingNew, ArchiveFails,
         ArchiveEnds, WriteStamp, CleanFulls, SendArchive, Killed, WriteUpload
<1>7. QED  BY <1>1, <1>2, <1>3, <1>4, <1>5, <1>6, FullsTyped DEF FbTypes

\* Each variable has its type.
THEOREM FbTyping == SpecFb => []FbTypeOK
<1>1. InitFb => LockInv /\ FbTypes
  <2> SUFFICES ASSUME InitFb PROVE FbTypes  BY LockInit
  <2>1. fbCount \in FbCount  BY FilesAssumption DEF InitFb, FbCount
  <2>2. fulls \in Seq(Archives) /\ unsaved \subseteq Uploads  BY DEF InitFb
  <2>3. {remoteFulls, stamped, fullDone, stolen} \subseteq BOOLEAN
    <3>1. remoteFulls = FALSE /\ stamped = FALSE /\ fullDone = FALSE /\ stolen = FALSE
      BY DEF InitFb
    <3>2. QED  BY <3>1
  <2>4. sending \in {"off", "keep", "move"}  BY DEF InitFb
  <2>5. QED  BY <2>1, <2>2, <2>3, <2>4 DEF FbTypes
<1>2. LockInv /\ FbTypes /\ [NextFb]_varsFb => LockInv' /\ FbTypes'
  BY LockStep, FbTypesStep
<1>3. LockInv /\ FbTypes => FbTypeOK
  BY DEF LockInv, LockTypes, FbTypes, FbTypeOK, Run, RunnerSteps, LockFile, Archives, FbCount
<1>4. QED  BY <1>1, <1>2, <1>3, PTL DEF SpecFb

----------------------------------------------------------------------------
(* The database backups (DbBackups): the types of every variable, then that  *)
(* a row has its file, then that the retention is kept.                      *)

Backup == [step : DbSteps, dir : Domains, name : Names \cup {NoName}, keep : Int,
           doomed : SUBSET Rows]
TakerAt(t, step) == taking[t].step = step

\* One backup moves on, the others stay where they are.
LEMMA TakerTo ==
    ASSUME DbTypeOK, NEW t \in Takers, NEW b \in Backup, taking' = [taking EXCEPT ![t] = b]
    PROVE  /\ taking' \in [Takers -> Backup] /\ taking'[t] = b
           /\ \A u \in Takers \ {t} : taking'[u] = taking[u]
BY DEF DbTypeOK, Backup

LEMMA TakerGoes ==
    ASSUME DbTypeOK, NEW t \in Takers, NEW step \in DbSteps, Go(t, step)
    PROVE  /\ taking' \in [Takers -> Backup] /\ taking'[t].step = step
           /\ taking'[t].dir = taking[t].dir /\ taking'[t].name = taking[t].name
           /\ taking'[t].keep = taking[t].keep /\ taking'[t].doomed = taking[t].doomed
           /\ \A u \in Takers \ {t} : taking'[u] = taking[u]
<1> DEFINE b == [taking[t] EXCEPT !.step = step]
<1>1. /\ b \in Backup /\ b.step = step /\ b.dir = taking[t].dir /\ b.name = taking[t].name
      /\ b.keep = taking[t].keep /\ b.doomed = taking[t].doomed
  BY DEF DbTypeOK, Backup
<1>2. taking' = [taking EXCEPT ![t] = b]  BY DEF Go
<1> HIDE DEF b
<1>3. QED  BY <1>1, <1>2, TakerTo

LEMMA IdleTyped == Idle \in Backup /\ Idle.step = "idle" /\ Idle.doomed = {}
BY DEF Idle, Backup, DbSteps, Domains

LEMMA TakerStops ==
    ASSUME DbTypeOK, NEW t \in Takers, taking' = [taking EXCEPT ![t] = Idle]
    PROVE  /\ taking' \in [Takers -> Backup] /\ taking'[t] = Idle
           /\ \A u \in Takers \ {t} : taking'[u] = taking[u]
BY IdleTyped, TakerTo

LEMMA RetentionsNat == Retentions \subseteq 1..30
<1>1. ASSUME NEW k \in Keeps PROVE Clamp(k) \in 1..30
  <2>1. k \in Int  BY DbAssumption
  <2>2. QED  BY <2>1 DEF Clamp
<1>2. QED  BY <1>1 DEF Retentions

\* What the steps of a backup do to its record.
LEMMA AskedTo ==
    ASSUME DbTypeOK, NEW t \in Takers, AskBackup(t)
    PROVE  /\ taking' \in [Takers -> Backup] /\ TakerAt(t, "asked")'
           /\ taking'[t].keep = retention
           /\ \A u \in Takers \ {t} : taking'[u] = taking[u]
<1> DEFINE b == [Idle EXCEPT !.step = "asked", !.dir = siteDomain, !.keep = retention]
<1>1. retention \in Int /\ siteDomain \in Domains  BY RetentionsNat DEF DbTypeOK
<1>2. b \in Backup /\ b.step = "asked" /\ b.keep = retention
  BY <1>1, IdleTyped DEF Backup, DbSteps
<1>3. taking' = [taking EXCEPT ![t] = b]  BY DEF AskBackup
<1> HIDE DEF b
<1>4. QED  BY <1>2, <1>3, TakerTo DEF TakerAt

LEMMA DumpingTo ==
    ASSUME DbTypeOK, NEW t \in Takers, StartDump(t)
    PROVE  /\ taking' \in [Takers -> Backup] /\ TakerAt(t, "dumping")'
           /\ taking'[t].dir = taking[t].dir /\ taking'[t].keep = taking[t].keep
           /\ taking'[t].name = <<taking[t].dir, dbClock>>
           /\ <<taking[t].dir, dbClock>> \in Names
           /\ \A u \in Takers \ {t} : taking'[u] = taking[u]
<1> DEFINE name == <<taking[t].dir, dbClock>>
           b == [taking[t] EXCEPT !.step = "dumping", !.name = name]
<1>1. name \in Names  BY DEF DbTypeOK, Names
<1>2. /\ b \in Backup /\ b.step = "dumping" /\ b.dir = taking[t].dir
      /\ b.keep = taking[t].keep /\ b.name = name
  BY <1>1 DEF Backup, DbSteps, DbTypeOK
<1>3. taking' = [taking EXCEPT ![t] = b]  BY DEF StartDump
<1> HIDE DEF b
<1>4. QED  BY <1>1, <1>2, <1>3, TakerTo DEF TakerAt

LEMMA CountedTo ==
    ASSUME DbTypeOK, NEW t \in Takers, CountRows(t), Surplus(t) \in Int
    PROVE  /\ taking' \in [Takers -> Backup]
           /\ Surplus(t) <= 0 => taking'[t] = Idle
           /\ Surplus(t) > 0 => TakerAt(t, "counted")' /\ taking'[t].keep = Surplus(t)
           /\ \A u \in Takers \ {t} : taking'[u] = taking[u]
<1> DEFINE s == Surplus(t)
           c == [taking[t] EXCEPT !.step = "counted", !.keep = s]
           b == IF s <= 0 THEN Idle ELSE c
<1>1. c \in Backup /\ c.step = "counted" /\ c.keep = s  BY DEF Backup, DbSteps, DbTypeOK
<1>2. taking' = [taking EXCEPT ![t] = b]  BY DEF CountRows
<1> HIDE DEF c, s
<1>3. b \in Backup  BY <1>1, IdleTyped
<1>4. /\ taking' \in [Takers -> Backup] /\ taking'[t] = b
      /\ \A u \in Takers \ {t} : taking'[u] = taking[u]
  BY <1>2, <1>3, TakerTo
<1>5. QED  BY <1>1, <1>4 DEF TakerAt, s

LEMMA DoomTo ==
    ASSUME DbTypeOK, NEW t \in Takers, NEW rows \in SUBSET Rows, NEW step \in DbSteps,
           taking' = [taking EXCEPT ![t].step = step, ![t].doomed = rows]
    PROVE  /\ taking' \in [Takers -> Backup]
           /\ taking'[t].step = step /\ taking'[t].doomed = rows
           /\ \A u \in Takers \ {t} : taking'[u] = taking[u]
<1> DEFINE b == [taking[t] EXCEPT !.step = step, !.doomed = rows]
<1>1. b \in Backup /\ b.step = step /\ b.doomed = rows  BY DEF Backup, DbTypeOK
<1>2. taking' = [taking EXCEPT ![t] = b]  OBVIOUS
<1> HIDE DEF b
<1>3. QED  BY <1>1, <1>2, TakerTo

LEMMA DropTo ==
    ASSUME DbTypeOK, NEW t \in Takers, NEW row \in taking[t].doomed,
           taking' = [taking EXCEPT ![t].step = "pruning", ![t].doomed = @ \ {row}]
    PROVE  /\ taking' \in [Takers -> Backup] /\ TakerAt(t, "pruning")'
           /\ taking'[t].doomed = taking[t].doomed \ {row}
           /\ \A u \in Takers \ {t} : taking'[u] = taking[u]
<1> DEFINE rows == taking[t].doomed \ {row}
<1>1. rows \in SUBSET Rows /\ "pruning" \in DbSteps  BY DEF DbTypeOK, DbSteps
<1>2. taking' = [taking EXCEPT ![t].step = "pruning", ![t].doomed = rows]  OBVIOUS
<1> HIDE DEF rows
<1>3. /\ taking' \in [Takers -> Backup]
      /\ taking'[t].step = "pruning" /\ taking'[t].doomed = rows
      /\ \A u \in Takers \ {t} : taking'[u] = taking[u]
  BY <1>1, <1>2, DoomTo
<1>4. QED  BY <1>3 DEF TakerAt, rows

----------------------------------------------------------------------------
(* Types.                                                                    *)

LEMMA PathTyped ==
    ASSUME DbTypeOK, NEW t \in Takers, taking[t].name \in Names
    PROVE  PathOf(t) \in Files
BY DEF PathOf, Files, DbTypeOK

LEMMA NamesTyped == ASSUME NEW rows \in SUBSET Rows PROVE NamesOf(rows) \subseteq Names
BY DEF NamesOf, Rows

LEMMA TakeTypes ==
    ASSUME DbTypeOK, NEW t \in Takers, TakeBackup(t),
           TakerAt(t, "dumping") \/ TakerAt(t, "recorded") => taking[t].name \in Names,
           TakerAt(t, "synced") => Surplus(t) \in Int
    PROVE  DbTypeOK'
<1>1. CASE AskBackup(t)
  <2>1. dbCount' \in [lastId : Nat, asked : 0..MaxBackups, edits : 0..MaxDbEdits, lost : Nat]
    BY <1>1, DbAssumption DEF AskBackup, DbTypeOK
  <2>2. QED  BY <1>1, <2>1, AskedTo DEF AskBackup, DbTypeOK, Backup, storeVars, confVars, helpVars
<1>2. CASE StartDump(t)
  <2> DEFINE name == <<taking[t].dir, dbClock>>
  <2>1. name \in Names /\ taking[t].dir \in Domains
    BY <1>2, DumpingTo DEF DbTypeOK
  <2>2. /\ dbLocal' = dbLocal \cup {<<taking[t].dir, name>>}
        /\ uses' = [uses EXCEPT ![name] = @ + 1]
    BY <1>2 DEF StartDump
  <2> HIDE DEF name
  <2>3. dbLocal' \subseteq Files /\ uses' \in [Names -> Nat]
    BY <2>1, <2>2 DEF DbTypeOK, Files
  <2>4. QED  BY <1>2, <2>3, DumpingTo DEF StartDump, DbTypeOK, Backup, confVars, helpVars
<1>3. CASE DumpFails(t)
  BY <1>3, TakerStops DEF DumpFails, DbTypeOK, Backup, storeVars, confVars, helpVars
<1>4. CASE RecordDump(t)
  <2>1. taking[t].name \in Names /\ "recorded" \in DbSteps
    BY <1>4 DEF RecordDump, TakerAt, DbSteps
  <2>2. /\ <<dbCount.lastId + 1, taking[t].name>> \in Rows
        /\ dbCount' \in [lastId : Nat, asked : 0..MaxBackups, edits : 0..MaxDbEdits, lost : Nat]
    BY <1>4, <2>1 DEF RecordDump, DbTypeOK, Rows
  <2>3. taking' \in [Takers -> Backup]  BY <1>4, <2>1, TakerGoes DEF RecordDump
  <2>4. dbRows' \in SUBSET Rows  BY <1>4, <2>2 DEF RecordDump, DbTypeOK
  <2>5. QED  BY <1>4, <2>2, <2>3, <2>4 DEF RecordDump, DbTypeOK, Backup, confVars, helpVars
<1>5. CASE RecordFails(t)
  BY <1>5, TakerStops DEF RecordFails, DbTypeOK, Backup, confVars, helpVars
<1>6. CASE SyncBackup(t)
  <2>1. PathOf(t) \in Files /\ "synced" \in DbSteps
    BY <1>6, PathTyped DEF SyncBackup, TakerAt, DbSteps
  <2>2. dbLocal' \subseteq Files /\ dbRemote' \subseteq Files
    BY <1>6, <2>1 DEF SyncBackup, SyncCopies, SyncFails, DbTypeOK
  <2>3. taking' \in [Takers -> Backup]  BY <1>6, <2>1, TakerGoes DEF SyncBackup
  <2>4. QED  BY <1>6, <2>2, <2>3 DEF SyncBackup, DbTypeOK, Backup, confVars, helpVars
<1>7. CASE CountRows(t)
  <2>1. taking' \in [Takers -> Backup]  BY <1>7, CountedTo DEF CountRows, TakerAt
  <2>2. QED  BY <1>7, <2>1 DEF CountRows, DbTypeOK, Backup, storeVars, confVars, helpVars
<1>8. CASE SelectOldest(t)
  <2>1. PICK rows \in SUBSET dbRows :
             /\ taking' = [taking EXCEPT ![t].step = "pruning", ![t].doomed = rows]
             /\ condemned' = condemned \cup NamesOf(rows)
    BY <1>8 DEF SelectOldest
  <2>2. rows \in SUBSET Rows /\ "pruning" \in DbSteps  BY DEF DbTypeOK, DbSteps
  <2>3. taking' \in [Takers -> Backup]  BY <2>1, <2>2, DoomTo
  <2>4. condemned' \subseteq Names  BY <2>1, <2>2, NamesTyped DEF DbTypeOK
  <2>5. QED
    BY <1>8, <2>3, <2>4 DEF SelectOldest, DbTypeOK, Backup, storeVars, confVars, helpVars
<1>9. CASE RemoveOldFile(t)
  <2>1. dbLocal' \subseteq Files  BY <1>9 DEF RemoveOldFile, DbTypeOK
  <2>2. taking' \in [Takers -> Backup]  BY <1>9, TakerGoes DEF RemoveOldFile, DbSteps
  <2>3. QED  BY <1>9, <2>1, <2>2 DEF RemoveOldFile, DbTypeOK, Backup, confVars, helpVars
<1>10. CASE DropOldRow(t)
  <2>1. PICK row \in taking[t].doomed :
             /\ dbRows' = dbRows \ {row}
             /\ taking' = [taking EXCEPT ![t].step = "pruning", ![t].doomed = @ \ {row}]
    BY <1>10 DEF DropOldRow
  <2>2. taking' \in [Takers -> Backup]  BY <2>1, DropTo
  <2>3. QED  BY <1>10, <2>1, <2>2 DEF DropOldRow, DbTypeOK, Backup, confVars, helpVars
<1>11. CASE PruneEnds(t)
  BY <1>11, TakerStops DEF PruneEnds, DbTypeOK, Backup, storeVars, confVars, helpVars
<1>12. QED
  BY <1>1, <1>2, <1>3, <1>4, <1>5, <1>6, <1>7, <1>8, <1>9, <1>10, <1>11 DEF TakeBackup

LEMMA EditCounts ==
    ASSUME DbTypeOK, Edit
    PROVE  /\ dbCount' \in [lastId : Nat, asked : 0..MaxBackups, edits : 0..MaxDbEdits, lost : Nat]
           /\ dbCount'.lastId = dbCount.lastId /\ dbCount'.lost = dbCount.lost
BY DbAssumption DEF Edit, DbTypeOK

\* What no handler touches: the backups being taken, the clock, the history.
Handlers ==
  \/ DeleteFile \/ DeleteRows \/ SaveRetention \/ SaveMirror \/ RenameSite
  \/ AskRestore \/ UploadRestore \/ StartRestore \/ EndRestore \/ Second

LEMMA HandlerTypes == ASSUME DbTypeOK, Handlers PROVE DbTypeOK' /\ taking' = taking
<1> USE DEF DbTypeOK, storeVars, confVars, helpVars
<1>1. CASE DeleteFile
  <2>1. PICK n \in NamesOf(dbRows) :
             /\ deleting' = n /\ condemned' = condemned \cup {n}
             /\ dbLocal' = dbLocal \ {<<siteDomain, n>>}
    BY <1>1 DEF DeleteFile
  <2>2. n \in Names  BY NamesTyped
  <2>3. QED  BY <1>1, <2>1, <2>2, EditCounts DEF DeleteFile
<1>2. CASE DeleteRows  BY <1>2 DEF DeleteRows
<1>3. CASE SaveRetention
  <2>1. retention' \in Retentions /\ retention' \in 1..30
    BY <1>3, RetentionsNat DEF SaveRetention, Retentions
  <2>2. QED  BY <1>3, <2>1, EditCounts DEF SaveRetention
<1>4. CASE SaveMirror  BY <1>4, EditCounts DEF SaveMirror
<1>5. CASE RenameSite
  <2>1. siteDomain' \in Domains  BY <1>5 DEF RenameSite, Domains
  <2>2. QED  BY <1>5, <2>1, EditCounts DEF RenameSite
<1>6. CASE AskRestore
  <2>1. PICK n \in NamesOf(dbRows) :
             /\ <<siteDomain, n>> \in dbLocal
             /\ restoring' = [step |-> "queued", file |-> <<siteDomain, n>>]
    BY <1>6 DEF AskRestore
  <2>2. QED  BY <1>6, <2>1, EditCounts DEF AskRestore
<1>7. CASE UploadRestore  BY <1>7, EditCounts DEF UploadRestore
<1>8. CASE StartRestore  BY <1>8 DEF StartRestore
<1>9. CASE EndRestore
  <2>1. restoring' \in [step : {"none", "queued", "importing", "hung"}, file : Files \cup {NoName}]
    BY <1>9 DEF EndRestore
  <2>2. QED  BY <1>9, <2>1 DEF EndRestore
<1>10. CASE Second  BY <1>10, DbAssumption DEF Second
<1>11. QED
  BY <1>1, <1>2, <1>3, <1>4, <1>5, <1>6, <1>7, <1>8, <1>9, <1>10 DEF Handlers

AllRecorded == {t \in Takers : Recorded(t)}

LEMMA TakersFinite ==
    ASSUME NEW S \in SUBSET Takers PROVE IsFiniteSet(S) /\ Cardinality(S) \in Nat
<1>1. IsFiniteSet(Takers)  BY DbAssumption, FS_AddElement DEF Takers
<1>2. QED  BY <1>1, FS_Subset, FS_CardinalityType

LEMMA StopTypes ==
    ASSUME DbTypeOK, PanelStops
    PROVE  /\ DbTypeOK' /\ \A t \in Takers : taking'[t] = Idle
           /\ dbCount'.lost = dbCount.lost + Cardinality(AllRecorded)
           /\ dbCount'.lastId = dbCount.lastId
<1> DEFINE c == Cardinality(AllRecorded)
<1>1. c \in Nat  BY TakersFinite DEF AllRecorded
<1>2. dbCount' = [dbCount EXCEPT !.edits = @ + 1, !.lost = @ + c] /\ dbCount.edits < MaxDbEdits
  BY DEF PanelStops, AllRecorded
<1> HIDE DEF c
<1>3. /\ dbCount' \in [lastId : Nat, asked : 0..MaxBackups, edits : 0..MaxDbEdits, lost : Nat]
      /\ dbCount'.lost = dbCount.lost + c /\ dbCount'.lastId = dbCount.lastId
  <2>1. dbCount \in [lastId : Nat, asked : 0..MaxBackups, edits : 0..MaxDbEdits, lost : Nat]
    BY DEF DbTypeOK
  <2>2. dbCount.edits + 1 \in 0..MaxDbEdits /\ dbCount.lost + c \in Nat
    BY <1>1, <1>2, <2>1, DbAssumption
  <2>3. QED  BY <1>2, <2>1, <2>2
<1>4. taking' = [t \in Takers |-> Idle]  BY DEF PanelStops
<1>5. taking' \in [Takers -> Backup]  BY <1>4, IdleTyped
<1>6. QED
  BY <1>3, <1>4, <1>5 DEF PanelStops, DbTypeOK, Backup, storeVars, confVars, c

----------------------------------------------------------------------------
(* A row has its file.                                                       *)

\* One backup took the name, and nobody chose it for removal.
OnlyCopy(n) == n \notin condemned /\ uses[n] <= 1

\* A row's name was taken, and its file is there when it is the only copy.
RowsCovered ==
  \A r \in dbRows : uses[r[2]] >= 1 /\ (OnlyCopy(r[2]) => HasCopy(r[2]))

\* A dump is being written to the file of its name; nobody else has that name.
DumpsCovered ==
  \A t \in Takers : TakerAt(t, "dumping") =>
    /\ taking[t].name \in Names /\ uses[taking[t].name] >= 1
    /\ OnlyCopy(taking[t].name) =>
         /\ PathOf(t) \in dbLocal
         /\ \A r \in dbRows : r[2] # taking[t].name
         /\ \A u \in Takers \ {t} : TakerAt(u, "dumping") => taking[u].name # taking[t].name

\* The row of a backup about to be copied is there unless chosen for removal.
CopiesCovered ==
  \A t \in Takers : TakerAt(t, "recorded") =>
    /\ taking[t].name \in Names
    /\ OnlyCopy(taking[t].name) => taking[t].name \in NamesOf(dbRows)

\* What is removed was chosen.
RemovalsChosen ==
  /\ \A t \in Takers : TakerAt(t, "pruning") \/ TakerAt(t, "dropping") =>
       NamesOf(taking[t].doomed) \subseteq condemned
  /\ deleting # NoName => deleting \in condemned

CopyInv == DbTypeOK /\ RowsCovered /\ DumpsCovered /\ CopiesCovered /\ RemovalsChosen

\* A step that takes no name and writes no row, and loses no only copy.
LEMMA CopyKept ==
    ASSUME CopyInv, DbTypeOK', RemovalsChosen', uses' = uses, condemned \subseteq condemned',
           dbRows' \subseteq dbRows, \A r \in dbRows \ dbRows' : r[2] \in condemned',
           \A n \in NamesOf(dbRows) : OnlyCopy(n)' /\ HasCopy(n) => HasCopy(n)',
           \A t \in Takers : TakerAt(t, "dumping")' =>
             /\ TakerAt(t, "dumping")
             /\ taking'[t].name = taking[t].name /\ taking'[t].dir = taking[t].dir
             /\ OnlyCopy(taking[t].name)' /\ PathOf(t) \in dbLocal => PathOf(t) \in dbLocal',
           \A t \in Takers : TakerAt(t, "recorded")' =>
             TakerAt(t, "recorded") /\ taking'[t].name = taking[t].name
    PROVE  CopyInv'
<1>1. \A n \in Names : OnlyCopy(n)' => OnlyCopy(n)  BY DEF OnlyCopy
<1>2. \A r \in dbRows : r[2] \in Names /\ r[2] \in NamesOf(dbRows)
  BY DEF CopyInv, DbTypeOK, Rows, NamesOf
<1>3. RowsCovered'  BY <1>1, <1>2 DEF CopyInv, RowsCovered
<1>4. DumpsCovered'
  <2> SUFFICES ASSUME NEW t \in Takers, TakerAt(t, "dumping")', NEW n, n = taking'[t].name
               PROVE  /\ n \in Names /\ uses'[n] >= 1
                      /\ OnlyCopy(n)' =>
                           /\ PathOf(t)' \in dbLocal'
                           /\ \A r \in dbRows' : r[2] # n
                           /\ \A u \in Takers \ {t} :
                                TakerAt(u, "dumping")' => taking'[u].name # n
    BY DEF DumpsCovered, OnlyCopy
  <2>1. TakerAt(t, "dumping") /\ taking'[t].name = n /\ PathOf(t)' = PathOf(t)
    BY DEF PathOf
  <2>2. n \in Names /\ uses[n] >= 1  BY <2>1 DEF CopyInv, DumpsCovered
  <2>3. ASSUME OnlyCopy(n)'
        PROVE  /\ PathOf(t) \in dbLocal'
               /\ \A r \in dbRows' : r[2] # n
               /\ \A u \in Takers \ {t} : TakerAt(u, "dumping")' => taking'[u].name # n
    <3>1. OnlyCopy(n) /\ OnlyCopy(taking[t].name)'  BY <1>1, <2>1, <2>2, <2>3 DEF OnlyCopy
    <3>2. /\ PathOf(t) \in dbLocal
          /\ \A r \in dbRows : r[2] # n
          /\ \A u \in Takers \ {t} : TakerAt(u, "dumping") => taking[u].name # n
      BY <2>1, <3>1 DEF CopyInv, DumpsCovered
    <3>3. QED  BY <2>1, <3>1, <3>2
  <2>4. QED  BY <2>1, <2>2, <2>3
<1>5. CopiesCovered'
  <2> SUFFICES ASSUME NEW t \in Takers, TakerAt(t, "recorded")', NEW n, n = taking'[t].name
               PROVE  n \in Names /\ (OnlyCopy(n)' => n \in NamesOf(dbRows'))
    BY DEF CopiesCovered, NamesOf, OnlyCopy
  <2>1. TakerAt(t, "recorded") /\ n = taking[t].name /\ n \in Names
    BY DEF CopyInv, CopiesCovered
  <2>2. ASSUME OnlyCopy(n)' PROVE n \in NamesOf(dbRows')
    <3>1. n \in NamesOf(dbRows)  BY <1>1, <2>1, <2>2 DEF CopyInv, CopiesCovered
    <3>2. PICK r \in dbRows : r[2] = n  BY <3>1 DEF NamesOf
    <3>3. r \in dbRows'  BY <2>2, <3>2 DEF OnlyCopy
    <3>4. QED  BY <3>2, <3>3 DEF NamesOf
  <2>3. QED  BY <2>1, <2>2
<1>6. QED  BY <1>3, <1>4, <1>5 DEF CopyInv

\* A step that leaves the files alone.
LEMMA FilesAlone ==
    ASSUME dbLocal' = dbLocal, dbRemote' = dbRemote
    PROVE  \A n : HasCopy(n) => HasCopy(n)'
BY DEF HasCopy

\* The record of a backup whose step is none of those looked at.
LEMMA ChosenKept ==
    ASSUME CopyInv, condemned \subseteq condemned',
           deleting' = deleting \/ deleting' = NoName,
           NEW t \in Takers, \A u \in Takers \ {t} : taking'[u] = taking[u],
           TakerAt(t, "pruning")' \/ TakerAt(t, "dropping")' =>
             NamesOf(taking'[t].doomed) \subseteq condemned'
    PROVE  RemovalsChosen'
<1>1. \A u \in Takers \ {t} :
        TakerAt(u, "pruning")' \/ TakerAt(u, "dropping")' =>
          NamesOf(taking'[u].doomed) \subseteq condemned'
  BY DEF CopyInv, RemovalsChosen, TakerAt
<1>2. deleting' # NoName => deleting' \in condemned'
  BY DEF CopyInv, RemovalsChosen
<1>3. QED  BY <1>1, <1>2 DEF RemovalsChosen, NamesOf

\* A step of one backup that touches neither rows nor files.
LEMMA BackupQuiet ==
    ASSUME CopyInv, DbTypeOK', NEW t \in Takers, \A u \in Takers \ {t} : taking'[u] = taking[u],
           ~TakerAt(t, "dumping")', ~TakerAt(t, "recorded")',
           TakerAt(t, "pruning")' \/ TakerAt(t, "dropping")' =>
             NamesOf(taking'[t].doomed) \subseteq condemned',
           uses' = uses, condemned \subseteq condemned', dbRows' = dbRows,
           dbLocal' = dbLocal, dbRemote' = dbRemote, deleting' = deleting
    PROVE  CopyInv'
<1>1. RemovalsChosen'  BY ChosenKept
<1>2. \A u \in Takers : TakerAt(u, "dumping")' =>
        /\ TakerAt(u, "dumping")
        /\ taking'[u].name = taking[u].name /\ taking'[u].dir = taking[u].dir
        /\ OnlyCopy(taking[u].name)' /\ PathOf(u) \in dbLocal => PathOf(u) \in dbLocal'
  BY DEF TakerAt
<1>3. \A u \in Takers : TakerAt(u, "recorded")' =>
        TakerAt(u, "recorded") /\ taking'[u].name = taking[u].name
  BY DEF TakerAt
<1>4. QED  BY <1>1, <1>2, <1>3, FilesAlone, CopyKept

LEMMA StartDumpCopies == ASSUME CopyInv, DbTypeOK', NEW t \in Takers, StartDump(t) PROVE CopyInv'
<1> DEFINE n == <<taking[t].dir, dbClock>>
<1>1. /\ taking'[t].name = n /\ taking'[t].dir = taking[t].dir /\ TakerAt(t, "dumping")'
      /\ n \in Names /\ \A u \in Takers \ {t} : taking'[u] = taking[u]
  BY DumpingTo DEF CopyInv
<1>2. /\ dbLocal' = dbLocal \cup {<<taking[t].dir, n>>} /\ uses' = [uses EXCEPT ![n] = @ + 1]
      /\ dbRows' = dbRows /\ dbRemote' = dbRemote /\ condemned' = condemned /\ deleting' = deleting
  BY DEF StartDump, helpVars
<1> HIDE DEF n
<1>3. uses \in [Names -> Nat]  BY DEF CopyInv, DbTypeOK
<1>4. /\ uses'[n] = uses[n] + 1 /\ \A m \in Names \ {n} : uses'[m] = uses[m]
      /\ \A m \in Names : uses[m] \in Nat
  BY <1>1, <1>2, <1>3
<1>5. \A m \in Names : OnlyCopy(m)' => OnlyCopy(m) /\ (m = n => uses[m] = 0)
  BY <1>1, <1>2, <1>4 DEF OnlyCopy
<1>6. \A r \in dbRows : r[2] \in Names  BY DEF CopyInv, DbTypeOK, Rows
<1>7. \A m : HasCopy(m) => HasCopy(m)'  BY <1>2 DEF HasCopy
<1>8. RowsCovered'
  BY <1>2, <1>4, <1>5, <1>6, <1>7 DEF CopyInv, RowsCovered
<1>9. DumpsCovered'
  <2> SUFFICES ASSUME NEW u \in Takers, TakerAt(u, "dumping")', NEW m, m = taking'[u].name
               PROVE  /\ m \in Names /\ uses'[m] >= 1
                      /\ OnlyCopy(m)' =>
                           /\ PathOf(u)' \in dbLocal'
                           /\ \A r \in dbRows' : r[2] # m
                           /\ \A v \in Takers \ {u} :
                                TakerAt(v, "dumping")' => taking'[v].name # m
    BY DEF DumpsCovered, OnlyCopy
  <2>1. CASE u = t
    <3>1. m \in Names /\ uses'[m] >= 1 /\ m = n  BY <1>1, <1>4, <2>1
    <3>2. PathOf(u)' \in dbLocal'  BY <1>1, <1>2, <2>1 DEF PathOf
    <3>3. ASSUME OnlyCopy(m)', NEW r \in dbRows PROVE r[2] # m
      BY <1>5, <1>6, <3>1, <3>3 DEF CopyInv, RowsCovered
    <3>4. ASSUME OnlyCopy(m)', NEW v \in Takers \ {u}, TakerAt(v, "dumping")'
          PROVE  taking'[v].name # m
      BY <1>1, <1>5, <2>1, <3>1, <3>4 DEF CopyInv, DumpsCovered, TakerAt
    <3>5. QED  BY <1>2, <3>1, <3>2, <3>3, <3>4
  <2>2. CASE u # t
    <3>1. TakerAt(u, "dumping") /\ m = taking[u].name /\ PathOf(u)' = PathOf(u)
      BY <1>1, <2>2 DEF TakerAt, PathOf
    <3>2. m \in Names /\ uses[m] >= 1  BY <3>1 DEF CopyInv, DumpsCovered
    <3>3. uses'[m] >= 1  BY <1>4, <3>2
    <3>4. ASSUME OnlyCopy(m)'
          PROVE  /\ PathOf(u) \in dbLocal' /\ \A r \in dbRows' : r[2] # m
                 /\ \A v \in Takers \ {u} : TakerAt(v, "dumping")' => taking'[v].name # m
      <4>1. m # n /\ OnlyCopy(m)  BY <1>5, <3>2, <3>4
      <4>2. /\ PathOf(u) \in dbLocal /\ \A r \in dbRows : r[2] # m
            /\ \A v \in Takers \ {u} : TakerAt(v, "dumping") => taking[v].name # m
        BY <3>1, <4>1 DEF CopyInv, DumpsCovered
      <4>3. QED  BY <1>1, <1>2, <4>1, <4>2 DEF TakerAt
    <3>5. QED  BY <3>1, <3>2, <3>3, <3>4
  <2>3. QED  BY <2>1, <2>2
<1>10. CopiesCovered'
  <2> SUFFICES ASSUME NEW u \in Takers, TakerAt(u, "recorded")', NEW m, m = taking'[u].name
               PROVE  m \in Names /\ (OnlyCopy(m)' => m \in NamesOf(dbRows'))
    BY DEF CopiesCovered, NamesOf, OnlyCopy
  <2>1. TakerAt(u, "recorded") /\ m = taking[u].name  BY <1>1 DEF TakerAt
  <2>2. QED  BY <1>2, <1>5, <2>1 DEF CopyInv, CopiesCovered
<1>11. RemovalsChosen'
  <2>1. ~TakerAt(t, "pruning")' /\ ~TakerAt(t, "dropping")'  BY <1>1 DEF TakerAt
  <2>2. QED  BY <1>1, <1>2, <2>1, ChosenKept
<1>12. QED  BY <1>8, <1>9, <1>10, <1>11 DEF CopyInv

LEMMA RecordDumpCopies == ASSUME CopyInv, DbTypeOK', NEW t \in Takers, RecordDump(t) PROVE CopyInv'
<1> DEFINE n == taking[t].name
           row == <<dbCount.lastId + 1, n>>
<1>1. /\ taking'[t].name = n /\ TakerAt(t, "recorded")' /\ TakerAt(t, "dumping")
      /\ \A u \in Takers \ {t} : taking'[u] = taking[u]
  BY TakerGoes DEF CopyInv, RecordDump, TakerAt, DbSteps
<1>2. /\ dbRows' = dbRows \cup {row} /\ dbLocal' = dbLocal /\ dbRemote' = dbRemote
      /\ uses' = uses /\ condemned' = condemned /\ deleting' = deleting
  BY DEF RecordDump, helpVars
<1>3. row[2] = n  OBVIOUS
<1>4. /\ n \in Names /\ uses[n] >= 1
      /\ OnlyCopy(n) =>
           /\ PathOf(t) \in dbLocal
           /\ \A r \in dbRows : r[2] # n
           /\ \A u \in Takers \ {t} : TakerAt(u, "dumping") => taking[u].name # n
  BY <1>1 DEF CopyInv, DumpsCovered
<1>5. PathOf(t) = <<taking[t].dir, n>> /\ taking[t].dir \in Domains
  BY DEF PathOf, CopyInv, DbTypeOK
<1> HIDE DEF n, row
<1>6. \A m : (OnlyCopy(m)' <=> OnlyCopy(m)) /\ (HasCopy(m)' <=> HasCopy(m))
  BY <1>2 DEF OnlyCopy, HasCopy
<1>7. RowsCovered'
  <2>1. uses'[row[2]] >= 1 /\ (OnlyCopy(n) => HasCopy(n))
    BY <1>2, <1>3, <1>4, <1>5 DEF HasCopy
  <2>2. ASSUME NEW r \in dbRows' PROVE uses'[r[2]] >= 1 /\ (OnlyCopy(r[2])' => HasCopy(r[2])')
    <3>1. CASE r = row  BY <1>3, <1>6, <2>1, <3>1
    <3>2. CASE r \in dbRows  BY <1>2, <1>6, <3>2 DEF CopyInv, RowsCovered
    <3>3. QED  BY <1>2, <3>1, <3>2
  <2>3. QED  BY <2>2 DEF RowsCovered
<1>8. DumpsCovered'
  <2> SUFFICES ASSUME NEW u \in Takers, TakerAt(u, "dumping")', NEW m, m = taking'[u].name
               PROVE  /\ m \in Names /\ uses'[m] >= 1
                      /\ OnlyCopy(m)' =>
                           /\ PathOf(u)' \in dbLocal'
                           /\ \A r \in dbRows' : r[2] # m
                           /\ \A v \in Takers \ {u} :
                                TakerAt(v, "dumping")' => taking'[v].name # m
    BY DEF DumpsCovered, OnlyCopy
  <2>1. u # t  BY <1>1 DEF TakerAt
  <2>2. TakerAt(u, "dumping") /\ m = taking[u].name /\ PathOf(u)' = PathOf(u)
    BY <1>1, <2>1 DEF TakerAt, PathOf
  <2>3. /\ m \in Names /\ uses[m] >= 1
        /\ OnlyCopy(m) =>
             /\ PathOf(u) \in dbLocal
             /\ \A r \in dbRows : r[2] # m
             /\ \A v \in Takers \ {u} : TakerAt(v, "dumping") => taking[v].name # m
    BY <2>2 DEF CopyInv, DumpsCovered
  <2>4. OnlyCopy(m) => n # m  BY <1>1, <2>1, <2>3 DEF n
  <2>5. OnlyCopy(m)' => \A r \in dbRows' : r[2] # m  BY <1>2, <1>3, <1>6, <2>3, <2>4
  <2>6. \A v \in Takers : TakerAt(v, "dumping")' => TakerAt(v, "dumping") /\ taking'[v] = taking[v]
    BY <1>1 DEF TakerAt
  <2>7. QED  BY <1>2, <1>6, <2>2, <2>3, <2>5, <2>6
<1>9. CopiesCovered'
  <2> SUFFICES ASSUME NEW u \in Takers, TakerAt(u, "recorded")', NEW m, m = taking'[u].name
               PROVE  m \in Names /\ (OnlyCopy(m)' => m \in NamesOf(dbRows'))
    BY DEF CopiesCovered, NamesOf, OnlyCopy
  <2>1. CASE u = t  BY <1>1, <1>2, <1>3, <1>4, <2>1 DEF NamesOf
  <2>2. CASE u # t
    <3>1. TakerAt(u, "recorded") /\ m = taking[u].name  BY <1>1, <2>2 DEF TakerAt
    <3>2. m \in Names /\ (OnlyCopy(m) => m \in NamesOf(dbRows))
      BY <3>1 DEF CopyInv, CopiesCovered
    <3>3. QED  BY <1>2, <1>6, <3>2 DEF NamesOf
  <2>3. QED  BY <2>1, <2>2
<1>10. RemovalsChosen'
  <2>1. ~TakerAt(t, "pruning")' /\ ~TakerAt(t, "dropping")'  BY <1>1 DEF TakerAt
  <2>2. QED  BY <1>1, <1>2, <2>1, ChosenKept
<1>11. QED  BY <1>7, <1>8, <1>9, <1>10 DEF CopyInv

\* The file of a dump whose row cannot be written, or of a row copied and
\* moved: nobody else's dump, while the name has one backup.
LEMMA RecordFailsCopies ==
    ASSUME CopyInv, DbTypeOK', NEW t \in Takers, RecordFails(t) PROVE CopyInv'
<1>1. /\ TakerAt(t, "dumping") /\ taking'[t].step = "idle"
      /\ \A u \in Takers \ {t} : taking'[u] = taking[u]
  BY TakerStops, IdleTyped DEF CopyInv, RecordFails, TakerAt
<1>2. /\ dbRows' = dbRows /\ dbLocal' = dbLocal \ {PathOf(t)} /\ dbRemote' = dbRemote
      /\ uses' = uses /\ condemned' = condemned /\ deleting' = deleting
  BY DEF RecordFails, helpVars
<1>3. RemovalsChosen'
  <2>1. ~TakerAt(t, "pruning")' /\ ~TakerAt(t, "dropping")'  BY <1>1 DEF TakerAt
  <2>2. QED  BY <1>1, <1>2, <2>1, ChosenKept
<1>4. \A n : OnlyCopy(n)' <=> OnlyCopy(n)  BY <1>2 DEF OnlyCopy
<1>5. ASSUME NEW n \in NamesOf(dbRows), OnlyCopy(n)', HasCopy(n) PROVE HasCopy(n)'
  <2>1. PICK r \in dbRows : r[2] = n  BY DEF NamesOf
  <2>2. OnlyCopy(n)  BY <1>4, <1>5
  <2>3. n # taking[t].name  BY <1>1, <2>1, <2>2 DEF CopyInv, DumpsCovered
  <2>4. \A d : <<d, n>> # PathOf(t)  BY <2>3 DEF PathOf
  <2>5. QED  BY <1>2, <1>5, <2>4 DEF HasCopy
<1>6. ASSUME NEW u \in Takers, TakerAt(u, "dumping")'
      PROVE  /\ TakerAt(u, "dumping")
             /\ taking'[u].name = taking[u].name /\ taking'[u].dir = taking[u].dir
             /\ OnlyCopy(taking[u].name)' /\ PathOf(u) \in dbLocal => PathOf(u) \in dbLocal'
  <2>1. u # t  BY <1>1, <1>6 DEF TakerAt
  <2>2. TakerAt(u, "dumping") /\ taking'[u] = taking[u]  BY <1>1, <1>6, <2>1 DEF TakerAt
  <2>3. OnlyCopy(taking[u].name)' => OnlyCopy(taking[u].name)
    BY <1>2, <2>2 DEF OnlyCopy
  <2>4. OnlyCopy(taking[u].name) => taking[t].name # taking[u].name
    BY <1>1, <2>1, <2>2 DEF CopyInv, DumpsCovered
  <2>5. OnlyCopy(taking[u].name) => PathOf(t) # PathOf(u)  BY <2>4 DEF PathOf
  <2>6. QED  BY <1>2, <2>2, <2>3, <2>5
<1>7. \A u \in Takers : TakerAt(u, "recorded")' =>
        TakerAt(u, "recorded") /\ taking'[u].name = taking[u].name
  BY <1>1 DEF TakerAt
<1>8. QED  BY <1>2, <1>3, <1>5, <1>6, <1>7, CopyKept

LEMMA SyncCopiesKept == ASSUME CopyInv, DbTypeOK', NEW t \in Takers, SyncBackup(t) PROVE CopyInv'
<1>1. /\ TakerAt(t, "recorded") /\ TakerAt(t, "synced")'
      /\ \A u \in Takers \ {t} : taking'[u] = taking[u]
  BY TakerGoes DEF CopyInv, SyncBackup, TakerAt, DbSteps
<1>2. /\ dbRows' = dbRows /\ dbLocal' \in {dbLocal, dbLocal \ {PathOf(t)}}
      /\ dbRemote \subseteq dbRemote' /\ (dbLocal' = dbLocal \/ PathOf(t) \in dbRemote')
      /\ uses' = uses /\ condemned' = condemned /\ deleting' = deleting
  BY DEF SyncBackup, SyncCopies, SyncFails, helpVars
<1>3. RemovalsChosen'
  <2>1. ~TakerAt(t, "pruning")' /\ ~TakerAt(t, "dropping")'  BY <1>1 DEF TakerAt
  <2>2. QED  BY <1>1, <1>2, <2>1, ChosenKept
<1>4. \A n : HasCopy(n) => HasCopy(n)'
  BY <1>2 DEF HasCopy
<1>5. ASSUME NEW u \in Takers, TakerAt(u, "dumping")'
      PROVE  /\ TakerAt(u, "dumping")
             /\ taking'[u].name = taking[u].name /\ taking'[u].dir = taking[u].dir
             /\ OnlyCopy(taking[u].name)' /\ PathOf(u) \in dbLocal => PathOf(u) \in dbLocal'
  <2>1. u # t  BY <1>1, <1>5 DEF TakerAt
  <2>2. TakerAt(u, "dumping") /\ taking'[u] = taking[u]  BY <1>1, <1>5, <2>1 DEF TakerAt
  <2>3. OnlyCopy(taking[u].name)' => OnlyCopy(taking[u].name)
    BY <1>2, <2>2 DEF OnlyCopy
  <2>4. ASSUME OnlyCopy(taking[u].name) PROVE taking[t].name # taking[u].name
    <3>1. \A r \in dbRows : r[2] # taking[u].name
      BY <2>2, <2>4 DEF CopyInv, DumpsCovered
    <3>2. OnlyCopy(taking[t].name) => taking[t].name \in NamesOf(dbRows)
      BY <1>1 DEF CopyInv, CopiesCovered
    <3>3. taking[u].name \notin NamesOf(dbRows)  BY <3>1 DEF NamesOf
    <3>4. QED  BY <2>4, <3>2, <3>3
  <2>5. OnlyCopy(taking[u].name) => PathOf(t) # PathOf(u)  BY <2>4 DEF PathOf
  <2>6. QED  BY <1>2, <2>2, <2>3, <2>5
<1>6. \A u \in Takers : TakerAt(u, "recorded")' =>
        TakerAt(u, "recorded") /\ taking'[u].name = taking[u].name
  BY <1>1 DEF TakerAt
<1>7. QED  BY <1>2, <1>3, <1>4, <1>5, <1>6, CopyKept

\* A step by which only chosen rows and files go, of no backup before its copy.
LEMMA ChosenGone ==
    ASSUME CopyInv, DbTypeOK', RemovalsChosen', uses' = uses, condemned \subseteq condemned',
           dbRows' \subseteq dbRows, \A r \in dbRows \ dbRows' : r[2] \in condemned',
           dbLocal' \subseteq dbLocal, \A f \in dbLocal \ dbLocal' : f[2] \in condemned',
           dbRemote' = dbRemote,
           \A t \in Takers : TakerAt(t, "dumping")' \/ TakerAt(t, "recorded")' =>
             taking'[t] = taking[t]
    PROVE  CopyInv'
<1>1. ASSUME NEW n, NEW d, OnlyCopy(n)', <<d, n>> \in dbLocal PROVE <<d, n>> \in dbLocal'
  BY <1>1 DEF OnlyCopy
<1>2. \A n : OnlyCopy(n)' /\ HasCopy(n) => HasCopy(n)'  BY <1>1 DEF HasCopy
<1>3. ASSUME NEW t \in Takers, TakerAt(t, "dumping")'
      PROVE  /\ TakerAt(t, "dumping")
             /\ taking'[t].name = taking[t].name /\ taking'[t].dir = taking[t].dir
             /\ OnlyCopy(taking[t].name)' /\ PathOf(t) \in dbLocal => PathOf(t) \in dbLocal'
  <2>1. taking'[t] = taking[t]  BY <1>3
  <2>2. PICK n : n = taking[t].name  OBVIOUS
  <2>3. OnlyCopy(taking[t].name)' => OnlyCopy(n)'  BY <2>1, <2>2 DEF OnlyCopy
  <2>4. PathOf(t) = <<taking[t].dir, n>>  BY <2>2 DEF PathOf
  <2>5. QED  BY <1>1, <1>3, <2>1, <2>3, <2>4 DEF TakerAt
<1>4. \A t \in Takers : TakerAt(t, "recorded")' =>
        TakerAt(t, "recorded") /\ taking'[t].name = taking[t].name
  BY DEF TakerAt
<1>5. QED  BY <1>2, <1>3, <1>4, CopyKept

LEMMA SelectCopies == ASSUME CopyInv, DbTypeOK', NEW t \in Takers, SelectOldest(t) PROVE CopyInv'
<1>1. PICK rows \in SUBSET dbRows :
           /\ taking' = [taking EXCEPT ![t].step = "pruning", ![t].doomed = rows]
           /\ condemned' = condemned \cup NamesOf(rows)
  BY DEF SelectOldest
<1>2. rows \in SUBSET Rows /\ "pruning" \in DbSteps  BY DEF CopyInv, DbTypeOK, DbSteps
<1>3. /\ taking'[t].step = "pruning" /\ taking'[t].doomed = rows
      /\ \A u \in Takers \ {t} : taking'[u] = taking[u]
  BY <1>1, <1>2, DoomTo DEF CopyInv
<1>4. QED
  BY <1>1, <1>3, BackupQuiet DEF SelectOldest, TakerAt, storeVars, helpVars

LEMMA RemoveFileCopies ==
    ASSUME CopyInv, DbTypeOK', NEW t \in Takers, RemoveOldFile(t) PROVE CopyInv'
<1>1. /\ TakerAt(t, "dropping")' /\ taking'[t].doomed = taking[t].doomed /\ TakerAt(t, "pruning")
      /\ \A u \in Takers \ {t} : taking'[u] = taking[u]
  BY TakerGoes DEF CopyInv, RemoveOldFile, TakerAt, DbSteps
<1>2. PICK row \in taking[t].doomed : dbLocal' = dbLocal \ {<<taking[t].dir, row[2]>>}
  BY DEF RemoveOldFile
<1>3. /\ dbRows' = dbRows /\ dbRemote' = dbRemote /\ uses' = uses
      /\ condemned' = condemned /\ deleting' = deleting
  BY DEF RemoveOldFile, helpVars
<1>4. NamesOf(taking[t].doomed) \subseteq condemned  BY <1>1 DEF CopyInv, RemovalsChosen
<1>5. row[2] \in condemned'  BY <1>2, <1>3, <1>4 DEF NamesOf
<1>6. RemovalsChosen'  BY <1>1, <1>3, <1>4, ChosenKept
<1>7. \A f \in dbLocal \ dbLocal' : f[2] \in condemned'  BY <1>2, <1>5
<1>8. \A u \in Takers : TakerAt(u, "dumping")' \/ TakerAt(u, "recorded")' => taking'[u] = taking[u]
  BY <1>1 DEF TakerAt
<1>9. QED  BY <1>2, <1>3, <1>6, <1>7, <1>8, ChosenGone

LEMMA DropRowCopies == ASSUME CopyInv, DbTypeOK', NEW t \in Takers, DropOldRow(t) PROVE CopyInv'
<1>1. PICK row \in taking[t].doomed :
           /\ dbRows' = dbRows \ {row}
           /\ taking' = [taking EXCEPT ![t].step = "pruning", ![t].doomed = @ \ {row}]
  BY DEF DropOldRow
<1>2. /\ TakerAt(t, "pruning")' /\ taking'[t].doomed = taking[t].doomed \ {row}
      /\ \A u \in Takers \ {t} : taking'[u] = taking[u]
  BY <1>1, DropTo DEF CopyInv
<1>3. /\ dbLocal' = dbLocal /\ dbRemote' = dbRemote /\ uses' = uses
      /\ condemned' = condemned /\ deleting' = deleting
  BY DEF DropOldRow, helpVars
<1>4. NamesOf(taking[t].doomed) \subseteq condemned
  BY DEF CopyInv, RemovalsChosen, DropOldRow, TakerAt
<1>5. row[2] \in condemned' /\ NamesOf(taking'[t].doomed) \subseteq condemned'
  BY <1>1, <1>2, <1>3, <1>4 DEF NamesOf
<1>6. RemovalsChosen'  BY <1>2, <1>3, <1>5, ChosenKept
<1>7. \A u \in Takers : TakerAt(u, "dumping")' \/ TakerAt(u, "recorded")' => taking'[u] = taking[u]
  BY <1>2 DEF TakerAt
<1>8. QED  BY <1>1, <1>3, <1>5, <1>6, <1>7, ChosenGone

LEMMA BackupCopies == ASSUME CopyInv, DbTypeOK', NEW t \in Takers, TakeBackup(t) PROVE CopyInv'
<1>1. CASE AskBackup(t)
  BY <1>1, AskedTo, BackupQuiet DEF AskBackup, CopyInv, TakerAt, storeVars, helpVars
<1>2. CASE DumpFails(t) \/ PruneEnds(t)
  <2>1. taking' = [taking EXCEPT ![t] = Idle]  BY <1>2 DEF DumpFails, PruneEnds
  <2>2. taking'[t].step = "idle" /\ \A u \in Takers \ {t} : taking'[u] = taking[u]
    BY <2>1, TakerStops, IdleTyped DEF CopyInv
  <2>3. QED
    BY <1>2, <2>2, BackupQuiet DEF DumpFails, PruneEnds, TakerAt, storeVars, helpVars
<1>3. CASE CountRows(t)
  <2> DEFINE c == [taking[t] EXCEPT !.step = "counted", !.keep = Surplus(t)]
  <2>1. taking' = [taking EXCEPT ![t] = IF Surplus(t) <= 0 THEN Idle ELSE c]
    BY <1>3 DEF CountRows
  <2>2. c.step = "counted"  BY DEF CopyInv, DbTypeOK
  <2> HIDE DEF c
  <2>3. /\ taking'[t].step \in {"idle", "counted"}
        /\ \A u \in Takers \ {t} : taking'[u] = taking[u]
    BY <2>1, <2>2, IdleTyped DEF CopyInv, DbTypeOK
  <2>4. QED  BY <1>3, <2>3, BackupQuiet DEF CountRows, TakerAt, storeVars, helpVars
<1>4. QED
  BY <1>1, <1>2, <1>3, StartDumpCopies, RecordDumpCopies, RecordFailsCopies, SyncCopiesKept,
     SelectCopies, RemoveFileCopies, DropRowCopies DEF TakeBackup

LEMMA HandlerCopies == ASSUME CopyInv, DbTypeOK', Handlers PROVE CopyInv'
<1>1. taking' = taking  BY HandlerTypes DEF CopyInv
<1>2. \/ DeleteFile \/ DeleteRows
      \/ UNCHANGED <<dbRows, dbLocal, dbRemote, deleting, uses, condemned>>
  BY DEF Handlers, SaveRetention, SaveMirror, RenameSite, AskRestore, UploadRestore,
         StartRestore, EndRestore, Second, storeVars, helpVars
<1>3. CASE DeleteFile
  <2>1. PICK n \in NamesOf(dbRows) :
             /\ deleting' = n /\ condemned' = condemned \cup {n}
             /\ dbLocal' = dbLocal \ {<<siteDomain, n>>}
    BY <1>3 DEF DeleteFile
  <2>2. dbRows' = dbRows /\ dbRemote' = dbRemote /\ uses' = uses  BY <1>3 DEF DeleteFile
  <2>3. RemovalsChosen'
    BY <1>1, <2>1 DEF CopyInv, RemovalsChosen, TakerAt
  <2>4. \A f \in dbLocal \ dbLocal' : f[2] \in condemned'  BY <2>1
  <2>5. QED  BY <1>1, <2>1, <2>2, <2>3, <2>4, ChosenGone
<1>4. CASE DeleteRows
  <2>1. /\ deleting \in condemned /\ dbRows' = {r \in dbRows : r[2] # deleting}
        /\ deleting' = NoName /\ condemned' = condemned /\ uses' = uses
        /\ dbLocal' = dbLocal /\ dbRemote' = dbRemote
    BY <1>4 DEF DeleteRows, CopyInv, RemovalsChosen
  <2>2. RemovalsChosen'
    BY <1>1, <2>1 DEF CopyInv, RemovalsChosen, TakerAt
  <2>3. QED  BY <1>1, <2>1, <2>2, ChosenGone
<1>5. CASE UNCHANGED <<dbRows, dbLocal, dbRemote, deleting, uses, condemned>>
  <2>1. RemovalsChosen'  BY <1>1, <1>5 DEF CopyInv, RemovalsChosen, TakerAt
  <2>2. QED  BY <1>1, <1>5, <2>1, ChosenGone
<1>6. QED  BY <1>2, <1>3, <1>4, <1>5

LEMMA StopCopies == ASSUME CopyInv, PanelStops PROVE CopyInv'
<1>1. DbTypeOK' /\ \A t \in Takers : taking'[t].step = "idle"
  BY StopTypes, IdleTyped DEF CopyInv
<1>2. /\ dbRows' = dbRows /\ dbLocal' = dbLocal /\ dbRemote' = dbRemote
      /\ uses' = uses /\ condemned' = condemned /\ deleting' = NoName
  BY DEF PanelStops, storeVars
<1>3. RemovalsChosen'  BY <1>1, <1>2 DEF RemovalsChosen, TakerAt
<1>4. QED  BY <1>1, <1>2, <1>3, ChosenGone DEF TakerAt

----------------------------------------------------------------------------
(* The retention is kept.                                                    *)

RowsNumbered == IsFiniteSet(dbRows) /\ \A r \in dbRows : r[1] <= dbCount.lastId

KeepsKnown ==
  \A t \in Takers :
    /\ taking[t].step \in {"asked", "dumping", "recorded", "synced"} =>
         taking[t].keep \in Retentions
    /\ TakerAt(t, "counted") => taking[t].keep > 0

Pruners == {t \in Takers : taking[t].step \in {"counted", "pruning", "dropping"}}

\* The rows a pruning leaves when no other removes or writes any.
LeftBy(b, rows) ==
  IF b.step = "counted"
    THEN IF b.keep < Cardinality(rows) THEN Cardinality(rows) - b.keep ELSE 0
    ELSE Cardinality(rows \ b.doomed)
Stay(t) == LeftBy(taking[t], dbRows)

\* The rows tolerated beyond a retention, not counting the backups of Q.
Room(Q) == dbCount.lost + Cardinality(AllRecorded \ Q)
Bounded(n, Q) == \E k \in Retentions : n <= k + Room(Q)

\* Of any prunings under way one brings the rows into the bound by itself.
OnePrunes ==
  \A Q \in SUBSET Pruners :
    Bounded(Cardinality(dbRows), Q) \/ \E t \in Q : Bounded(Stay(t), Q)

CountInv == DbTypeOK /\ RowsNumbered /\ KeepsKnown /\ OnePrunes

LEMMA RoomNat == ASSUME DbTypeOK, NEW Q PROVE Room(Q) \in Nat
<1>1. Cardinality(AllRecorded \ Q) \in Nat  BY TakersFinite DEF AllRecorded
<1>2. dbCount.lost \in Nat  BY DEF DbTypeOK
<1>3. QED  BY <1>1, <1>2 DEF Room

LEMMA LeftNumbers ==
    ASSUME NEW rows, IsFiniteSet(rows), NEW b \in Backup, b.step = "counted" => b.keep > 0
    PROVE  /\ Cardinality(rows) \in Nat
           /\ LeftBy(b, rows) \in Nat /\ LeftBy(b, rows) <= Cardinality(rows)
<1>1. Cardinality(rows) \in Nat  BY FS_CardinalityType
<1>2. /\ IsFiniteSet(rows \ b.doomed)
      /\ Cardinality(rows \ b.doomed) <= Cardinality(rows)
  BY FS_Subset
<1>3. Cardinality(rows \ b.doomed) \in Nat  BY <1>2, FS_CardinalityType
<1>4. CASE b.step = "counted"
  <2>1. b.keep \in Int /\ b.keep > 0  BY <1>4 DEF Backup
  <2>2. QED  BY <1>1, <1>4, <2>1 DEF LeftBy
<1>5. CASE b.step # "counted"  BY <1>1, <1>2, <1>3, <1>5 DEF LeftBy
<1>6. QED  BY <1>4, <1>5

LEMMA LeftNat ==
    ASSUME DbTypeOK, RowsNumbered, KeepsKnown
    PROVE  /\ Cardinality(dbRows) \in Nat
           /\ \A t \in Takers : Stay(t) \in Nat /\ Stay(t) <= Cardinality(dbRows)
<1>1. ASSUME NEW t \in Takers
      PROVE  taking[t] \in Backup /\ (taking[t].step = "counted" => taking[t].keep > 0)
  BY DEF DbTypeOK, Backup, KeepsKnown, TakerAt
<1>2. QED  BY <1>1, LeftNumbers, FS_CardinalityType DEF RowsNumbered, Stay

LEMMA LeftNatNext ==
    ASSUME DbTypeOK', RowsNumbered', KeepsKnown'
    PROVE  /\ Cardinality(dbRows') \in Nat
           /\ \A t \in Takers : Stay(t)' \in Nat /\ Stay(t)' <= Cardinality(dbRows')
<1>1. ASSUME NEW t \in Takers
      PROVE  taking'[t] \in Backup /\ (taking'[t].step = "counted" => taking'[t].keep > 0)
  BY DEF DbTypeOK, Backup, KeepsKnown, TakerAt
<1>2. QED  BY <1>1, LeftNumbers, FS_CardinalityType DEF RowsNumbered, Stay

\* The room only grows and no pruning leaves more.
LEMMA PrunesKept ==
    ASSUME CountInv, DbTypeOK', RowsNumbered', KeepsKnown',
           Pruners' \subseteq Pruners, AllRecorded' = AllRecorded, dbCount'.lost = dbCount.lost,
           Cardinality(dbRows') <= Cardinality(dbRows),
           \A t \in Pruners' : Stay(t)' <= Stay(t)
    PROVE  CountInv'
<1> SUFFICES ASSUME NEW Q \in SUBSET Pruners'
             PROVE  Bounded(Cardinality(dbRows), Q)' \/ \E t \in Q : Bounded(Stay(t), Q)'
  BY DEF CountInv, OnePrunes
<1>1. PICK n : n = Room(Q)  OBVIOUS
<1>2. Room(Q)' = n /\ n \in Nat  BY <1>1, RoomNat DEF Room, CountInv
<1>3. CASE Bounded(Cardinality(dbRows), Q)
  <2>1. PICK k \in Retentions : Cardinality(dbRows) <= k + n  BY <1>1, <1>3 DEF Bounded
  <2>2. Cardinality(dbRows) \in Nat /\ Cardinality(dbRows') \in Nat /\ k \in Nat
    BY LeftNat, LeftNatNext, RetentionsNat DEF CountInv
  <2>3. Cardinality(dbRows') <= k + n  BY <1>2, <2>1, <2>2
  <2>4. QED  BY <1>2, <2>3 DEF Bounded
<1>4. CASE \E t \in Q : Bounded(Stay(t), Q)
  <2>1. PICK t \in Q, k \in Retentions : Stay(t) <= k + n  BY <1>1, <1>4 DEF Bounded
  <2>2. t \in Takers /\ t \in Pruners'  BY DEF Pruners
  <2>3. Stay(t) \in Nat /\ Stay(t)' \in Nat /\ k \in Nat
    BY <2>2, LeftNat, LeftNatNext, RetentionsNat DEF CountInv
  <2>4. Stay(t)' <= k + n  BY <1>2, <2>1, <2>2, <2>3
  <2>5. QED  BY <1>2, <2>4 DEF Bounded
<1>5. QED  BY <1>3, <1>4 DEF CountInv, OnePrunes

LEMMA KeepsMoved ==
    ASSUME KeepsKnown, NEW t \in Takers, \A u \in Takers \ {t} : taking'[u] = taking[u],
           taking'[t].step \in {"asked", "dumping", "recorded", "synced"} =>
             taking'[t].keep \in Retentions,
           taking'[t].step = "counted" => taking'[t].keep > 0
    PROVE  KeepsKnown'
BY DEF KeepsKnown, TakerAt

LEMMA RecordedKept ==
    ASSUME NEW t \in Takers, \A u \in Takers \ {t} : taking'[u] = taking[u],
           Recorded(t)' <=> Recorded(t)
    PROVE  AllRecorded' = AllRecorded
<1>1. \A u \in Takers : Recorded(u)' <=> Recorded(u)  BY DEF Recorded
<1>2. QED  BY <1>1 DEF AllRecorded

\* A backup before its row, or between the copy and the count.
LEMMA BesidePruning ==
    ASSUME CountInv, DbTypeOK', NEW t \in Takers, \A u \in Takers \ {t} : taking'[u] = taking[u],
           dbRows' = dbRows, dbCount'.lastId = dbCount.lastId, dbCount'.lost = dbCount.lost,
           Recorded(t)' <=> Recorded(t),
           taking'[t].step \notin {"counted", "pruning", "dropping"},
           taking'[t].step \in {"asked", "dumping", "recorded", "synced"} =>
             taking'[t].keep \in Retentions
    PROVE  CountInv'
<1>1. RowsNumbered' /\ KeepsKnown'
  BY KeepsMoved DEF CountInv, RowsNumbered
<1>2. AllRecorded' = AllRecorded  BY RecordedKept
<1>3. \A u \in Pruners' : u \in Takers \ {t}  BY DEF Pruners
<1>4. Pruners' \subseteq Pruners  BY <1>3 DEF Pruners
<1>5. \A u \in Pruners' : Stay(u)' = Stay(u)  BY <1>3 DEF Stay
<1>6. Cardinality(dbRows) \in Nat /\ \A u \in Takers : Stay(u) \in Nat
  BY LeftNat DEF CountInv
<1>7. \A u \in Pruners' : Stay(u)' <= Stay(u)  BY <1>3, <1>5, <1>6
<1>8. QED  BY <1>1, <1>2, <1>4, <1>6, <1>7, PrunesKept

\* A row is written: the room grows by the backup that wrote it.
LEMMA RecordDumpCounts ==
    ASSUME CountInv, DbTypeOK', NEW t \in Takers, RecordDump(t)
    PROVE  CountInv'
<1> DEFINE row == <<dbCount.lastId + 1, taking[t].name>>
<1>1. /\ TakerAt(t, "dumping") /\ TakerAt(t, "recorded")' /\ taking'[t].keep = taking[t].keep
      /\ \A u \in Takers \ {t} : taking'[u] = taking[u]
  BY TakerGoes DEF CountInv, RecordDump, TakerAt, DbSteps
<1>2. /\ dbRows' = dbRows \cup {row} /\ dbCount.lastId \in Nat /\ dbCount.lost \in Nat
      /\ dbCount'.lastId = dbCount.lastId + 1 /\ dbCount'.lost = dbCount.lost
  BY DEF RecordDump, CountInv, DbTypeOK
<1>3. row \notin dbRows /\ \A r \in dbRows : r[1] \in Nat /\ r[1] <= dbCount.lastId
  BY <1>2 DEF CountInv, RowsNumbered, DbTypeOK, Rows
<1>4. row[1] = dbCount.lastId + 1  OBVIOUS
<1> HIDE DEF row
<1>5. IsFiniteSet(dbRows)  BY DEF CountInv, RowsNumbered
<1>6. IsFiniteSet(dbRows') /\ Cardinality(dbRows') = Cardinality(dbRows) + 1
  BY <1>2, <1>3, <1>5, FS_AddElement
<1>7. RowsNumbered'
  BY <1>2, <1>3, <1>4, <1>6 DEF RowsNumbered
<1>8. KeepsKnown'
  <2>1. taking'[t].keep \in Retentions  BY <1>1 DEF CountInv, KeepsKnown, TakerAt
  <2>2. QED  BY <1>1, <2>1, KeepsMoved DEF CountInv, TakerAt
<1>9. t \notin AllRecorded /\ AllRecorded' = AllRecorded \cup {t}
  <2>1. ~Recorded(t) /\ Recorded(t)'  BY <1>1 DEF Recorded, TakerAt
  <2>2. \A u \in Takers \ {t} : Recorded(u)' <=> Recorded(u)  BY <1>1 DEF Recorded
  <2>3. QED  BY <2>1, <2>2 DEF AllRecorded
<1>10. t \notin Pruners' /\ Pruners' = Pruners
  <2>1. t \notin Pruners' /\ t \notin Pruners  BY <1>1 DEF Pruners, TakerAt
  <2>2. \A u \in Takers \ {t} : u \in Pruners' <=> u \in Pruners  BY <1>1 DEF Pruners
  <2>3. QED  BY <2>1, <2>2 DEF Pruners
<1>11. ASSUME NEW Q \in SUBSET Pruners' PROVE Room(Q)' = Room(Q) + 1 /\ Room(Q) \in Nat
  <2>1. IsFiniteSet(AllRecorded \ Q)  BY TakersFinite DEF AllRecorded
  <2>2. AllRecorded' \ Q = (AllRecorded \ Q) \cup {t} /\ t \notin AllRecorded \ Q
    BY <1>9, <1>10
  <2>3. Cardinality(AllRecorded' \ Q) = Cardinality(AllRecorded \ Q) + 1
    BY <2>1, <2>2, FS_AddElement
  <2>4. Cardinality(AllRecorded \ Q) \in Nat  BY <2>1, FS_CardinalityType
  <2>5. QED  BY <1>2, <2>3, <2>4 DEF Room
<1>12. /\ Cardinality(dbRows) \in Nat
       /\ \A u \in Takers : Stay(u) \in Nat /\ Stay(u)' \in Nat
  BY <1>7, <1>8, LeftNat, LeftNatNext DEF CountInv
<1>13. ASSUME NEW u \in Pruners' PROVE Stay(u)' <= Stay(u) + 1
  <2>1. u \in Takers /\ taking'[u] = taking[u]  BY <1>1, <1>10 DEF Pruners
  <2>2. CASE TakerAt(u, "counted")
    <3>1. taking[u].keep \in Int /\ taking[u].keep > 0
      BY <2>1, <2>2 DEF CountInv, DbTypeOK, KeepsKnown
    <3>2. QED  BY <1>6, <1>12, <2>1, <2>2, <3>1 DEF Stay, LeftBy, TakerAt
  <2>3. CASE ~TakerAt(u, "counted")
    <3> DEFINE old == dbRows \ taking[u].doomed
               new == dbRows' \ taking[u].doomed
    <3>1. Stay(u) = Cardinality(old) /\ Stay(u)' = Cardinality(new)
      BY <2>1, <2>3 DEF Stay, LeftBy, TakerAt
    <3>2. IsFiniteSet(old)  BY <1>5, FS_Subset
    <3>3. new \subseteq old \cup {row}  BY <1>2
    <3> HIDE DEF old, new
    <3>4. /\ IsFiniteSet(old \cup {row})
          /\ Cardinality(old \cup {row}) \in {Cardinality(old), Cardinality(old) + 1}
      BY <3>2, FS_AddElement
    <3>5. Cardinality(new) <= Cardinality(old \cup {row})  BY <3>3, <3>4, FS_Subset
    <3>6. QED  BY <1>12, <2>1, <3>1, <3>4, <3>5
  <2>4. QED  BY <2>2, <2>3
<1>14. OnePrunes'
  <2> SUFFICES ASSUME NEW Q \in SUBSET Pruners'
               PROVE  Bounded(Cardinality(dbRows), Q)' \/ \E u \in Q : Bounded(Stay(u), Q)'
    BY DEF OnePrunes
  <2>1. PICK n : n = Room(Q)  OBVIOUS
  <2>2. Room(Q)' = n + 1 /\ n \in Nat  BY <1>11, <2>1
  <2>3. Bounded(Cardinality(dbRows), Q) \/ \E u \in Q : Bounded(Stay(u), Q)
    BY <1>10 DEF CountInv, OnePrunes
  <2>4. CASE Bounded(Cardinality(dbRows), Q)
    <3>1. PICK k \in Retentions : Cardinality(dbRows) <= k + n  BY <2>1, <2>4 DEF Bounded
    <3>2. Cardinality(dbRows') <= k + (n + 1)  BY <1>6, <1>12, <2>2, <3>1, RetentionsNat
    <3>3. QED  BY <2>2, <3>2 DEF Bounded
  <2>5. CASE \E u \in Q : Bounded(Stay(u), Q)
    <3>1. PICK u \in Q, k \in Retentions : Stay(u) <= k + n  BY <2>1, <2>5 DEF Bounded
    <3>2. Stay(u) \in Nat /\ Stay(u)' \in Nat /\ Stay(u)' <= Stay(u) + 1 /\ k \in Nat
      BY <1>12, <1>13, RetentionsNat DEF Pruners
    <3>3. Stay(u)' <= k + (n + 1)  BY <2>2, <3>1, <3>2
    <3>4. QED  BY <2>2, <3>3 DEF Bounded
  <2>6. QED  BY <2>3, <2>4, <2>5
<1>15. QED  BY <1>7, <1>8, <1>14 DEF CountInv

LEMMA KeepOfKnown ==
    ASSUME CountInv, NEW t \in Takers, TakerAt(t, "synced")
    PROVE  KeepOf(t) \in Retentions /\ Surplus(t) = Cardinality(dbRows) - KeepOf(t)
<1>1. taking[t].keep \in Retentions /\ retention \in Retentions
  BY DEF CountInv, KeepsKnown, DbTypeOK, TakerAt
<1>2. ~(taking[t].keep <= 0) /\ ~(retention <= 0)
  <2>1. \A k \in Retentions : k \in Int /\ k >= 1  BY RetentionsNat
  <2>2. QED  BY <1>1, <2>1
<1>3. KeepOf(t) \in Retentions  BY <1>1, <1>2 DEF KeepOf
<1>4. QED  BY <1>3 DEF Surplus

\* The count: nothing to prune, or as much as brings the rows to a retention.
LEMMA CountRowsCounts ==
    ASSUME CountInv, DbTypeOK', NEW t \in Takers, CountRows(t)
    PROVE  CountInv'
<1>1. PICK keep \in Retentions : keep = KeepOf(t) /\ Surplus(t) = Cardinality(dbRows) - keep
  BY KeepOfKnown DEF CountRows, TakerAt
<1>2. Cardinality(dbRows) \in Nat /\ keep \in Nat /\ keep > 0 /\ \A u \in Takers : Stay(u) \in Nat
  BY LeftNat, RetentionsNat DEF CountInv
<1>3. /\ Surplus(t) \in Int
      /\ Surplus(t) <= 0 => taking'[t] = Idle
      /\ Surplus(t) > 0 => TakerAt(t, "counted")' /\ taking'[t].keep = Surplus(t)
      /\ \A u \in Takers \ {t} : taking'[u] = taking[u]
  BY <1>1, <1>2, CountedTo DEF CountInv
<1>4. taking[t].step = "synced" /\ dbRows' = dbRows /\ dbCount' = dbCount
  BY DEF CountRows, storeVars
<1>5. RowsNumbered'  BY <1>4 DEF CountInv, RowsNumbered
<1>6. KeepsKnown'
  BY <1>1, <1>2, <1>3, KeepsMoved, IdleTyped DEF CountInv, TakerAt
<1>7. OnePrunes'
  <2> SUFFICES ASSUME NEW Q \in SUBSET Pruners'
               PROVE  Bounded(Cardinality(dbRows), Q)' \/ \E u \in Q : Bounded(Stay(u), Q)'
    BY DEF OnePrunes
  <2>1. PICK n : n = Room(Q)'  OBVIOUS
  <2>2. n \in Nat
    <3>1. Cardinality(AllRecorded' \ Q) \in Nat  BY TakersFinite DEF AllRecorded
    <3>2. dbCount'.lost \in Nat  BY DEF DbTypeOK
    <3>3. QED  BY <2>1, <3>1, <3>2 DEF Room
  <2>3. CASE Surplus(t) <= 0
    <3>1. Cardinality(dbRows') <= keep + n  BY <1>1, <1>2, <1>4, <2>2, <2>3
    <3>2. QED  BY <2>1, <3>1 DEF Bounded
  <2>4. CASE Surplus(t) > 0 /\ t \in Q
    <3>1. Stay(t)' = keep
      BY <1>1, <1>2, <1>3, <1>4, <2>4 DEF Stay, LeftBy, TakerAt
    <3>2. Stay(t)' <= keep + n  BY <1>2, <2>2, <3>1
    <3>3. QED  BY <2>1, <2>4, <3>2 DEF Bounded
  <2>5. CASE Surplus(t) > 0 /\ t \notin Q
    <3>1. \A u \in Q : u \in Takers \ {t}  BY <2>5 DEF Pruners
    <3>2. Q \in SUBSET Pruners  BY <1>3, <3>1 DEF Pruners
    <3>3. Recorded(t)' /\ Recorded(t)  BY <1>3, <1>4, <2>5 DEF Recorded, TakerAt
    <3>4. AllRecorded' = AllRecorded  BY <1>3, <3>3, RecordedKept
    <3>5. Room(Q) = n  BY <1>4, <2>1, <3>4 DEF Room
    <3>6. \A u \in Q : Stay(u)' = Stay(u)  BY <1>3, <1>4, <3>1 DEF Stay
    <3>7. Bounded(Cardinality(dbRows), Q) \/ \E u \in Q : Bounded(Stay(u), Q)
      BY <3>2 DEF CountInv, OnePrunes
    <3>8. QED  BY <1>4, <2>1, <3>5, <3>6, <3>7 DEF Bounded
  <2>6. QED  BY <1>1, <1>2, <2>3, <2>4, <2>5
<1>8. QED  BY <1>5, <1>6, <1>7 DEF CountInv

LEMMA SelectCounts ==
    ASSUME CountInv, DbTypeOK', NEW t \in Takers, SelectOldest(t)
    PROVE  CountInv'
<1>1. PICK rows \in SUBSET dbRows :
           /\ AreOldest(rows, taking[t].keep)
           /\ taking' = [taking EXCEPT ![t].step = "pruning", ![t].doomed = rows]
  BY DEF SelectOldest
<1>2. rows \in SUBSET Rows /\ "pruning" \in DbSteps  BY DEF CountInv, DbTypeOK, DbSteps
<1>3. /\ TakerAt(t, "pruning")' /\ taking'[t].doomed = rows
      /\ \A u \in Takers \ {t} : taking'[u] = taking[u]
  BY <1>1, <1>2, DoomTo DEF CountInv, TakerAt
<1>4. TakerAt(t, "counted") /\ dbRows' = dbRows /\ dbCount' = dbCount
  BY DEF SelectOldest, TakerAt, storeVars
<1>5. RowsNumbered' /\ KeepsKnown'
  BY <1>3, <1>4, KeepsMoved DEF CountInv, RowsNumbered, TakerAt
<1>6. IsFiniteSet(dbRows) /\ Cardinality(dbRows) \in Nat /\ \A u \in Takers : Stay(u) \in Nat
  BY LeftNat DEF CountInv, RowsNumbered
<1>7. Stay(t)' = Stay(t)
  <2>1. taking[t].keep \in Int /\ taking[t].keep > 0
    BY <1>4 DEF CountInv, DbTypeOK, KeepsKnown
  <2>2. /\ IsFiniteSet(rows)
        /\ Cardinality(dbRows \ rows) = Cardinality(dbRows) - Cardinality(rows)
    <3>1. IsFiniteSet(rows)  BY <1>1, <1>6, FS_Subset
    <3>2. dbRows \cap rows = rows  BY <1>1
    <3>3. Cardinality(dbRows \ rows) = Cardinality(dbRows) - Cardinality(dbRows \cap rows)
      BY <1>6, <3>1, FS_Difference
    <3>4. QED  BY <3>1, <3>2, <3>3
  <2>3. Stay(t)' = Cardinality(dbRows \ rows)
    BY <1>3, <1>4 DEF Stay, LeftBy, TakerAt
  <2>4. QED
    BY <1>1, <1>4, <1>6, <2>1, <2>2, <2>3 DEF AreOldest, Stay, LeftBy, TakerAt
<1>8. \A u \in Takers \ {t} : Stay(u)' = Stay(u)  BY <1>3, <1>4 DEF Stay
<1>9. Pruners' = Pruners  BY <1>3, <1>4 DEF Pruners, TakerAt
<1>10. AllRecorded' = AllRecorded
  BY <1>3, <1>4, RecordedKept DEF Recorded, TakerAt
<1>11. \A u \in Pruners' : Stay(u)' <= Stay(u)  BY <1>6, <1>7, <1>8 DEF Pruners
<1>12. QED  BY <1>4, <1>5, <1>6, <1>9, <1>10, <1>11, PrunesKept

\* The loop of one pruning, beside rows that go by other hands.
LEMMA RowsGo ==
    ASSUME CountInv, DbTypeOK', RowsNumbered', KeepsKnown', dbRows' \subseteq dbRows,
           dbCount'.lost = dbCount.lost, Pruners' = Pruners, AllRecorded' = AllRecorded,
           \A t \in Pruners : /\ TakerAt(t, "counted")' <=> TakerAt(t, "counted")
                              /\ taking'[t].keep = taking[t].keep
                              /\ dbRows' \ taking'[t].doomed \subseteq dbRows \ taking[t].doomed
    PROVE  CountInv'
<1>1. IsFiniteSet(dbRows)  BY DEF CountInv, RowsNumbered
<1>2. IsFiniteSet(dbRows') /\ Cardinality(dbRows') <= Cardinality(dbRows)  BY <1>1, FS_Subset
<1>3. /\ Cardinality(dbRows) \in Nat /\ Cardinality(dbRows') \in Nat
      /\ \A u \in Takers : Stay(u) \in Nat /\ Stay(u)' \in Nat
  BY LeftNat, LeftNatNext DEF CountInv
<1>4. ASSUME NEW t \in Pruners' PROVE Stay(t)' <= Stay(t)
  <2>1. t \in Takers  BY DEF Pruners
  <2>2. CASE TakerAt(t, "counted")
    <3>1. taking[t].keep \in Int /\ taking[t].keep > 0
      BY <2>1, <2>2 DEF CountInv, DbTypeOK, KeepsKnown
    <3>2. QED  BY <1>2, <1>3, <2>2, <3>1 DEF Stay, LeftBy, TakerAt
  <2>3. CASE ~TakerAt(t, "counted")
    <3>1. /\ Stay(t) = Cardinality(dbRows \ taking[t].doomed)
          /\ Stay(t)' = Cardinality(dbRows' \ taking'[t].doomed)
      BY <2>3 DEF Stay, LeftBy, TakerAt
    <3>2. IsFiniteSet(dbRows \ taking[t].doomed)  BY <1>1, FS_Subset
    <3>3. dbRows' \ taking'[t].doomed \subseteq dbRows \ taking[t].doomed  OBVIOUS
    <3>4. QED  BY <3>1, <3>2, <3>3, FS_Subset
  <2>4. QED  BY <2>2, <2>3
<1>5. QED  BY <1>2, <1>4, PrunesKept

LEMMA RemoveFileCounts ==
    ASSUME CountInv, DbTypeOK', NEW t \in Takers, RemoveOldFile(t)
    PROVE  CountInv'
<1>1. /\ taking'[t].step = "dropping" /\ taking[t].step = "pruning"
      /\ taking'[t].doomed = taking[t].doomed /\ taking'[t].keep = taking[t].keep
      /\ \A u \in Takers \ {t} : taking'[u] = taking[u]
  BY TakerGoes DEF CountInv, RemoveOldFile, DbSteps
<1>2. dbRows' = dbRows /\ dbCount' = dbCount  BY DEF RemoveOldFile
<1>3. RowsNumbered' /\ KeepsKnown'
  BY <1>1, <1>2, KeepsMoved DEF CountInv, RowsNumbered
<1>4. Pruners' = Pruners  BY <1>1 DEF Pruners
<1>5. AllRecorded' = AllRecorded  BY <1>1, RecordedKept DEF Recorded
<1>6. \A u \in Pruners : /\ TakerAt(u, "counted")' <=> TakerAt(u, "counted")
                         /\ taking'[u].keep = taking[u].keep
                         /\ dbRows' \ taking'[u].doomed \subseteq dbRows \ taking[u].doomed
  BY <1>1, <1>2 DEF Pruners, TakerAt
<1>7. QED  BY <1>2, <1>3, <1>4, <1>5, <1>6, RowsGo

LEMMA DropRowCounts ==
    ASSUME CountInv, DbTypeOK', NEW t \in Takers, DropOldRow(t)
    PROVE  CountInv'
<1>1. PICK row \in taking[t].doomed :
           /\ dbRows' = dbRows \ {row}
           /\ taking' = [taking EXCEPT ![t].step = "pruning", ![t].doomed = @ \ {row}]
  BY DEF DropOldRow
<1>2. /\ taking'[t].step = "pruning" /\ taking[t].step = "dropping"
      /\ taking'[t].doomed = taking[t].doomed \ {row}
      /\ \A u \in Takers \ {t} : taking'[u] = taking[u]
  BY <1>1, DropTo DEF CountInv, TakerAt, DropOldRow
<1>3. taking'[t].keep = taking[t].keep  BY <1>1 DEF CountInv, DbTypeOK
<1>4. dbCount' = dbCount  BY DEF DropOldRow
<1>5. IsFiniteSet(dbRows')  BY <1>1, FS_Subset DEF CountInv, RowsNumbered
<1>6. RowsNumbered' /\ KeepsKnown'
  BY <1>1, <1>2, <1>4, <1>5, KeepsMoved DEF CountInv, RowsNumbered
<1>7. Pruners' = Pruners  BY <1>2 DEF Pruners
<1>8. AllRecorded' = AllRecorded  BY <1>2, RecordedKept DEF Recorded
<1>9. \A u \in Pruners : /\ TakerAt(u, "counted")' <=> TakerAt(u, "counted")
                         /\ taking'[u].keep = taking[u].keep
                         /\ dbRows' \ taking'[u].doomed \subseteq dbRows \ taking[u].doomed
  BY <1>1, <1>2, <1>3 DEF Pruners, TakerAt
<1>10. QED  BY <1>1, <1>4, <1>6, <1>7, <1>8, <1>9, RowsGo

LEMMA HandlerCounts == ASSUME CountInv, DbTypeOK', Handlers PROVE CountInv'
<1>1. taking' = taking  BY HandlerTypes DEF CountInv
<1>2. dbRows' \subseteq dbRows
  BY DEF Handlers, DeleteFile, DeleteRows, SaveRetention, SaveMirror, RenameSite, AskRestore,
         UploadRestore, StartRestore, EndRestore, Second, storeVars
<1>3. dbCount'.lastId = dbCount.lastId /\ dbCount'.lost = dbCount.lost
  <2>1. Edit \/ dbCount' = dbCount
    BY DEF Handlers, DeleteFile, DeleteRows, SaveRetention, SaveMirror, RenameSite, AskRestore,
           UploadRestore, StartRestore, EndRestore, Second
  <2>2. QED  BY <2>1, EditCounts DEF CountInv
<1>4. IsFiniteSet(dbRows')  BY <1>2, FS_Subset DEF CountInv, RowsNumbered
<1>5. RowsNumbered' /\ KeepsKnown'
  BY <1>1, <1>2, <1>3, <1>4 DEF CountInv, RowsNumbered, KeepsKnown, TakerAt
<1>6. Pruners' = Pruners /\ AllRecorded' = AllRecorded
  BY <1>1 DEF Pruners, AllRecorded, Recorded
<1>7. \A u \in Pruners : /\ TakerAt(u, "counted")' <=> TakerAt(u, "counted")
                         /\ taking'[u].keep = taking[u].keep
                         /\ dbRows' \ taking'[u].doomed \subseteq dbRows \ taking[u].doomed
  BY <1>1, <1>2 DEF TakerAt
<1>8. QED  BY <1>2, <1>3, <1>5, <1>6, <1>7, RowsGo

\* A pruning that ends has brought the rows to what it left.
LEMMA PruneEndsCounts ==
    ASSUME CountInv, DbTypeOK', NEW t \in Takers, PruneEnds(t)
    PROVE  CountInv'
<1>1. /\ TakerAt(t, "pruning") /\ taking[t].doomed = {} /\ TakerAt(t, "idle")'
      /\ \A u \in Takers \ {t} : taking'[u] = taking[u]
  BY TakerStops, IdleTyped DEF CountInv, PruneEnds, TakerAt
<1>2. dbRows' = dbRows /\ dbCount' = dbCount  BY DEF PruneEnds, storeVars
<1>3. RowsNumbered' /\ KeepsKnown'
  BY <1>1, <1>2, KeepsMoved DEF CountInv, RowsNumbered, TakerAt
<1>4. t \in Pruners /\ Pruners' = Pruners \ {t}  BY <1>1 DEF Pruners, TakerAt
<1>5. AllRecorded' = AllRecorded \ {t}
  <2>1. ~Recorded(t)'  BY <1>1 DEF Recorded, TakerAt
  <2>2. \A u \in Takers \ {t} : Recorded(u)' <=> Recorded(u)  BY <1>1 DEF Recorded
  <2>3. QED  BY <2>1, <2>2 DEF AllRecorded
<1>6. Stay(t) = Cardinality(dbRows)
  <2>1. dbRows \ {} = dbRows  OBVIOUS
  <2>2. QED  BY <1>1, <2>1 DEF Stay, LeftBy, TakerAt
<1>7. ASSUME NEW Q \in SUBSET Pruners'
      PROVE  Bounded(Cardinality(dbRows), Q)' \/ \E u \in Q : Bounded(Stay(u), Q)'
  <2> DEFINE both == Q \cup {t}
  <2>1. both \in SUBSET Pruners  BY <1>4
  <2>2. AllRecorded' \ Q = AllRecorded \ both  BY <1>5
  <2>3. Room(Q)' = Room(both)
    <3> HIDE DEF both
    <3>1. QED  BY <1>2, <2>2 DEF Room
  <2>4. Bounded(Cardinality(dbRows), both) \/ \E u \in both : Bounded(Stay(u), both)
    BY <2>1 DEF CountInv, OnePrunes
  <2>5. Bounded(Cardinality(dbRows), both) \/ \E u \in Q : Bounded(Stay(u), both)
    BY <1>6, <2>4
  <2>6. \A u \in Q : Stay(u)' = Stay(u)  BY <1>1, <1>2, <1>4 DEF Stay, Pruners
  <2> HIDE DEF both
  <2>7. QED  BY <1>2, <2>3, <2>5, <2>6 DEF Bounded
<1>8. OnePrunes'  BY <1>7 DEF OnePrunes
<1>9. QED  BY <1>3, <1>8 DEF CountInv

LEMMA StopCounts == ASSUME CountInv, PanelStops PROVE CountInv'
<1>1. /\ DbTypeOK' /\ \A t \in Takers : taking'[t].step = "idle"
      /\ dbCount'.lost = dbCount.lost + Cardinality(AllRecorded)
      /\ dbCount'.lastId = dbCount.lastId
  BY StopTypes, IdleTyped DEF CountInv
<1>2. dbRows' = dbRows  BY DEF PanelStops, storeVars
<1>3. RowsNumbered' /\ KeepsKnown'
  BY <1>1, <1>2 DEF CountInv, RowsNumbered, KeepsKnown, TakerAt
<1>4. Pruners' = {} /\ AllRecorded' = {}  BY <1>1 DEF Pruners, AllRecorded, Recorded
<1>5. Bounded(Cardinality(dbRows), {})
  <2>1. {} \in SUBSET Pruners  OBVIOUS
  <2>2. QED  BY <2>1 DEF CountInv, OnePrunes
<1>6. Room({})' = Room({})
  <2>1. AllRecorded \ {} = AllRecorded /\ AllRecorded' \ {} = {}  BY <1>4
  <2>2. Cardinality({}) = 0  BY FS_EmptySet
  <2>3. dbCount.lost \in Nat /\ Cardinality(AllRecorded) \in Nat
    BY TakersFinite DEF CountInv, DbTypeOK, AllRecorded
  <2>4. Room({}) = dbCount.lost + Cardinality(AllRecorded)  BY <2>1 DEF Room
  <2>5. Room({})' = dbCount'.lost + Cardinality({})  BY <2>1 DEF Room
  <2>6. QED  BY <1>1, <2>2, <2>3, <2>4, <2>5
<1>7. Bounded(Cardinality(dbRows), {})'  BY <1>2, <1>5, <1>6 DEF Bounded
<1>8. OnePrunes'  BY <1>4, <1>7 DEF OnePrunes
<1>9. QED  BY <1>1, <1>3, <1>8 DEF CountInv

LEMMA BackupCounts == ASSUME CountInv, DbTypeOK', NEW t \in Takers, TakeBackup(t) PROVE CountInv'
<1>1. CASE AskBackup(t)
  <2>1. /\ taking[t].step = "idle" /\ taking'[t].step = "asked" /\ taking'[t].keep \in Retentions
        /\ \A u \in Takers \ {t} : taking'[u] = taking[u]
    BY <1>1, AskedTo DEF AskBackup, CountInv, DbTypeOK, TakerAt
  <2>2. dbCount'.lastId = dbCount.lastId /\ dbCount'.lost = dbCount.lost
    BY <1>1 DEF AskBackup, CountInv, DbTypeOK
  <2>3. QED  BY <1>1, <2>1, <2>2, BesidePruning DEF AskBackup, Recorded, storeVars
<1>2. CASE StartDump(t)
  <2>1. /\ taking[t].step = "asked" /\ taking'[t].step = "dumping"
        /\ taking'[t].keep = taking[t].keep /\ \A u \in Takers \ {t} : taking'[u] = taking[u]
    BY <1>2, DumpingTo DEF StartDump, CountInv, TakerAt
  <2>2. taking'[t].keep \in Retentions  BY <2>1 DEF CountInv, KeepsKnown
  <2>3. QED  BY <1>2, <2>1, <2>2, BesidePruning DEF StartDump, Recorded
<1>3. CASE DumpFails(t) \/ RecordFails(t)
  <2>1. taking[t].step = "dumping" /\ taking' = [taking EXCEPT ![t] = Idle]
    BY <1>3 DEF DumpFails, RecordFails
  <2>2. taking'[t].step = "idle" /\ \A u \in Takers \ {t} : taking'[u] = taking[u]
    BY <2>1, TakerStops, IdleTyped DEF CountInv
  <2>3. QED
    BY <1>3, <2>1, <2>2, BesidePruning DEF DumpFails, RecordFails, Recorded, storeVars
<1>4. CASE SyncBackup(t)
  <2>1. /\ taking[t].step = "recorded" /\ taking'[t].step = "synced"
        /\ taking'[t].keep = taking[t].keep /\ \A u \in Takers \ {t} : taking'[u] = taking[u]
    BY <1>4, TakerGoes DEF SyncBackup, CountInv, DbSteps
  <2>2. taking'[t].keep \in Retentions  BY <2>1 DEF CountInv, KeepsKnown
  <2>3. QED  BY <1>4, <2>1, <2>2, BesidePruning DEF SyncBackup, Recorded
<1>5. QED
  BY <1>1, <1>2, <1>3, <1>4, RecordDumpCounts, CountRowsCounts, SelectCounts,
     RemoveFileCounts, DropRowCounts, PruneEndsCounts DEF TakeBackup

----------------------------------------------------------------------------
DbInv == CopyInv /\ CountInv

LEMMA DbInit == ASSUME InitDb PROVE DbInv
<1>1. \A t \in Takers : taking[t] = Idle  BY DEF InitDb
<1>2. DbTypeOK
  <2>1. taking \in [Takers -> Backup]  BY IdleTyped DEF InitDb
  <2>2. /\ uses \in [Names -> Nat] /\ 0 \in 0..MaxSeconds /\ 0 \in 0..MaxBackups
        /\ 0 \in 0..MaxDbEdits
    BY DbAssumption DEF InitDb
  <2>3. retention \in Retentions /\ retention \in 1..30  BY RetentionsNat DEF InitDb
  <2>4. QED  BY <2>1, <2>2, <2>3 DEF InitDb, DbTypeOK, Backup, Domains
<1>3. CopyInv
  BY <1>1, <1>2, IdleTyped
     DEF CopyInv, RowsCovered, DumpsCovered, CopiesCovered, RemovalsChosen, TakerAt, InitDb
<1>4. RowsNumbered /\ Cardinality(dbRows) = 0  BY FS_EmptySet DEF InitDb, RowsNumbered
<1>5. KeepsKnown  BY <1>1, IdleTyped DEF KeepsKnown, TakerAt
<1>6. OnePrunes
  <2> SUFFICES ASSUME NEW Q \in SUBSET Pruners PROVE Bounded(Cardinality(dbRows), Q)
    BY DEF OnePrunes
  <2>1. PICK n : n = Room(Q)  OBVIOUS
  <2>2. n \in Nat  BY <1>2, <2>1, RoomNat
  <2>3. retention \in Retentions /\ 0 <= retention + n
    BY <1>2, <2>2, RetentionsNat DEF DbTypeOK
  <2>4. QED  BY <1>4, <2>1, <2>3 DEF Bounded
<1>7. QED  BY <1>2, <1>3, <1>4, <1>5, <1>6 DEF DbInv, CountInv

LEMMA DbStep == ASSUME DbInv, [NextDb]_varsDb PROVE DbInv'
<1> USE DEF DbInv
<1>1. CASE \E t \in Takers : TakeBackup(t)
  <2>1. PICK t \in Takers : TakeBackup(t)  BY <1>1
  <2>2. TakerAt(t, "dumping") \/ TakerAt(t, "recorded") => taking[t].name \in Names
    BY DEF CopyInv, DumpsCovered, CopiesCovered
  <2>3. TakerAt(t, "synced") => Surplus(t) \in Int
    <3>1. Cardinality(dbRows) \in Nat  BY LeftNat DEF CountInv
    <3>2. ASSUME TakerAt(t, "synced")
          PROVE  KeepOf(t) \in Retentions /\ Surplus(t) = Cardinality(dbRows) - KeepOf(t)
      BY <3>2, KeepOfKnown
    <3>3. \A k \in Retentions : k \in Int  BY RetentionsNat
    <3>4. QED  BY <3>1, <3>2, <3>3
  <2>4. DbTypeOK'  BY <2>1, <2>2, <2>3, TakeTypes DEF CopyInv
  <2>5. QED  BY <2>1, <2>4, BackupCopies, BackupCounts
<1>2. CASE Handlers
  <2>1. DbTypeOK'  BY <1>2, HandlerTypes DEF CopyInv
  <2>2. QED  BY <1>2, <2>1, HandlerCopies, HandlerCounts
<1>3. CASE PanelStops  BY <1>3, StopCopies, StopCounts
<1>4. CASE UNCHANGED varsDb
  <2>1. DbTypeOK'
    BY <1>4 DEF CopyInv, DbTypeOK, varsDb
  <2>2. CopyInv'
    BY <1>4, <2>1 DEF CopyInv, RowsCovered, DumpsCovered, CopiesCovered, RemovalsChosen,
                      OnlyCopy, HasCopy, PathOf, TakerAt, varsDb
  <2>3. CountInv'
    BY <1>4, <2>1 DEF CountInv, RowsNumbered, KeepsKnown, OnePrunes, Bounded, Room, Stay,
                      Pruners, AllRecorded, Recorded, TakerAt, varsDb
  <2>4. QED  BY <2>2, <2>3
<1>5. QED  BY <1>1, <1>2, <1>3, <1>4 DEF NextDb, Handlers

\* Types, the copies of the rows and the counts behind the retention, together.
THEOREM DbInvariant == SpecDb => []DbInv
<1>1. QED  BY DbInit, DbStep, PTL DEF SpecDb

\* Each variable has its type.
THEOREM DbTyping == SpecDb => []DbTypeOK
<1>1. DbInv => DbTypeOK  BY DEF DbInv, CopyInv
<1>2. QED  BY <1>1, DbInvariant, PTL

\* The row of a database backup has its file, here or on the remote server,
\* until it is chosen for removal (RowHasCopy of DbBackups), however backups,
\* copies, prunings, deletions, renames, failures and restarts interleave.
THEOREM DumpsKeepCopy == SpecDb => []RowHasCopy
<1>1. ASSUME DbInv PROVE RowHasCopy
  BY <1>1 DEF DbInv, CopyInv, RowsCovered, RowHasCopy, OnlyCopy, NamesOf, DbTypeOK, Rows
<1>2. QED  BY <1>1, DbInvariant, PTL

\* The rows of a site exceed a retention in use by no more than the backups
\* that still have their pruning before them or lost it (RetentionBounded).
THEOREM DumpsStayBounded == SpecDb => []RetentionBounded
<1>1. ASSUME DbInv PROVE RetentionBounded
  <2>1. {} \in SUBSET Pruners  OBVIOUS
  <2>2. Bounded(Cardinality(dbRows), {})
    BY <1>1, <2>1 DEF DbInv, CountInv, OnePrunes
  <2>3. Room({}) = dbCount.lost + Cardinality({t \in Takers : Recorded(t)})
    <3>1. AllRecorded \ {} = {t \in Takers : Recorded(t)}  BY DEF AllRecorded
    <3>2. QED  BY <3>1 DEF Room
  <2>4. PICK k \in Retentions : Cardinality(dbRows) <= k + Room({})  BY <2>2 DEF Bounded
  <2>5. /\ k \in Nat /\ dbCount.lost \in Nat
        /\ Cardinality({t \in Takers : Recorded(t)}) \in Nat
    BY <1>1, RetentionsNat, TakersFinite DEF DbInv, CopyInv, DbTypeOK
  <2>6. Cardinality(dbRows) <= k + dbCount.lost + Cardinality({t \in Takers : Recorded(t)})
    BY <2>3, <2>4, <2>5
  <2>7. QED  BY <2>6 DEF RetentionBounded
<1>2. QED  BY <1>1, DbInvariant, PTL

==============================================================================
