---------------------------- MODULE FileBackups ----------------------------
(* The file backups of one site (executor/file_backup.go).  A backup runs   *)
(* in the worker of the panel or in a process of its own that cron starts   *)
(* (main.go, --file-backup); a lock file in /tmp keeps them one at a time.  *)
(* A full backup archives the site, an incremental one what find reports as *)
(* newer than the stamp file, and the stamp is written after the archive.   *)
EXTENDS Integers, FiniteSets, Sequences, SequencesExt

CONSTANTS
  Runners,         \* the worker and the command line processes
  Uploads,         \* files under wp-content/uploads
  KeepFulls,       \* keep_count of the job
  MaxRuns,         \* bound: backups started
  MaxWrites,       \* bound: uploads written
  MaxKills         \* bound: processes that die

ASSUME FilesAssumption ==
  /\ KeepFulls \in Nat \ {0}
  /\ MaxRuns \in Nat /\ MaxWrites \in Nat /\ MaxKills \in Nat

VARIABLES
  fileLock,        \* the lock file: who made it, with its pid, still alive
  run,             \* per runner: where its backup stands
  fulls,           \* full archives in the directory, oldest change first
  remoteFulls,     \* are there full archives on the remote server?
  sending,         \* remote_backup_settings: "off", "keep" or "move"
  stamped,         \* the stamp file exists
  newer,           \* uploads newer than the stamp file
  unsaved,         \* uploads whose last content is in no archive
  fullDone,        \* history: a full backup has succeeded
  stolen,          \* history: a lock that a living runner held was removed
  fbCount          \* bounds: runs, writes, kills

varsFb == <<fileLock, run, fulls, remoteFulls, sending, stamped, newer, unsaved,
            fullDone, stolen, fbCount>>
archiveVars == <<fulls, remoteFulls, fullDone>>
uploadVars == <<stamped, newer, unsaved>>

Resting == [step |-> "idle", full |-> FALSE, taken |-> {}]
Inside(r) == run[r].step \in {"blank", "locked", "archiving", "archived", "stamped", "kept"}

NoLock == [by |-> "none", pid |-> FALSE, alive |-> FALSE]

InitFb ==
  /\ fileLock = NoLock
  /\ run = [r \in Runners |-> Resting]
  /\ fulls = <<>> /\ remoteFulls = FALSE
  /\ sending \in {"off", "move"}
  /\ stamped = FALSE
  /\ newer = Uploads /\ unsaved = Uploads
  /\ fullDone = FALSE /\ stolen = FALSE
  /\ fbCount = [runs |-> 0, writes |-> 0, kills |-> 0]

At(r, step) == run' = [run EXCEPT ![r].step = step]
Leave(r) == run' = [run EXCEPT ![r] = Resting]

----------------------------------------------------------------------------
(* The lock file.                                                           *)

\* A full backup is asked for, or an incremental one.
AskFileBackup(r) ==
  /\ run[r].step = "idle" /\ fbCount.runs < MaxRuns
  /\ \E full \in BOOLEAN :
       run' = [run EXCEPT ![r] = [Resting EXCEPT !.step = "waiting", !.full = full]]
  /\ fbCount' = [fbCount EXCEPT !.runs = @ + 1]
  /\ UNCHANGED <<fileLock, archiveVars, sending, uploadVars, stolen>>

\* Mutant: the file is opened without O_EXCL.
CreateLockAnyway(r) ==
  /\ run[r].step = "waiting"
  /\ fileLock' = [by |-> r, pid |-> FALSE, alive |-> TRUE]
  /\ At(r, "blank")
  /\ UNCHANGED <<archiveVars, sending, uploadVars, stolen, fbCount>>

\* O_CREATE | O_EXCL: only one runner makes the file, empty at first.
CreateLock(r) ==
  /\ run[r].step = "waiting" /\ fileLock = NoLock
  /\ fileLock' = [by |-> r, pid |-> FALSE, alive |-> TRUE]
  /\ At(r, "blank")
  /\ UNCHANGED <<archiveVars, sending, uploadVars, stolen, fbCount>>

WritePid(r) ==
  /\ run[r].step = "blank"
  /\ fileLock' = [fileLock EXCEPT !.pid = @ \/ fileLock.by = r]
  /\ At(r, "locked")
  /\ UNCHANGED <<archiveVars, sending, uploadVars, stolen, fbCount>>

\* A pid that /proc does not know; an empty file is never taken for stale.
FindDead(r) ==
  /\ run[r].step = "waiting" /\ fileLock.pid /\ ~fileLock.alive
  /\ At(r, "clearing")
  /\ UNCHANGED <<fileLock, archiveVars, sending, uploadVars, stolen, fbCount>>

\* The removal names the path: by now the file may be another runner's.
ClearLock(r) ==
  /\ run[r].step = "clearing"
  /\ fileLock' = NoLock
  /\ stolen' = (stolen \/ \E o \in Runners \ {r} : Inside(o))
  /\ At(r, "waiting")
  /\ UNCHANGED <<archiveVars, sending, uploadVars, fbCount>>

\* 1440 tries of five seconds.
WaitedTooLong(r) ==
  /\ run[r].step = "waiting" /\ fileLock # NoLock
  /\ Leave(r)
  /\ UNCHANGED <<fileLock, archiveVars, sending, uploadVars, stolen, fbCount>>

----------------------------------------------------------------------------
(* The backup.                                                              *)

\* No site, no disk space, no uploads directory: the lock goes, nothing else.
RefuseBackup(r) ==
  /\ run[r].step = "locked"
  /\ Leave(r) /\ fileLock' = NoLock
  /\ UNCHANGED <<archiveVars, sending, uploadVars, stolen, fbCount>>

\* tar, or find, reads the files; the archive exists from here on.  Without a
\* stamp every backup is full.
Archive(r) ==
  LET full == run[r].full \/ ~stamped IN
  /\ run[r].step = "locked"
  /\ full \/ newer # {}
  /\ run' = [run EXCEPT ![r] = [step |-> "archiving", full |-> full,
                                taken |-> IF full THEN Uploads ELSE newer]]
  /\ fulls' = IF full THEN Append(fulls, [by |-> r, good |-> FALSE]) ELSE fulls
  /\ UNCHANGED <<fileLock, remoteFulls, fullDone, sending, uploadVars, stolen, fbCount>>

\* find reports nothing: the stamp is renewed and the backup is skipped.
NothingNew(r) ==
  /\ run[r].step = "locked" /\ ~run[r].full /\ stamped /\ newer = {}
  /\ Leave(r) /\ fileLock' = NoLock
  /\ UNCHANGED <<archiveVars, sending, uploadVars, stolen, fbCount>>

\* tar fails and leaves what it wrote.
ArchiveFails(r) ==
  /\ run[r].step = "archiving"
  /\ Leave(r) /\ fileLock' = NoLock
  /\ UNCHANGED <<archiveVars, sending, uploadVars, stolen, fbCount>>

\* The last entry of this runner becomes a good archive.
Mine(r) == {i \in DOMAIN fulls : fulls[i].by = r /\ ~fulls[i].good}
ArchiveEnds(r) ==
  /\ run[r].step = "archiving"
  /\ unsaved' = unsaved \ run[r].taken
  /\ fulls' = IF run[r].full /\ Mine(r) # {}
              THEN LET i == CHOOSE i \in Mine(r) : \A j \in Mine(r) : j <= i
                   IN  Append(RemoveAt(fulls, i), [by |-> r, good |-> TRUE])
              ELSE fulls
  /\ At(r, "archived")
  /\ UNCHANGED <<fileLock, remoteFulls, fullDone, sending, stamped, newer, stolen, fbCount>>

WriteStamp(r) ==
  /\ run[r].step = "archived"
  /\ stamped' = TRUE /\ newer' = {}
  /\ fullDone' = (fullDone \/ run[r].full)
  /\ At(r, "stamped")
  /\ UNCHANGED <<fileLock, fulls, remoteFulls, sending, unsaved, stolen, fbCount>>

Newest(s, n) == IF Len(s) <= n THEN s ELSE SubSeq(s, Len(s) - n + 1, Len(s))
\* Mutant: the order of the removal is turned round.
Oldest(s, n) == IF Len(s) <= n THEN s ELSE SubSeq(s, 1, n)

CleanFullsWrong(r) ==
  /\ run[r].step = "stamped"
  /\ fulls' = IF run[r].full THEN Oldest(fulls, KeepFulls) ELSE fulls
  /\ At(r, "kept")
  /\ UNCHANGED <<fileLock, remoteFulls, fullDone, sending, uploadVars, stolen, fbCount>>

\* cleanOldBackups: only full archives, by the time of their last change.
CleanFulls(r) ==
  /\ run[r].step = "stamped"
  /\ fulls' = IF run[r].full THEN Newest(fulls, KeepFulls) ELSE fulls
  /\ At(r, "kept")
  /\ UNCHANGED <<fileLock, remoteFulls, fullDone, sending, uploadVars, stolen, fbCount>>

\* The copy to the remote server, then the deferred removal of the lock file,
\* whoever made it.
Own(r) == {i \in DOMAIN fulls : fulls[i].by = r /\ fulls[i].good}
SendArchive(r) ==
  /\ run[r].step = "kept"
  /\ \/ UNCHANGED <<fulls, remoteFulls>>
     \/ /\ sending # "off" /\ run[r].full /\ Own(r) # {}
        /\ remoteFulls' = TRUE
        /\ LET i == CHOOSE i \in Own(r) : \A j \in Own(r) : j <= i IN
           fulls' = IF sending = "move" THEN RemoveAt(fulls, i) ELSE fulls
  /\ Leave(r) /\ fileLock' = NoLock
  /\ UNCHANGED <<fullDone, sending, uploadVars, stolen, fbCount>>

----------------------------------------------------------------------------
(* Outside.                                                                 *)

\* An upload is written, at any time; a reader that had it does not have this.
WriteUpload(f) ==
  /\ fbCount.writes < MaxWrites
  /\ newer' = newer \cup {f} /\ unsaved' = unsaved \cup {f}
  /\ run' = [r \in Runners |-> [run[r] EXCEPT !.taken = @ \ {f}]]
  /\ fbCount' = [fbCount EXCEPT !.writes = @ + 1]
  /\ UNCHANGED <<fileLock, archiveVars, sending, stamped, stolen>>

\* The process of a runner dies: its lock file stays, with a pid or without.
Killed(r) ==
  /\ fbCount.kills < MaxKills /\ run[r].step # "idle"
  /\ Leave(r)
  /\ fileLock' = [fileLock EXCEPT !.alive = @ /\ fileLock.by # r]
  /\ fbCount' = [fbCount EXCEPT !.kills = @ + 1]
  /\ UNCHANGED <<archiveVars, sending, uploadVars, stolen>>

RunBackup(r) ==
  \/ AskFileBackup(r) \/ CreateLock(r) \/ WritePid(r) \/ FindDead(r)
  \/ ClearLock(r) \/ WaitedTooLong(r) \/ RefuseBackup(r) \/ Archive(r)
  \/ NothingNew(r) \/ ArchiveFails(r) \/ ArchiveEnds(r) \/ WriteStamp(r)
  \/ CleanFulls(r) \/ SendArchive(r) \/ Killed(r)

NextFb == (\E r \in Runners : RunBackup(r)) \/ (\E f \in Uploads : WriteUpload(f))

SpecFb == InitFb /\ [][NextFb]_varsFb

----------------------------------------------------------------------------
\* Each variable has its type.
FbTypeOK ==
  /\ fileLock \in [by : Runners \cup {"none"}, pid : BOOLEAN, alive : BOOLEAN]
  /\ run \in [Runners -> [step : {"idle", "waiting", "clearing", "blank", "locked", "archiving",
                                  "archived", "stamped", "kept"},
                          full : BOOLEAN, taken : SUBSET Uploads]]
  /\ fulls \in Seq([by : Runners, good : BOOLEAN])
  /\ {remoteFulls, stamped, fullDone, stolen} \subseteq BOOLEAN
  /\ sending \in {"off", "keep", "move"}
  /\ newer \subseteq Uploads /\ unsaved \subseteq Uploads
  /\ fbCount \in [runs : 0..MaxRuns, writes : 0..MaxWrites, kills : 0..MaxKills]

\* The lock file keeps the backups one at a time, over waits, refusals, failed
\* archives and dead holders, unless two waiters that both found a dead holder
\* cleared it one after the other (stolen).
OneFileBackup ==
  stolen \/ \A r, o \in Runners : Inside(r) /\ Inside(o) => r = o

\* Once a full backup has succeeded the site always has a whole full archive,
\* here or on the remote server: neither the pruning, which counts the
\* remains of failed and killed backups too, nor the copy takes the last one.
FullSurvives ==
  fullDone /\ ~stolen =>
    remoteFulls \/ \E i \in DOMAIN fulls : fulls[i].good

\* What templates/cron.html:124 says of the incremental mode: it takes what was
\* added or changed since the last backup.  So, when no backup is under way, a
\* file that no archive holds is newer than the stamp.
IncrementalIsComplete ==
  (\A r \in Runners : run[r].step = "idle") => unsaved \subseteq newer
=============================================================================
