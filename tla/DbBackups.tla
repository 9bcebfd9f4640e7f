----------------------------- MODULE DbBackups -----------------------------
(* The database backups of one site: the backup task of the queue           *)
(* (executor/backup.go, executeCreateBackup), the batch of 04:00 or of the  *)
(* command line (executeAutoBackups), which runs beside the queue, the      *)
(* copy to the remote server (remote_sync.go), the pruning of old backups,  *)
(* and the handlers that delete, restore, clear and configure               *)
(* (handlers/backup.go, handlers/remote_backup.go).                         *)
(*                                                                          *)
(* A backup is a row of db_backups and a file <domain>_<second>.sql.gz in   *)
(* the directory of the domain the site had when the backup was asked for.  *)
(* Nothing keeps the two together but the order of the steps.  A file is a  *)
(* pair <<directory, name>>, a name a pair <<domain, second>>.              *)
EXTENDS Integers, FiniteSets

CONSTANTS
  Worker,          \* the worker of the task queue: backups and restores
  Batches,         \* the automatic batches: the scheduler, a command line
  Keeps,           \* the retention counts an administrator asks for
  Mirrors,         \* the settings of the remote copy: off, keep, move
  MaxSeconds,      \* bound: seconds the clock advances
  MaxBackups,      \* bound: backups asked for
  MaxDbEdits       \* bound: settings saved, renames, deletions, restarts

ASSUME DbAssumption ==
  /\ Worker \notin Batches /\ IsFiniteSet(Batches)
  /\ Keeps \subseteq Int
  /\ Mirrors \subseteq {"off", "keep", "move"}
  /\ MaxSeconds \in Nat /\ MaxBackups \in Nat /\ MaxDbEdits \in Nat

VARIABLES
  dbRows,          \* db_backups of the site: pairs <<id, name>>
  dbLocal,         \* the files under the backups directory
  dbRemote,        \* the files the remote server received
  retention,       \* backup_settings: keep_count
  mirror,          \* remote_backup_settings: "off", "keep" or "move"
  siteDomain,      \* which of the two domains the site has now
  dbClock,         \* the second of the wall clock
  taking,          \* per actor, where its backup stands
  deleting,        \* the name the Delete handler is removing
  restoring,       \* the restore: where it stands and its file
  uses,            \* history: how many backups took a name
  condemned,       \* history: names chosen for removal
  dbCount          \* the last id given; bounds: backups asked, edits, and
                   \* the backups whose pruning a restart lost

varsDb == <<dbRows, dbLocal, dbRemote, retention, mirror, siteDomain, dbClock,
            taking, deleting, restoring, uses, condemned, dbCount>>
storeVars == <<dbRows, dbLocal, dbRemote>>
confVars == <<retention, mirror, siteDomain, dbClock>>
helpVars == <<deleting, restoring>>

Takers == Batches \cup {Worker}
Domains == {0, 1}
Names == Domains \X (0..MaxSeconds)
Files == Domains \X Names
NoName == <<>>
Rows == Nat \X Names
Idle == [step |-> "idle", dir |-> 0, name |-> NoName, keep |-> 0, doomed |-> {}]
NamesOf(rows) == {r[2] : r \in rows}

\* Mutant: only the upper end is brought in.
ClampHigh(k) == IF k > 30 THEN 30 ELSE k
\* UpdateSettings brings keep_count into 1..30.
Clamp(k) == IF k < 1 THEN 1 ELSE IF k > 30 THEN 30 ELSE k

Retentions == {Clamp(k) : k \in Keeps}

InitDb ==
  /\ dbRows = {} /\ dbLocal = {} /\ dbRemote = {}
  /\ retention \in Retentions
  /\ mirror \in Mirrors /\ siteDomain = 0 /\ dbClock = 0
  /\ taking = [t \in Takers |-> Idle]
  /\ deleting = NoName
  /\ restoring = [step |-> "none", file |-> NoName]
  /\ uses = [n \in Names |-> 0]
  /\ condemned = {}
  /\ dbCount = [lastId |-> 0, asked |-> 0, edits |-> 0, lost |-> 0]

Go(t, step) == taking' = [taking EXCEPT ![t].step = step]
PathOf(t) == <<taking[t].dir, taking[t].name>>

----------------------------------------------------------------------------
(* Taking a backup.                                                         *)

\* The handler reads the site before it queues the task; the batch reads the
\* sites, with their keep_count, before it dumps the first one.
AskBackup(t) ==
  /\ taking[t].step = "idle" /\ dbCount.asked < MaxBackups
  /\ taking' = [taking EXCEPT ![t] = [Idle EXCEPT !.step = "asked",
               !.dir = siteDomain, !.keep = retention]]
  /\ dbCount' = [dbCount EXCEPT !.asked = @ + 1]
  /\ UNCHANGED <<storeVars, confVars, helpVars, uses, condemned>>

\* The name holds the second; the shell truncates or creates the file.
StartDump(t) ==
  LET name == <<taking[t].dir, dbClock>> IN
  /\ taking[t].step = "asked"
  /\ t = Worker => restoring.step \notin {"importing", "hung"}
  /\ taking' = [taking EXCEPT ![t].step = "dumping", ![t].name = name]
  /\ dbLocal' = dbLocal \cup {<<taking[t].dir, name>>}
  /\ uses' = [uses EXCEPT ![name] = @ + 1]
  /\ UNCHANGED <<dbRows, dbRemote, confVars, helpVars, condemned, dbCount>>

\* The redirection or gzip fails: the task fails and leaves what was written.
DumpFails(t) ==
  /\ taking[t].step = "dumping"
  /\ taking' = [taking EXCEPT ![t] = Idle]
  /\ UNCHANGED <<storeVars, confVars, helpVars, uses, condemned, dbCount>>

\* The dump ended and its row is written, under an id never given before.
RecordDump(t) ==
  /\ taking[t].step = "dumping"
  /\ dbRows' = dbRows \cup {<<dbCount.lastId + 1, taking[t].name>>}
  /\ dbCount' = [dbCount EXCEPT !.lastId = @ + 1]
  /\ Go(t, "recorded")
  /\ UNCHANGED <<dbLocal, dbRemote, confVars, helpVars, uses, condemned>>

\* The row cannot be written: the file goes too.
RecordFails(t) ==
  /\ taking[t].step = "dumping"
  /\ dbLocal' = dbLocal \ {PathOf(t)}
  /\ taking' = [taking EXCEPT ![t] = Idle]
  /\ UNCHANGED <<dbRows, dbRemote, confVars, helpVars, uses, condemned, dbCount>>

\* rsync copies the file; the local one goes only after it succeeded.
SyncCopies(t) ==
  /\ mirror # "off" /\ PathOf(t) \in dbLocal
  /\ dbRemote' = dbRemote \cup {PathOf(t)}
  /\ dbLocal' = IF mirror = "move" THEN dbLocal \ {PathOf(t)} ELSE dbLocal
SyncFails == UNCHANGED <<dbLocal, dbRemote>>
SyncFailsMoved(t) ==
  /\ dbLocal' = IF mirror = "move" THEN dbLocal \ {PathOf(t)} ELSE dbLocal
  /\ dbRemote' = dbRemote

\* Mutant: the local file is removed whatever rsync answered.
SyncBackupCareless(t) ==
  /\ taking[t].step = "recorded"
  /\ SyncCopies(t) \/ SyncFailsMoved(t)
  /\ Go(t, "synced")
  /\ UNCHANGED <<dbRows, confVars, helpVars, uses, condemned, dbCount>>

SyncBackup(t) ==
  /\ taking[t].step = "recorded"
  /\ SyncCopies(t) \/ SyncFails
  /\ Go(t, "synced")
  /\ UNCHANGED <<dbRows, confVars, helpVars, uses, condemned, dbCount>>

----------------------------------------------------------------------------
(* Pruning: a count, a query for the oldest rows, then file and row of each. *)

\* The task reads keep_count now, the batch has read it with the site.
KeepOf(t) ==
  LET keep == IF t = Worker THEN retention ELSE taking[t].keep
  IN  IF keep <= 0 THEN 7 ELSE keep

\* Mutant: one more row than asked for is tolerated.
SurplusButOne(t) == Cardinality(dbRows) - KeepOf(t) - 1
Surplus(t) == Cardinality(dbRows) - KeepOf(t)

CountRows(t) ==
  /\ taking[t].step = "synced"
  /\ taking' = [taking EXCEPT ![t] =
       IF Surplus(t) <= 0 THEN Idle ELSE [@ EXCEPT !.step = "counted", !.keep = Surplus(t)]]
  /\ UNCHANGED <<storeVars, confVars, helpVars, uses, condemned, dbCount>>

\* The rows of ORDER BY created_at LIMIT n: rows are written in the order of
\* their ids.
AreOldest(rows, n) ==
  /\ Cardinality(rows) = IF n < Cardinality(dbRows) THEN n ELSE Cardinality(dbRows)
  /\ \A r \in rows, s \in dbRows \ rows : r[1] < s[1]

SelectOldest(t) ==
  /\ taking[t].step = "counted"
  /\ \E rows \in SUBSET dbRows :
       /\ AreOldest(rows, taking[t].keep)
       /\ taking' = [taking EXCEPT ![t].step = "pruning", ![t].doomed = rows]
       /\ condemned' = condemned \cup NamesOf(rows)
  /\ UNCHANGED <<storeVars, confVars, helpVars, uses, dbCount>>

\* The loop takes the selected rows from the oldest on.
IsNext(row, t) ==
  row \in taking[t].doomed /\ \A r \in taking[t].doomed : row[1] <= r[1]

RemoveOldFile(t) ==
  /\ taking[t].step = "pruning"
  /\ \E row \in taking[t].doomed :
       IsNext(row, t) /\ dbLocal' = dbLocal \ {<<taking[t].dir, row[2]>>}
  /\ Go(t, "dropping")
  /\ UNCHANGED <<dbRows, dbRemote, confVars, helpVars, uses, condemned, dbCount>>

\* The row goes by its id: one row, though two may hold the name.
DropOldRow(t) ==
  /\ taking[t].step = "dropping"
  /\ \E row \in taking[t].doomed :
       /\ IsNext(row, t)
       /\ dbRows' = dbRows \ {row}
       /\ taking' = [taking EXCEPT ![t].step = "pruning", ![t].doomed = @ \ {row}]
  /\ UNCHANGED <<dbLocal, dbRemote, confVars, helpVars, uses, condemned, dbCount>>

PruneEnds(t) ==
  /\ taking[t].step = "pruning" /\ taking[t].doomed = {}
  /\ taking' = [taking EXCEPT ![t] = Idle]
  /\ UNCHANGED <<storeVars, confVars, helpVars, uses, condemned, dbCount>>

----------------------------------------------------------------------------
(* The handlers, which run beside both.                                     *)

Edit == dbCount.edits < MaxDbEdits /\ dbCount' = [dbCount EXCEPT !.edits = @ + 1]

\* Delete: the file of the current domain, then every row with the name.
DeleteFile ==
  /\ Edit /\ deleting = NoName
  /\ \E n \in NamesOf(dbRows) :
       /\ deleting' = n
       /\ condemned' = condemned \cup {n}
       /\ dbLocal' = dbLocal \ {<<siteDomain, n>>}
  /\ UNCHANGED <<dbRows, dbRemote, confVars, taking, restoring, uses>>

DeleteRows ==
  /\ deleting # NoName
  /\ dbRows' = {r \in dbRows : r[2] # deleting}
  /\ deleting' = NoName
  /\ UNCHANGED <<dbLocal, dbRemote, confVars, taking, restoring, uses, condemned, dbCount>>

SaveRetention ==
  /\ Edit
  /\ \E k \in Keeps : retention' = Clamp(k)
  /\ UNCHANGED <<storeVars, mirror, siteDomain, dbClock, taking, helpVars, uses, condemned>>

SaveMirror ==
  /\ Edit
  /\ mirror' \in Mirrors \ {mirror}
  /\ UNCHANGED <<storeVars, retention, siteDomain, dbClock, taking, helpVars, uses, condemned>>

\* A rename of the site leaves the directory and the names of its backups.
RenameSite ==
  /\ Edit
  /\ siteDomain' = 1 - siteDomain
  /\ UNCHANGED <<storeVars, retention, mirror, dbClock, taking, helpVars, uses, condemned>>

\* Restore: the handler finds the file of the row and queues the task, whose
\* path is made of the row of the site the handler read.
AskRestore ==
  /\ Edit /\ restoring.step = "none"
  /\ \E n \in NamesOf(dbRows) :
       /\ <<siteDomain, n>> \in dbLocal
       /\ restoring' = [step |-> "queued", file |-> <<siteDomain, n>>]
  /\ UNCHANGED <<storeVars, confVars, taking, deleting, uses, condemned>>

\* UploadRestore: the file is a temporary one of the request.
UploadRestore ==
  /\ Edit /\ restoring.step = "none"
  /\ restoring' = [step |-> "queued", file |-> NoName]
  /\ UNCHANGED <<storeVars, confVars, taking, deleting, uses, condemned>>

StartRestore ==
  /\ restoring.step = "queued" /\ taking[Worker].step \in {"idle", "asked"}
  /\ restoring' = [restoring EXCEPT !.step = "importing"]
  /\ UNCHANGED <<storeVars, confVars, taking, deleting, uses, condemned, dbCount>>

\* gunzip | mysql: both end (with success or not), gunzip finds no file, or
\* mysql stops at a statement while the panel itself holds the read end of the
\* pipe: gunzip blocks once the pipe is full, and the worker with it.
EndRestore ==
  /\ restoring.step = "importing"
  /\ \/ restoring' = [step |-> "none", file |-> NoName]
     \/ /\ restoring.file \in dbLocal \cup {NoName}
        /\ restoring' = [restoring EXCEPT !.step = "hung"]
  /\ UNCHANGED <<storeVars, confVars, taking, deleting, uses, condemned, dbCount>>

Second ==
  /\ dbClock < MaxSeconds /\ dbClock' = dbClock + 1
  /\ UNCHANGED <<storeVars, retention, mirror, siteDomain, taking, helpVars, uses, condemned,
                 dbCount>>

\* The panel restarts: a backup that has its row may never be pruned for.
Recorded(t) == taking[t].step \notin {"idle", "asked", "dumping"}
PanelStops ==
  /\ dbCount.edits < MaxDbEdits
  /\ dbCount' = [dbCount EXCEPT !.edits = @ + 1,
                   !.lost = @ + Cardinality({t \in Takers : Recorded(t)})]
  /\ taking' = [t \in Takers |-> Idle]
  /\ deleting' = NoName
  /\ restoring' = [step |-> "none", file |-> NoName]
  /\ UNCHANGED <<storeVars, confVars, uses, condemned>>

TakeBackup(t) ==
  \/ AskBackup(t) \/ StartDump(t) \/ DumpFails(t) \/ RecordDump(t)
  \/ RecordFails(t) \/ SyncBackup(t) \/ CountRows(t) \/ SelectOldest(t)
  \/ RemoveOldFile(t) \/ DropOldRow(t) \/ PruneEnds(t)

NextDb ==
  \/ \E t \in Takers : TakeBackup(t)
  \/ DeleteFile \/ DeleteRows \/ SaveRetention \/ SaveMirror \/ RenameSite
  \/ AskRestore \/ UploadRestore \/ StartRestore \/ EndRestore \/ Second \/ PanelStops

SpecDb == InitDb /\ [][NextDb]_varsDb

----------------------------------------------------------------------------
\* Each variable has its type.
DbSteps ==
  {"idle", "asked", "dumping", "recorded", "synced", "counted", "pruning", "dropping"}
DbTypeOK ==
  /\ dbRows \in SUBSET Rows
  /\ dbLocal \subseteq Files /\ dbRemote \subseteq Files
  /\ retention \in Retentions /\ retention \in 1..30 /\ mirror \in Mirrors
  /\ siteDomain \in Domains /\ dbClock \in 0..MaxSeconds
  /\ taking \in [Takers -> [step : DbSteps, dir : Domains, name : Names \cup {NoName},
                            keep : Int, doomed : SUBSET Rows]]
  /\ deleting \in Names \cup {NoName}
  /\ restoring \in [step : {"none", "queued", "importing", "hung"},
                    file : Files \cup {NoName}]
  /\ uses \in [Names -> Nat] /\ condemned \subseteq Names
  /\ dbCount \in [lastId : Nat, asked : 0..MaxBackups, edits : 0..MaxDbEdits, lost : Nat]

\* A row of a backup always has its file, here or on the remote server, until
\* someone chose that row for removal: neither the copy to the server, nor a
\* failure, nor a restart, nor a rename loses the only copy.  Two backups of
\* one second share one file and are excepted (the name has no finer part).
HasCopy(n) == \E d \in Domains : <<d, n>> \in dbLocal \cup dbRemote
RowHasCopy ==
  \A n \in NamesOf(dbRows) : n \in condemned \/ uses[n] > 1 \/ HasCopy(n)

\* However the task, the batches and the deletions overlap, the rows of a site
\* exceed a retention in use only by the backups that still have their pruning
\* before them, or lost it to a restart.
RetentionBounded ==
  \E k \in Retentions :
    Cardinality(dbRows) <= k + dbCount.lost + Cardinality({t \in Takers : Recorded(t)})
=============================================================================
