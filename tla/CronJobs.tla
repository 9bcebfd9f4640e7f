------------------------------- MODULE CronJobs -------------------------------
(***************************************************************************)
(* The scheduled jobs: handlers/cron.go and executor/cron_tasks.go.  The   *)
(* handlers change the table cron_jobs and wp-config.php themselves, in    *)
(* steps of their own, and then enqueue a task that writes /etc/cron.d     *)
(* from the rows, or, for Run, claim the flag `running` and enqueue the    *)
(* execution.  Several handlers run at once; the worker serves them in the *)
(* order of the queue (module TaskQueue).                                  *)
(*                                                                         *)
(* A job's schedule and command are abstracted to its type and site.       *)
(***************************************************************************)
EXTENDS Naturals, Sequences, FiniteSets

CONSTANTS Handler,     \* goroutines that serve requests
          Site,
          Type,        \* the task_types of the instance
          MaxJobs,     \* bound on the rows ever inserted (ids are AUTOINCREMENT)
          MaxRequests, MaxCrashes,
          Faults,      \* what may fail: "sqlite", "disk"
          None

ASSUME CronAssumption ==
    /\ {MaxJobs, MaxRequests, MaxCrashes} \subseteq Nat
    /\ Type \subseteq {"command", "file_backup", "wp_cron"}
    /\ Faults \subseteq {"sqlite", "disk"}
    /\ None \notin Site \cup Handler

VARIABLES rows,      \* the table cron_jobs
          lastId,    \* the greatest id given so far
          cronFile,  \* the lines of /etc/cron.d/wp-panel
          disabled,  \* sites with DISABLE_WP_CRON in their wp-config.php
          sites,     \* the sites there are
          request,   \* what each handler does and where it is in doing it
          queue,     \* the handlers whose tasks stand in the queue
          worker,    \* the task in execution
          stale,     \* history: the file missed a change (crash, failure, site gone)
          asked, crashes

vars == <<rows, lastId, cronFile, disabled, sites, request, queue, worker, stale,
          asked, crashes>>

Job == 1..MaxJobs
Schedule == {s \in [type : Type, site : Site \cup {None}] :
             s.type # "command" => s.site # None}
Row == [type : Type, site : Site \cup {None}, enabled : BOOLEAN, running : BOOLEAN]
Line == [job : Job, type : Type, site : Site \cup {None}]
Op == {"create", "update", "delete", "run"}
Place == {"read", "write", "look", "config", "claim", "enqueue", "queued"}
Old == [type : Type \cup {None}, site : Site \cup {None}]
Request == [op : Op, job : 0..MaxJobs, at : Place, new : Schedule \cup {None},
            enabled : BOOLEAN \cup {None}, old : Old]
Worker == [by : Handler \cup {None}, step : {"idle", "read", "write", "execute"},
           lines : SUBSET Line]

ASSUME NoneAssumption == None \notin Request /\ None \notin Row

NoOld == [type |-> None, site |-> None]
Idle == [by |-> None, step |-> "idle", lines |-> {}]

Init ==
    /\ rows = [j \in Job |-> None]
    /\ lastId = 0
    /\ cronFile = {} /\ disabled = {} /\ sites = Site
    /\ request = [h \in Handler |-> None]
    /\ queue = <<>> /\ worker = Idle
    /\ stale = FALSE /\ asked = 0 /\ crashes = 0

\* What the file should hold: a line for each enabled row.
Lines == {[job |-> j, type |-> rows[j].type, site |-> rows[j].site] :
             j \in {i \in Job : rows[i] # None /\ rows[i].enabled}}
-----------------------------------------------------------------------------
(* The handlers.                                                           *)

Admit(h, op, j, at, new, enabled) ==
    /\ request[h] = None
    /\ asked < MaxRequests
    /\ asked' = asked + 1
    /\ request' = [request EXCEPT ![h] =
           [op |-> op, job |-> j, at |-> at, new |-> new, enabled |-> enabled,
            old |-> NoOld]]
    /\ UNCHANGED <<rows, lastId, cronFile, disabled, sites, queue, worker, stale, crashes>>

Create(h, s) == Admit(h, "create", 0, "write", s, TRUE)
Update(h, j, s, e) == Admit(h, "update", j, "read", s, e)
Delete(h, j) == Admit(h, "delete", j, "read", None, None)
Run(h, j) == Admit(h, "run", j, "claim", None, None)

At(h, place) ==
    /\ request[h] # None
    /\ request[h].at = place

GoTo(h, place) == request' = [request EXCEPT ![h].at = place]

\* The row as it was (the two queries of Update in one step); without a row the
\* variables keep their zero values, and an absent "enabled" its default of 1.
ReadOld(h) ==
    /\ At(h, "read")
    /\ LET r == request[h]
           row == rows[r.job]
           absent == r.op = "update" /\ r.enabled = None
       IN  request' = [request EXCEPT
               ![h].at = "write",
               ![h].old = IF row = None THEN NoOld
                                        ELSE [type |-> row.type, site |-> row.site],
               ![h].enabled = IF absent THEN row = None \/ row.enabled ELSE @]
    /\ UNCHANGED <<rows, lastId, cronFile, disabled, sites, queue, worker, stale,
                   asked, crashes>>

InsertRow(h) ==
    /\ At(h, "write") /\ request[h].op = "create"
    /\ \/ /\ lastId < MaxJobs
          /\ lastId' = lastId + 1
          /\ rows' = [rows EXCEPT ![lastId + 1] =
                 [type |-> request[h].new.type, site |-> request[h].new.site,
                  enabled |-> TRUE, running |-> FALSE]]
          /\ request' = [request EXCEPT ![h].job = lastId + 1, ![h].at = "look"]
       \/ /\ "sqlite" \in Faults
          /\ request' = [request EXCEPT ![h] = None]
          /\ UNCHANGED <<rows, lastId>>
    /\ UNCHANGED <<cronFile, disabled, sites, queue, worker, stale, asked, crashes>>

\* UPDATE cron_jobs SET ... WHERE id = ?: the flag running keeps its value.
UpdateRow(h) ==
    /\ At(h, "write") /\ request[h].op = "update"
    /\ \/ /\ rows' = [rows EXCEPT ![request[h].job] =
                 IF @ = None THEN None
                 ELSE [@ EXCEPT !.type = request[h].new.type,
                                !.site = request[h].new.site,
                                !.enabled = request[h].enabled]]
          /\ GoTo(h, "look")
       \/ /\ "sqlite" \in Faults
          /\ request' = [request EXCEPT ![h] = None]
          /\ UNCHANGED rows
    /\ UNCHANGED <<lastId, cronFile, disabled, sites, queue, worker, stale, asked, crashes>>

\* The error of the DELETE is discarded.
DeleteRow(h) ==
    /\ At(h, "write") /\ request[h].op = "delete"
    /\ \/ rows' = [rows EXCEPT ![request[h].job] = None]
       \/ "sqlite" \in Faults /\ UNCHANGED rows
    /\ GoTo(h, "look")
    /\ UNCHANGED <<lastId, cronFile, disabled, sites, queue, worker, stale, asked, crashes>>

\* The site whose wp-config.php a request has to change, or None.
ToDisable(r) ==
    IF r.new # None /\ r.new.type = "wp_cron" /\ r.old.type # "wp_cron"
    THEN r.new.site ELSE None
ToRestore(r) ==
    IF r.old.type = "wp_cron" /\ (r.op = "delete" \/ r.new.type # "wp_cron")
    THEN r.old.site ELSE None

HasWPCron(s) == \E j \in Job : rows[j] # None /\ rows[j].type = "wp_cron" /\ rows[j].site = s

\* ensureWPCronDisabled and removeWPCronIfLast up to the reading of the file.
LookAtConfig(h) ==
    /\ At(h, "look")
    /\ LET s == ToDisable(request[h])
           t == ToRestore(request[h])
       IN  GoTo(h, IF \/ s \in sites \ disabled
                      \/ t \in sites \cap disabled /\ ~HasWPCron(t)
                   THEN "config" ELSE "enqueue")
    /\ UNCHANGED <<rows, lastId, cronFile, disabled, sites, queue, worker, stale,
                   asked, crashes>>

\* Mutant: the site's line is added although the site is gone by then.
WriteConfigBlindly(h) ==
    /\ At(h, "config")
    /\ LET s == ToDisable(request[h])
       IN  disabled' = IF s # None THEN disabled \cup {s}
                                   ELSE disabled \ {ToRestore(request[h])}
    /\ GoTo(h, "enqueue")
    /\ UNCHANGED <<rows, lastId, cronFile, sites, queue, worker, stale, asked, crashes>>

\* os.WriteFile of what was read, with the line or without it; it creates no directory.
WriteConfig(h) ==
    /\ At(h, "config")
    /\ LET s == ToDisable(request[h])
       IN  \/ disabled' = (IF s # None THEN disabled \cup {s}
                           ELSE disabled \ {ToRestore(request[h])}) \cap sites
           \/ "disk" \in Faults /\ UNCHANGED disabled
    /\ GoTo(h, "enqueue")
    /\ UNCHANGED <<rows, lastId, cronFile, sites, queue, worker, stale, asked, crashes>>

\* Mutant: the claim does not ask whether the job is running.
ClaimUnchecked(h) ==
    /\ At(h, "claim")
    /\ LET j == request[h].job
       IN  \/ /\ rows[j] # None
              /\ rows' = [rows EXCEPT ![j].running = TRUE]
              /\ GoTo(h, "enqueue")
           \/ /\ rows[j] = None
              /\ request' = [request EXCEPT ![h] = None]
              /\ UNCHANGED rows
    /\ UNCHANGED <<lastId, cronFile, disabled, sites, queue, worker, stale, asked, crashes>>

\* UPDATE ... SET running = 1 WHERE id = ? AND running = 0; when that changed no
\* row the response is the 409 "the job is being executed".  The statement's error
\* is discarded with a nil result, whose use is a panic gin recovers from.
Claim(h) ==
    /\ At(h, "claim")
    /\ LET j == request[h].job
           free == rows[j] # None /\ ~rows[j].running
       IN  \/ free /\ rows' = [rows EXCEPT ![j].running = TRUE] /\ GoTo(h, "enqueue")
           \/ /\ ~free \/ "sqlite" \in Faults
              /\ request' = [request EXCEPT ![h] = None]
              /\ UNCHANGED rows
    /\ UNCHANGED <<lastId, cronFile, disabled, sites, queue, worker, stale, asked, crashes>>

\* Mutant: a change that finds a rendering under way leaves its own to that one.
EnqueueCoalesced(h) ==
    /\ At(h, "enqueue")
    /\ IF request[h].op # "run" /\ worker.step \in {"read", "write"}
       THEN request' = [request EXCEPT ![h] = None] /\ UNCHANGED queue
       ELSE GoTo(h, "queued") /\ queue' = Append(queue, h)
    /\ UNCHANGED <<rows, lastId, cronFile, disabled, sites, worker, stale, asked, crashes>>

\* GlobalQueue.Enqueue, then the handler waits for the result.
Enqueue(h) ==
    /\ At(h, "enqueue")
    /\ GoTo(h, "queued")
    /\ queue' = Append(queue, h)
    /\ UNCHANGED <<rows, lastId, cronFile, disabled, sites, worker, stale, asked, crashes>>
-----------------------------------------------------------------------------
(* The worker.                                                             *)

Take ==
    /\ worker = Idle
    /\ queue # <<>>
    /\ queue' = Tail(queue)
    /\ worker' = [by |-> Head(queue), lines |-> {}, step |-> "read"]
    /\ UNCHANGED <<rows, lastId, cronFile, disabled, sites, request, stale, asked, crashes>>

\* The result is sent, the handler responds.
Answer == worker' = Idle /\ request' = [request EXCEPT ![worker.by] = None]

Rendering(step) == worker.step = step /\ request[worker.by].op # "run"
Running(step) == worker.step = step /\ request[worker.by].op = "run"

\* executeRenderCron: the query, then the whole file.
ReadRows ==
    /\ Rendering("read")
    /\ \/ /\ worker' = [worker EXCEPT !.step = "write", !.lines = Lines]
          /\ UNCHANGED <<request, stale>>
       \/ "sqlite" \in Faults /\ Answer /\ stale' = TRUE
    /\ UNCHANGED <<rows, lastId, cronFile, disabled, sites, queue, asked, crashes>>

WriteFile ==
    /\ Rendering("write")
    /\ \/ cronFile' = worker.lines /\ stale' = FALSE
       \/ "disk" \in Faults /\ UNCHANGED cronFile /\ stale' = TRUE
    /\ Answer
    /\ UNCHANGED <<rows, lastId, disabled, sites, queue, asked, crashes>>

\* executeRunCron: the row is gone or cannot be read, or the site of a backup is
\* gone, and the task ends with the flag as it is; otherwise the command runs.
ReadJob ==
    /\ Running("read")
    /\ LET row == rows[request[worker.by].job]
           live == row # None /\ (row.type = "file_backup" => row.site # None)
       IN  \/ /\ ~live \/ "sqlite" \in Faults
              /\ Answer
           \/ /\ live
              /\ worker' = [worker EXCEPT !.step = "execute"]
              /\ UNCHANGED request
    /\ UNCHANGED <<rows, lastId, cronFile, disabled, sites, queue, stale, asked, crashes>>

\* The command has ended; the error of the UPDATE is discarded.
RecordRun ==
    /\ Running("execute")
    /\ LET j == request[worker.by].job
       IN  \/ rows' = [rows EXCEPT ![j] = IF @ = None THEN None
                                          ELSE [@ EXCEPT !.running = FALSE]]
           \/ "sqlite" \in Faults /\ UNCHANGED rows
    /\ Answer
    /\ UNCHANGED <<lastId, cronFile, disabled, sites, queue, stale, asked, crashes>>

\* executeDeleteSite, seen from here: ON DELETE SET NULL applies only on the
\* connection that executed PRAGMA foreign_keys; the file is not rendered.
DeleteSite(s) ==
    /\ worker = Idle
    /\ s \in sites
    /\ sites' = sites \ {s}
    /\ disabled' = disabled \ {s}
    /\ \/ UNCHANGED rows
       \/ rows' = [j \in Job |-> IF rows[j] # None /\ rows[j].site = s
                                 THEN [rows[j] EXCEPT !.site = None] ELSE rows[j]]
    /\ stale' = TRUE
    /\ UNCHANGED <<lastId, cronFile, request, queue, worker, asked, crashes>>

\* The process ends; nothing resets the flags or renders the file at the start.
Crash ==
    /\ crashes < MaxCrashes
    /\ crashes' = crashes + 1
    /\ request' = [h \in Handler |-> None]
    /\ queue' = <<>> /\ worker' = Idle
    /\ stale' = TRUE
    /\ UNCHANGED <<rows, lastId, cronFile, disabled, sites, asked>>

Ask(h) ==
    \/ \E s \in Schedule : Create(h, s)
    \/ \E j \in 1..lastId, s \in Schedule, e \in BOOLEAN \cup {None} : Update(h, j, s, e)
    \/ \E j \in 1..lastId : Delete(h, j) \/ Run(h, j)

Handle(h) == ReadOld(h) \/ InsertRow(h) \/ UpdateRow(h) \/ DeleteRow(h)
             \/ LookAtConfig(h) \/ WriteConfig(h) \/ Claim(h) \/ Enqueue(h)

Work == Take \/ ReadRows \/ WriteFile \/ ReadJob \/ RecordRun

Next ==
    \/ \E h \in Handler : Ask(h) \/ Handle(h)
    \/ Work
    \/ \E s \in Site : DeleteSite(s)
    \/ Crash

Spec == Init /\ [][Next]_vars
-----------------------------------------------------------------------------
TypeOK ==
    /\ rows \in [Job -> Row \cup {None}]
    /\ lastId \in 0..MaxJobs
    /\ cronFile \subseteq Line
    /\ sites \subseteq Site /\ disabled \subseteq sites
    /\ request \in [Handler -> Request \cup {None}]
    /\ queue \in Seq(Handler)
    /\ worker \in Worker
    /\ stale \in BOOLEAN /\ asked \in 0..MaxRequests /\ crashes \in 0..MaxCrashes

\* A handler whose change is written and whose rendering has not read the rows.
RenderToCome(h) ==
    /\ request[h] # None
    /\ request[h].op # "run"
    /\ request[h].at \in {"look", "config", "enqueue", "queued"}
    /\ ~(worker.by = h /\ worker.step = "write")

\* However the changes of several handlers interleave with the rendering of
\* earlier ones, once none is to come the worker is about to write the lines of
\* the rows, or the file holds them (unless it missed a change for good).
FileFollowsRows ==
    \/ \E h \in Handler : RenderToCome(h)
    \/ worker.step = "write" /\ worker.lines = Lines
    \/ worker.step # "write" /\ (stale \/ cronFile = Lines)

\* Handlers that claimed job j and have not been answered.
Claimants(j) ==
    {h \in Handler : request[h] # None /\ request[h].op = "run"
                     /\ request[h].job = j /\ request[h].at \in {"enqueue", "queued"}}

\* A job is not executed, nor queued, twice at once: however the clicks, the
\* edits and the deletions interleave, and after a restart.
OneRunAtATime == \A j \in Job : \A h, i \in Claimants(j) : h = i

\* While the flag makes Run answer 409 "the job is being executed, try again
\* later", and the page disable its button, an execution is under way.
RefusalIsTrue ==
    \A j \in Job : rows[j] # None /\ rows[j].running => Claimants(j) # {}

\* templates/cron.html:121: a wp_cron job disables the built-in cron of its site,
\* and the deletion of the site's last one restores it; with no request in hand
\* and no failure the wp-config.php of every site agrees with the jobs.
BuiltinCronFollowsJobs ==
    (\A h \in Handler : request[h] = None) =>
        \A s \in sites : s \in disabled <=> HasWPCron(s)
-----------------------------------------------------------------------------
(* The parts of the inductive invariant.                                   *)

\* What the steps of a handler rely on.
Consistent(r) ==
    /\ r.at = "claim" => r.op = "run"
    /\ r.op = "run" => r.at \in {"claim", "enqueue", "queued"}
    /\ r.at = "read" => r.op \in {"update", "delete"}
    /\ r.op \in {"create", "update"} => r.new \in Schedule
    /\ r.op = "update" /\ r.at # "read" => r.enabled \in BOOLEAN
    /\ r.op # "create" \/ r.at # "write" => r.job \in 1..lastId

RequestState == \A h \in Handler : request[h] # None => Consistent(request[h])

\* A task in the queue or in the worker's hands is that of a handler that waits
\* for it, and no handler has two.
QueueState ==
    /\ \A i \in DOMAIN queue : At(queue[i], "queued") /\ queue[i] # worker.by
    /\ \A i, k \in DOMAIN queue : queue[i] = queue[k] => i = k
    /\ worker.step # "idle" => worker.by \in Handler /\ At(worker.by, "queued")
    /\ worker.step = "idle" => worker.by = None

\* The job of a claimant, if it still exists, is flagged.
ClaimHeld ==
    \A j \in Job : Claimants(j) # {} /\ rows[j] # None => rows[j].running

CronInv == TypeOK /\ RequestState /\ QueueState /\ ClaimHeld /\ OneRunAtATime
           /\ FileFollowsRows

=============================================================================
