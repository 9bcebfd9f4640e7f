----------------------------- MODULE SiteLifecycle -----------------------------
(***************************************************************************)
(* The life of the web sites of a host: executor/website_tasks.go (create, *)
(* delete, pause, enable, change of domains), ssl.go (enable, remove),     *)
(* the file effects of template_engine.go and mariadb.go, and              *)
(* RegenerateSiteNginx of fastcgi_cache.go.                                *)
(*                                                                         *)
(* One worker executes the tasks (module TaskQueue), each a sequence of    *)
(* steps on the disk, MariaDB, nginx and SQLite with a list of rollback    *)
(* steps.  The handlers validate and read the row of the site BEFORE they  *)
(* enqueue, so a task works on a snapshot; a handler may be delayed        *)
(* between the two, so the tasks in flight execute in any order.           *)
(* Goroutines that regenerate nginx configurations run beside the worker.  *)
(*                                                                         *)
(* A site is identified by the number of the request that created it.  An  *)
(* external step fails only when its name is in Faults.  An nginx -t and   *)
(* the write, relink and reload that follow it are one step; the bytes of  *)
(* a configuration are its server name and whether it uses TLS.            *)
(***************************************************************************)
EXTENDS Naturals, Sequences, FiniteSets

CONSTANTS Domain, Type,  \* site_type: "wordpress", "php"
          Base,          \* the names buildSiteName can return
          SiteName,      \* buildSiteName: Domain -> Base, not injective
          Kind,          \* the requests made
          Faults,        \* the external steps that may fail
          MaxRequests, MaxInFlight, MaxRegens, MaxCrashes,
          None

AllKinds == {"create", "delete", "pause", "enable", "ssl", "unssl", "rename",
             "rewrite"}
AllFaults == {"useradd", "deploy", "mariadb", "fpm", "nginx", "acme", "disk",
              "sqlite"}

ASSUME SiteAssumption ==
    /\ Kind \subseteq AllKinds
    /\ Faults \subseteq AllFaults
    /\ SiteName \in [Domain -> Base]
    /\ {MaxRequests, MaxInFlight, MaxRegens, MaxCrashes} \subseteq Nat

VARIABLES rows,     \* the table websites; domain is UNIQUE
          disk,     \* what exists outside the panel's database, see Disk
          pending,  \* requests whose handler has read the row, not yet executed
          job,      \* the task the worker executes
          step,     \* its next step
          undo,     \* its rollback steps, the newest first
          regens,   \* regenerations that have read their row
          sent, started, crashes, \* how many requests, regenerations, crashes
          broken    \* history: sites whose deletion or move was cut off

work == <<job, step, undo>>
outside == <<pending, regens, sent, started, crashes, broken>>
vars == <<rows, disk, work, outside>>

Site == 1..MaxRequests
Row == [id : Site, type : Type, ssl : BOOLEAN, paused : BOOLEAN]
Conf == [server : Domain, tls : BOOLEAN]
Request == [no : Site, kind : Kind, site : Site, domain : Domain, type : Type,
            ssl : BOOLEAN, to : Domain]
Disk == [user : SUBSET (Type \X Base),
         web  : [Domain -> Site \cup {None}],  \* the site that owns the files
         logs : SUBSET Domain,
         db   : SUBSET Base,
         cred : [Base -> Site \cup {None}],    \* whose password MariaDB accepts
         pool : SUBSET Domain,
         conf : [Domain -> Conf \cup {None}],  \* sites-available
         link : SUBSET Domain,                 \* sites-enabled
         cert : [Domain -> {"none", "empty", "valid"}]]

ASSUME NoneAssumption == None \notin Site \cup Row \cup Conf \cup Request

Init ==
    /\ rows = [d \in Domain |-> None]
    /\ disk = [user |-> {}, web |-> [d \in Domain |-> None], logs |-> {},
               db |-> {}, cred |-> [b \in Base |-> None], pool |-> {},
               conf |-> [d \in Domain |-> None], link |-> {},
               cert |-> [d \in Domain |-> "none"]]
    /\ pending = {} /\ job = None /\ step = "idle" /\ undo = <<>>
    /\ regens = {} /\ sent = 0 /\ started = 0 /\ crashes = 0 /\ broken = {}
-----------------------------------------------------------------------------
(* nginx.                                                                  *)

\* nginx loads a configuration when its certificate can be read.
Valid(dk, c) == c.tls => dk.cert[c.server] = "valid"

\* `nginx -s reload` reads every enabled configuration before it signals.
Loadable(dk) == \A d \in dk.link : dk.conf[d] # None /\ Valid(dk, dk.conf[d])

\* The ways ApplyNginxConfig(c) can end: the test of c alone fails and nothing
\* changes; c is written and linked and the reload succeeds or fails; the old
\* file was moved to the backups and the new one could not be written.
ApplyNginxConfig(c) ==
    LET written == [disk EXCEPT !.conf[c.server] = c, !.link = @ \cup {c.server}]
        moved   == [disk EXCEPT !.conf[c.server] = None]
    IN  IF ~Valid(disk, c) THEN {[disk |-> disk, ok |-> FALSE]}
        ELSE {[disk |-> written, ok |-> Loadable(written)]}
             \cup (IF "nginx" \in Faults
                   THEN {[disk |-> dk, ok |-> FALSE] : dk \in {disk, written}}
                   ELSE {})
             \cup (IF "disk" \in Faults THEN {[disk |-> moved, ok |-> FALSE]} ELSE {})

\* A reload whose result the task looks at.
ReloadResults(dk) ==
    {Loadable(dk)} \cup (IF "nginx" \in Faults THEN {FALSE} ELSE {})

Plain(d) == [server |-> d, tls |-> FALSE]
Secure(d) == [server |-> d, tls |-> TRUE]
ConfOf(r) == [server |-> r.domain, tls |-> r.ssl]
-----------------------------------------------------------------------------
(* Requests: the handlers of handlers/website.go up to Enqueue.            *)

InFlight == Cardinality(pending) + (IF job = None THEN 0 ELSE 1)

Submit(k, s, d, t, ssl, to) ==
    /\ k \in Kind
    /\ sent < MaxRequests
    /\ InFlight < MaxInFlight
    /\ pending' = pending \cup {[no |-> sent + 1, kind |-> k, site |-> s, domain |-> d,
                                 type |-> t, ssl |-> ssl, to |-> to]}
    /\ sent' = sent + 1
    /\ UNCHANGED <<rows, disk, work, regens, started, crashes, broken>>

\* Create: isAliasConflicting(domain, 0).
RequestCreate(d, t, ssl) ==
    /\ rows[d] = None
    /\ Submit("create", sent + 1, d, t, ssl, d)

\* Delete, ToggleStatus, EnableSSL, RemoveSSL, UpdateDomains of the aliases
\* alone and SetAccessLogMode: getWebsiteByID, then Enqueue.
RequestChange(k, d) ==
    /\ k \notin {"create", "rename"}
    /\ rows[d] # None
    /\ k = "unssl" => rows[d].ssl
    /\ Submit(k, rows[d].id, d, rows[d].type, rows[d].ssl, d)

\* UpdateDomains with a new main domain that no other site has.
RequestRename(d, e) ==
    /\ rows[d] # None
    /\ rows[e] = None
    /\ Submit("rename", rows[d].id, d, rows[d].type, rows[d].ssl, e)

FirstStep ==
    [create |-> "user", delete |-> "remove_files", pause |-> "unlink",
     enable |-> "link", ssl |-> "obtain", unssl |-> "remove_cert",
     rename |-> "move_conf", rewrite |-> "apply"]

Take(r) ==
    /\ job = None
    /\ job' = r
    /\ step' = FirstStep[r.kind]
    /\ undo' = <<>>
    /\ pending' = pending \ {r}
    /\ UNCHANGED <<rows, disk, regens, sent, started, crashes, broken>>
-----------------------------------------------------------------------------
(* How a step of the worker ends.                                          *)

At(s) == step = s /\ UNCHANGED <<job, outside>>

\* The next step, after registering rollback steps (the last one undoes first).
Proceed(dk, next, registered) ==
    disk' = dk /\ step' = next /\ undo' = registered \o undo /\ UNCHANGED rows

\* rollback() and a failed result; with nothing registered only the result.
Abort(dk) == disk' = dk /\ step' = "rollback" /\ UNCHANGED <<undo, rows>>

\* A return that runs no rollback step.
Return(dk) == disk' = dk /\ step' = "rollback" /\ undo' = <<>> /\ UNCHANGED rows

Fail(fault, dk) == fault \in Faults /\ Abort(dk)

Update(d, row) ==
    /\ rows' = [rows EXCEPT ![d] = row]
    /\ step' = "rollback" /\ undo' = <<>> /\ UNCHANGED disk

HasRow == rows[job.domain] # None /\ rows[job.domain].id = job.site
-----------------------------------------------------------------------------
(* executeCreateSite.                                                      *)

User == <<job.type, SiteName[job.domain]>>
Database == SiteName[job.domain]

\* Mutant: a user that already exists is taken over, as the test of the error
\* for "already exists" intends.
CreateUserTolerant ==
    /\ At("user")
    /\ LET added == [disk EXCEPT !.user = @ \cup {User}]
       IN  \/ Proceed(added, "dirs", <<"user">>)
           \/ "useradd" \in Faults /\ \E dk \in {disk, added} : Return(dk)

\* Step 1.  The error of executeCommand never contains "already exists", so an
\* existing user ends the task; a failure of the group leaves the user behind.
CreateUser ==
    /\ At("user")
    /\ LET added == [disk EXCEPT !.user = @ \cup {User}]
       IN  \/ User \notin disk.user /\ Proceed(added, "dirs", <<"user">>)
           \/ User \in disk.user /\ Return(disk)
           \/ "useradd" \in Faults /\ \E dk \in {disk, added} : Return(dk)

\* Step 2.  The removal of the directories is registered after both exist.
CreateDirectories ==
    /\ At("dirs")
    /\ LET d == job.domain
           web  == [disk EXCEPT !.web[d] = IF @ = None THEN job.no ELSE @]
           both == [web EXCEPT !.logs = @ \cup {d}]
       IN  \/ Proceed(both, "deploy", <<"logs", "web">>)
           \/ \E dk \in {disk, web} : Fail("disk", dk)

\* Mutant: the error return of the deployment forgets rollback().
DeployFilesUnrolled ==
    /\ At("deploy")
    /\ LET owned == [disk EXCEPT !.web[job.domain] = job.no]
       IN  \/ Proceed(owned, "database", <<>>)
           \/ "deploy" \in Faults /\ Return(owned)

\* Steps 3 and 4: the files of WordPress, and chown to the site's user.
DeployFiles ==
    /\ At("deploy")
    /\ LET owned == [disk EXCEPT !.web[job.domain] = job.no]
       IN  \/ Proceed(owned, "database", <<>>)
           \/ \E dk \in {disk, owned} : Fail("deploy", dk)

\* Step 5, createMariaDBDatabase: CREATE DATABASE IF NOT EXISTS, DROP USER (its
\* error is ignored), CREATE USER, GRANT.
CreateDatabase ==
    /\ At("database")
    /\ LET created == [disk EXCEPT !.db = @ \cup {Database}]
           dropped == [created EXCEPT !.cred[Database] = None]
           granted == [created EXCEPT !.cred[Database] = job.no]
       IN  \/ Proceed(granted, "config", <<"db">>)
           \/ \E dk \in {disk, created, dropped, granted} : Fail("mariadb", dk)

\* Step 6: wp-config.php and the permissions.
WriteConfig ==
    /\ At("config")
    /\ Proceed(disk, "pool", <<>>) \/ Fail("disk", disk)

\* Step 7, ApplyPHPFPMPool: a pool PHP-FPM refuses is put back as it was.
CreatePool ==
    /\ At("pool")
    /\ \/ Proceed([disk EXCEPT !.pool = @ \cup {job.domain}], "http", <<"pool">>)
       \/ Fail("fpm", disk)

\* Mutant: the removal of the nginx configuration is not registered.
ApplyHttpUnregistered ==
    /\ At("http")
    /\ \E o \in ApplyNginxConfig(Plain(job.domain)) :
          IF o.ok THEN Proceed(o.disk, IF job.ssl THEN "cert" ELSE "row", <<>>)
                  ELSE Abort(o.disk)

\* The configuration for HTTP; its removal is registered when it was applied.
ApplyHttp ==
    /\ At("http")
    /\ \E o \in ApplyNginxConfig(Plain(job.domain)) :
          IF o.ok THEN Proceed(o.disk, IF job.ssl THEN "cert" ELSE "row", <<"nginx">>)
                  ELSE Abort(o.disk)

\* MkdirAll of the certificate's directory, then obtainLegoCert.
ObtainFirstCert ==
    /\ At("cert")
    /\ LET d == job.domain
           empty == [disk EXCEPT !.cert[d] = IF @ = "none" THEN "empty" ELSE @]
       IN  \/ Proceed([disk EXCEPT !.cert[d] = "valid"], "https", <<"cert">>)
           \/ Fail("disk", disk)
           \/ "acme" \in Faults /\ Proceed(empty, "rollback", <<"cert">>)

ApplyHttps ==
    /\ At("https")
    /\ \E o \in ApplyNginxConfig(Secure(job.domain)) :
          IF o.ok THEN Proceed(o.disk, "row", <<>>) ELSE Abort(o.disk)

\* The row is written last; domain is UNIQUE.
InsertRow ==
    /\ At("row")
    /\ \/ /\ rows[job.domain] = None
          /\ Update(job.domain, [id |-> job.no, type |-> job.type, ssl |-> job.ssl,
                                 paused |-> FALSE])
       \/ (rows[job.domain] # None \/ "sqlite" \in Faults) /\ Abort(disk)

Create == CreateUser \/ CreateDirectories \/ DeployFiles \/ CreateDatabase
          \/ WriteConfig \/ CreatePool \/ ApplyHttp \/ ObtainFirstCert
          \/ ApplyHttps \/ InsertRow
-----------------------------------------------------------------------------
(* executeDeleteSite: every error but that of the DELETE is ignored.       *)

RemoveFiles ==
    /\ At("remove_files")
    /\ LET gone == [disk EXCEPT !.web[job.domain] = None, !.logs = @ \ {job.domain}]
           userless == [gone EXCEPT !.user = @ \ {User}]
       IN  \/ Proceed(userless, "drop_db", <<>>)
           \/ "useradd" \in Faults /\ Proceed(gone, "drop_db", <<>>)

DropDatabase ==
    /\ At("drop_db")
    /\ LET dropped == [disk EXCEPT !.db = @ \ {Database}]
           gone == [dropped EXCEPT !.cred[Database] = None]
       IN  \/ Proceed(gone, "remove_conf", <<>>)
           \/ "mariadb" \in Faults /\ \E dk \in {disk, dropped} :
                                          Proceed(dk, "remove_conf", <<>>)

RemoveConfs ==
    /\ At("remove_conf")
    /\ Proceed([disk EXCEPT !.pool = @ \ {job.domain}, !.link = @ \ {job.domain},
                            !.conf[job.domain] = None], "delete_row", <<>>)

\* The certificate goes after the reload; the row goes last, by its id.
DeleteRow ==
    /\ step = "delete_row"
    /\ disk' = [disk EXCEPT !.cert[job.domain] = "none"]
    /\ step' = "rollback" /\ undo' = <<>>
    /\ \/ /\ rows' = IF HasRow THEN [rows EXCEPT ![job.domain] = None] ELSE rows
          /\ UNCHANGED broken
       \/ /\ "sqlite" \in Faults
          /\ broken' = broken \cup {job.site}
          /\ UNCHANGED rows
    /\ UNCHANGED <<job, pending, regens, sent, started, crashes>>

Delete == RemoveFiles \/ DropDatabase \/ RemoveConfs \/ DeleteRow
-----------------------------------------------------------------------------
(* executePauseSite and executeEnableSite: the link and the reload, then   *)
(* the status; a failed reload leaves the link as it is now.               *)

Relink(links, next) ==
    LET dk == [disk EXCEPT !.link = links]
    IN  \E ok \in ReloadResults(dk) :
            IF ok THEN Proceed(dk, next, <<>>) ELSE Return(dk)

Unlink == At("unlink") /\ Relink(disk.link \ {job.domain}, "set_paused")
Link == At("link") /\ Relink(disk.link \cup {job.domain}, "set_active")

\* Mutant: the UPDATE has no WHERE.
UpdateEveryRow(row) ==
    /\ rows' = [d \in Domain |-> IF rows[d] = None THEN None
                                 ELSE [row EXCEPT !.id = rows[d].id]]
    /\ step' = "rollback" /\ undo' = <<>> /\ UNCHANGED disk

\* UPDATE websites SET ... WHERE id = ?
UpdateRow(row) == Update(job.domain, IF HasRow THEN row ELSE rows[job.domain])

SetStatus(paused) ==
    /\ At(IF paused THEN "set_paused" ELSE "set_active")
    /\ \/ UpdateRow([rows[job.domain] EXCEPT !.paused = paused])
       \/ "sqlite" \in Faults /\ Return(disk)

Toggle == Unlink \/ Link \/ \E p \in BOOLEAN : SetStatus(p)
-----------------------------------------------------------------------------
(* ssl.go, and the tasks that only rewrite the nginx configuration.        *)

\* executeEnableSSL removes the certificate in use before it asks for the new
\* one (or validates the uploaded one).
ObtainCert ==
    /\ At("obtain")
    /\ LET cert(c) == [disk EXCEPT !.cert[job.domain] = c]
       IN  \/ Proceed(cert("valid"), "secure", <<>>)
           \/ "acme" \in Faults /\ Return(cert("empty"))
           \/ "disk" \in Faults /\ Return(cert("none"))

\* applySSLToSite; its failure removes the certificate again.
ApplySecure ==
    /\ At("secure")
    /\ \E o \in ApplyNginxConfig(Secure(job.domain)) :
          IF o.ok THEN Proceed(o.disk, "set_ssl", <<>>)
                  ELSE Return([o.disk EXCEPT !.cert[job.domain] = "none"])

SetSSL ==
    /\ At("set_ssl")
    /\ \/ UpdateRow([rows[job.domain] EXCEPT !.ssl = TRUE])
       \/ "sqlite" \in Faults /\ Return([disk EXCEPT !.cert[job.domain] = "none"])

\* executeRemoveSSL: the certificate first, then the configuration.
RemoveCert ==
    /\ At("remove_cert")
    /\ Proceed([disk EXCEPT !.cert[job.domain] = "none"], "plain", <<>>)

ApplyPlain ==
    /\ At("plain")
    /\ \E o \in ApplyNginxConfig(Plain(job.domain)) :
          IF o.ok THEN Proceed(o.disk, "clear_ssl", <<>>) ELSE Return(o.disk)

ClearSSL ==
    /\ At("clear_ssl")
    /\ \/ UpdateRow([rows[job.domain] EXCEPT !.ssl = FALSE])
       \/ "sqlite" \in Faults /\ Return(disk)

\* executeUpdateDomains of the aliases alone and executeSetAccessLogMode
\* render the snapshot's configuration; their columns are not modelled.
Rewrite ==
    /\ At("apply")
    /\ \E o \in ApplyNginxConfig(ConfOf(job)) : Return(o.disk)

Secured == ObtainCert \/ ApplySecure \/ SetSSL \/ RemoveCert \/ ApplyPlain
           \/ ClearSSL \/ Rewrite
-----------------------------------------------------------------------------
(* executeUpdateDomains with a new main domain.                            *)

\* Both links go (the new one only if it resolves), then the file is renamed;
\* when that fails the task returns without putting the link back.
MoveConf ==
    /\ At("move_conf")
    /\ LET d == job.domain
           e == job.to
           unlinked == [disk EXCEPT
               !.link = @ \ ({d} \cup (IF disk.conf[e] = None THEN {} ELSE {e}))]
           moved == [unlinked EXCEPT !.conf[e] = disk.conf[d], !.conf[d] = None]
       IN  \/ disk.conf[d] # None /\ Proceed(moved, "move_pool", <<"conf">>)
           \/ (disk.conf[d] = None \/ "disk" \in Faults) /\ Return(unlinked)

\* The old pool is removed before the new one is tested, and its rollback step
\* is registered after; ApplyPHPFPMPool makes the new log directory.
MovePool ==
    /\ At("move_pool")
    /\ LET removed == [disk EXCEPT !.pool = @ \ {job.domain}, !.logs = @ \cup {job.to}]
           moved == [removed EXCEPT !.pool = @ \cup {job.to}]
       IN  Proceed(moved, "move_web", <<"old_pool">>) \/ Fail("fpm", removed)

\* Mutant: the way back of the directory is not registered.
MoveWebUnregistered ==
    /\ At("move_web")
    /\ LET moved == [disk EXCEPT !.web[job.to] = disk.web[job.domain],
                                 !.web[job.domain] = None]
           possible == disk.web[job.domain] # None /\ disk.web[job.to] = None
       IN  \/ possible /\ Proceed(moved, "move_logs", <<>>)
           \/ (~possible \/ "disk" \in Faults) /\ Abort(disk)

\* os.Rename refuses a target that is a directory.
MoveWeb ==
    /\ At("move_web")
    /\ LET moved == [disk EXCEPT !.web[job.to] = disk.web[job.domain],
                                 !.web[job.domain] = None]
           possible == disk.web[job.domain] # None /\ disk.web[job.to] = None
       IN  \/ possible /\ Proceed(moved, "move_logs", <<"old_web">>)
           \/ (~possible \/ "disk" \in Faults) /\ Abort(disk)

\* MovePool made the target of this os.Rename, so it fails every time and the
\* rest of the function is never reached.
MoveLogs == At("move_logs") /\ job.to \in disk.logs /\ Abort(disk)

Rename == MoveConf \/ MovePool \/ MoveWeb \/ MoveLogs
-----------------------------------------------------------------------------
(* rollback(): the registered steps, newest first, errors ignored.         *)

Undone(name) ==
    LET d == job.domain
        e == job.to
    IN  CASE name = "user"  -> [disk EXCEPT !.user = @ \ {User}]
          [] name = "web"   -> [disk EXCEPT !.web[d] = None]
          [] name = "logs"  -> [disk EXCEPT !.logs = @ \ {d}]
          [] name = "db"    -> [disk EXCEPT !.db = @ \ {Database}, !.cred[Database] = None]
          [] name = "pool"  -> [disk EXCEPT !.pool = @ \ {d}]
          [] name = "nginx" -> [disk EXCEPT !.link = @ \ {d}, !.conf[d] = None]
          [] name = "cert"  -> [disk EXCEPT !.cert[d] = "none"]
          [] name = "conf"  -> [disk EXCEPT !.link = @ \cup {d}, !.conf[e] = None,
                                    !.conf[d] = IF disk.conf[e] = None THEN @ ELSE disk.conf[e]]
          [] name = "old_pool" -> [disk EXCEPT !.pool = (@ \ {e}) \cup {d}]
          [] name = "old_web"  -> [disk EXCEPT !.web[d] = disk.web[e], !.web[e] = None]

\* The command behind a rollback step, where it has one that can fail.
UndoFault == [user |-> "useradd", db |-> "mariadb"]

Rollback ==
    /\ At("rollback")
    /\ undo # <<>>
    /\ undo' = Tail(undo)
    /\ \/ disk' = Undone(Head(undo))
       \/ /\ Head(undo) \in DOMAIN UndoFault
          /\ UndoFault[Head(undo)] \in Faults
          /\ UNCHANGED disk
    /\ UNCHANGED <<rows, step>>

\* Mutant: the worker goes on without letting go of its task.
FinishHolding ==
    /\ step = "rollback" /\ undo = <<>>
    /\ step' = "idle"
    /\ UNCHANGED <<job, rows, disk, undo, outside>>

\* The result goes to the handler and the worker is free.
Finish ==
    /\ step = "rollback" /\ undo = <<>>
    /\ job' = None /\ step' = "idle"
    /\ UNCHANGED <<rows, disk, undo, outside>>
-----------------------------------------------------------------------------
(* RegenerateSiteNginx, in goroutines of the handlers and at startup: read *)
(* the row, then apply its configuration, whatever the status is.          *)

StartRegen(d) ==
    /\ started < MaxRegens
    /\ rows[d] # None
    /\ started' = started + 1
    /\ regens' = regens \cup {[server |-> d, tls |-> rows[d].ssl]}
    /\ UNCHANGED <<rows, disk, work, pending, sent, crashes, broken>>

FinishRegen(c) ==
    /\ \E o \in ApplyNginxConfig(c) : disk' = o.disk
    /\ regens' = regens \ {c}
    /\ UNCHANGED <<rows, work, pending, sent, started, crashes, broken>>

\* The process ends at any point.  Tasks and goroutines are gone, and nothing
\* records that a task was under way.
Crash ==
    /\ crashes < MaxCrashes
    /\ crashes' = crashes + 1
    /\ broken' = broken \cup (IF job # None /\ job.kind \in {"delete", "rename"}
                              THEN {job.site} ELSE {})
    /\ pending' = {} /\ regens' = {}
    /\ job' = None /\ step' = "idle" /\ undo' = <<>>
    /\ UNCHANGED <<rows, disk, sent, started>>
-----------------------------------------------------------------------------
Ask ==
    \/ \E d \in Domain, t \in Type, ssl \in BOOLEAN : RequestCreate(d, t, ssl)
    \/ \E k \in Kind, d \in Domain : RequestChange(k, d)
    \/ \E d, e \in Domain : RequestRename(d, e)

Worker == (\E r \in pending : Take(r)) \/ Create \/ Delete \/ Toggle
          \/ Secured \/ Rename \/ Rollback \/ Finish

Regenerate == (\E d \in Domain : StartRegen(d)) \/ \E c \in regens : FinishRegen(c)

Next == Ask \/ Worker \/ Regenerate \/ Crash

Spec == Init /\ [][Next]_vars
-----------------------------------------------------------------------------
TypeOK ==
    /\ rows \in [Domain -> Row \cup {None}]
    /\ disk \in Disk
    /\ pending \subseteq Request /\ Cardinality(pending) <= MaxInFlight
    /\ job \in Request \cup {None}
    /\ job = None <=> step = "idle"
    /\ regens \subseteq Conf
    /\ sent \in 0..MaxRequests /\ started \in 0..MaxRegens /\ crashes \in 0..MaxCrashes
    /\ broken \subseteq Site

Registered == {d \in Domain : rows[d] # None}
InWork(d) == job # None /\ job.site = rows[d].id
Intact(d) ==
    /\ disk.web[d] = rows[d].id
    /\ disk.cred[SiteName[d]] = rows[d].id
    /\ SiteName[d] \in disk.db
    /\ <<rows[d].type, SiteName[d]>> \in disk.user

\* No task that fails, is rolled back, or loses a race for a domain costs a
\* registered site its files, its database, the password its wp-config.php
\* holds or its system user; only the site's own task may, while it runs or when
\* a crash, or the failure of the DELETE of its row, cut it off.
DataIntact ==
    \A d \in Registered : InWork(d) \/ rows[d].id \in broken \/ Intact(d)

\* Between tasks whatever exists on the host belongs to a registered site: a
\* creation that fails, or loses the race for the domain, leaves nothing.
NoResidue ==
    job = None =>
        /\ disk.user \subseteq {<<rows[d].type, SiteName[d]>> : d \in Registered}
        /\ {d \in Domain : disk.web[d] # None \/ disk.conf[d] # None
                           \/ disk.cert[d] # "none"} \subseteq Registered
        /\ disk.logs \cup disk.pool \cup disk.link \subseteq Registered
        /\ disk.db \cup {b \in Base : disk.cred[b] # None}
               \subseteq {SiteName[d] : d \in Registered}

\* Between tasks nginx can load what is enabled, so that no site's state makes
\* the reloads, and with them the tasks, of the other sites fail.
ReloadNeverBlocked == job = None => Loadable(disk)

Whole == {rows[d].id : d \in {e \in Registered : Intact(e)}}
Served == IF job = None THEN None ELSE job.site

Registry == INSTANCE SiteRegistry WITH
    DatabaseOf <- SiteName,
    Entry <- Row,
    Nobody <- None,
    entry <- rows,
    whole <- Whole,
    served <- Served,
    spoiled <- broken

\* What executeCreateSite, executeDeleteSite, the other tasks and the goroutines
\* do step by step is what SiteRegistry promises: a row is written once, when the
\* site has all it needs and a database of its own, and afterwards only the
\* site's own task changes the row or what the site needs.
ImplementsRegistry == Registry!AbsSpec

\* "Every site uses its own MariaDB database."
OwnDatabase ==
    \A d, e \in Registered : SiteName[d] = SiteName[e] => d = e

RenameDone == job # None /\ job.kind = "rename" /\ step = "rollback" /\ undo = <<>>

\* "A change of the main domain renames the directories of the site": when no
\* command fails, the files are at the new domain when the task is done.
RenameMovesSite == RenameDone => disk.web[job.to] = job.site

\* A change of domain that fails leaves the site a PHP-FPM pool.
FailedRenameKeepsPool == RenameDone => {job.domain, job.to} \cap disk.pool # {}

=============================================================================
