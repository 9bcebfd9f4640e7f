------------------------------ MODULE SiteProofs ------------------------------
(* Proofs about SiteLifecycle, for any domains, types, names and bounds.     *)
EXTENDS SiteLifecycle, FiniteSetTheorems, SequenceTheorems, TLAPS

(* The shape of a task: its kind tells its steps and its rollback steps.     *)

StepsOf ==
  [create |-> {"user", "dirs", "deploy", "database", "config", "pool", "http", "cert",
               "https", "row"},
   delete |-> {"remove_files", "drop_db", "remove_conf", "delete_row"},
   pause |-> {"unlink", "set_paused"}, enable |-> {"link", "set_active"},
   ssl |-> {"obtain", "secure", "set_ssl"}, unssl |-> {"remove_cert", "plain", "clear_ssl"},
   rename |-> {"move_conf", "move_pool", "move_web", "move_logs"}, rewrite |-> {"apply"}]

CreateUndo == {"user", "web", "logs", "db", "pool", "nginx", "cert"}
RenameUndo == {"conf", "old_pool", "old_web"}
UndoNames == CreateUndo \cup RenameUndo

\* What a rollback still has to undo.
ToUndo == {undo[i] : i \in 1..Len(undo)}

TaskShape ==
  /\ undo \in Seq(UndoNames)
  /\ job = None => step = "idle" /\ undo = <<>>
  /\ job # None =>
        /\ step \in StepsOf[job.kind] \cup {"rollback"}
        /\ ToUndo \subseteq (IF job.kind = "create" THEN CreateUndo
                             ELSE IF job.kind = "rename" THEN RenameUndo ELSE {})

SiteTypes ==
  /\ rows \in [Domain -> Row \cup {None}]
  /\ disk \in Disk
  /\ job \in Request \cup {None} /\ (job # None => job.kind \in Kind)
  /\ pending \subseteq Request /\ IsFiniteSet(pending) /\ InFlight <= MaxInFlight
  /\ \A r \in pending : r.kind \in Kind
  /\ regens \subseteq Conf
  /\ sent \in 0..MaxRequests /\ started \in 0..MaxRegens /\ crashes \in 0..MaxCrashes
  /\ broken \subseteq Site

SiteShape == SiteTypes /\ TaskShape

(* Sequences of rollback steps.                                              *)

LEMMA Pushed ==
    ASSUME NEW s \in Seq(UndoNames), undo \in Seq(UndoNames), undo' = s \o undo
    PROVE  /\ undo' \in Seq(UndoNames)
           /\ ToUndo' = {s[i] : i \in 1..Len(s)} \cup ToUndo
<1>1. /\ Len(s) \in Nat /\ Len(undo) \in Nat /\ undo' \in Seq(UndoNames)
      /\ Len(undo') = Len(s) + Len(undo)
      /\ \A i \in 1..Len(s) + Len(undo) :
            undo'[i] = IF i <= Len(s) THEN s[i] ELSE undo[i - Len(s)]
  BY ConcatProperties, LenProperties
<1>2. ASSUME NEW i \in 1..Len(undo') PROVE undo'[i] \in {s[j] : j \in 1..Len(s)} \cup ToUndo
  <2>1. CASE i <= Len(s)  BY <2>1, <1>1
  <2>2. CASE i > Len(s)
    <3>1. i - Len(s) \in 1..Len(undo) /\ undo'[i] = undo[i - Len(s)]  BY <2>2, <1>1
    <3>2. QED  BY <3>1 DEF ToUndo
  <2>3. QED  BY <2>1, <2>2, <1>1
<1>3. ASSUME NEW i \in 1..Len(s) PROVE s[i] \in ToUndo'
  <2>1. i \in 1..Len(undo') /\ undo'[i] = s[i]  BY <1>1
  <2>2. QED  BY <2>1 DEF ToUndo
<1>4. ASSUME NEW i \in 1..Len(undo) PROVE undo[i] \in ToUndo'
  <2>1. i + Len(s) \in 1..Len(undo') /\ undo'[i + Len(s)] = undo[i]  BY <1>1
  <2>2. QED  BY <2>1 DEF ToUndo
<1>5. ToUndo' \subseteq {s[j] : j \in 1..Len(s)} \cup ToUndo  BY <1>2 DEF ToUndo
<1>6. {s[j] : j \in 1..Len(s)} \subseteq ToUndo'  BY <1>3
<1>7. ToUndo \subseteq ToUndo'
  <2>1. \A i \in 1..Len(undo) : undo[i] \in ToUndo'  BY <1>4
  <2>2. QED  BY <2>1 DEF ToUndo
<1>8. QED  BY <1>1, <1>5, <1>6, <1>7

LEMMA PushedNothing ==
    ASSUME undo \in Seq(UndoNames), undo' = <<>> \o undo
    PROVE  undo' = undo
BY ConcatEmptySeq

LEMMA PushedOne ==
    ASSUME NEW x \in UndoNames, undo \in Seq(UndoNames), undo' = <<x>> \o undo
    PROVE  /\ undo' \in Seq(UndoNames) /\ ToUndo' = {x} \cup ToUndo
           /\ \A i \in 2..Len(undo') : undo'[i] \in ToUndo
<1>1. <<x>> \in Seq(UndoNames) /\ Len(<<x>>) = 1 /\ <<x>>[1] = x  OBVIOUS
<1>2. {<<x>>[i] : i \in 1..Len(<<x>>)} = {x}  BY <1>1
<1>3. /\ Len(undo) \in Nat /\ Len(undo') = 1 + Len(undo)
      /\ \A i \in 1..1 + Len(undo) : undo'[i] = IF i <= 1 THEN <<x>>[i] ELSE undo[i - 1]
  BY <1>1, ConcatProperties, LenProperties
<1>4. ASSUME NEW i \in 2..Len(undo') PROVE undo'[i] \in ToUndo
  <2>1. i - 1 \in 1..Len(undo) /\ undo'[i] = undo[i - 1]  BY <1>3
  <2>2. QED  BY <2>1 DEF ToUndo
<1>5. QED  BY <1>1, <1>2, <1>4, Pushed

LEMMA PushedTwo ==
    ASSUME NEW x \in UndoNames, NEW y \in UndoNames, undo \in Seq(UndoNames),
           undo' = <<x, y>> \o undo
    PROVE  undo' \in Seq(UndoNames) /\ ToUndo' = {x, y} \cup ToUndo
<1>1. <<x, y>> \in Seq(UndoNames) /\ Len(<<x, y>>) = 2 /\ <<x, y>>[1] = x /\ <<x, y>>[2] = y
  OBVIOUS
<1>2. {<<x, y>>[i] : i \in 1..Len(<<x, y>>)} = {x, y}  BY <1>1
<1>3. QED  BY <1>1, <1>2, Pushed

LEMMA Emptied ==
    ASSUME undo' = <<>>
    PROVE  undo' \in Seq(UndoNames) /\ ToUndo' = {}
BY DEF ToUndo

LEMMA Popped ==
    ASSUME undo \in Seq(UndoNames), undo # <<>>, undo' = Tail(undo)
    PROVE  /\ Head(undo) \in ToUndo /\ Head(undo) = undo[1] /\ undo' \in Seq(UndoNames)
           /\ ToUndo' \subseteq ToUndo /\ ToUndo \subseteq {Head(undo)} \cup ToUndo'
           /\ \A i \in 1..Len(undo') : \E j \in 2..Len(undo) : undo'[i] = undo[j]
<1>1. /\ Len(undo) \in Nat /\ Len(undo) > 0 /\ Head(undo) = undo[1]
      /\ undo' \in Seq(UndoNames) /\ Len(undo') = Len(undo) - 1
      /\ \A i \in 1..Len(undo') : undo'[i] = undo[i + 1]
  BY HeadTailProperties, LenProperties, EmptySeq
<1>2. ASSUME NEW i \in 1..Len(undo') PROVE i + 1 \in 2..Len(undo) /\ undo'[i] = undo[i + 1]
  BY <1>1
<1>3. ToUndo' \subseteq ToUndo  BY <1>1, <1>2 DEF ToUndo
<1>4. ASSUME NEW i \in 1..Len(undo) PROVE undo[i] \in {Head(undo)} \cup ToUndo'
  <2>1. CASE i = 1  BY <2>1, <1>1
  <2>2. CASE i # 1
    <3>1. i - 1 \in 1..Len(undo') /\ undo'[i - 1] = undo[i]  BY <2>2, <1>1
    <3>2. QED  BY <3>1 DEF ToUndo
  <2>3. QED  BY <2>1, <2>2
<1>5. 1 \in 1..Len(undo)  BY <1>1
<1>6. ASSUME NEW i \in 1..Len(undo') PROVE \E j \in 2..Len(undo) : undo'[i] = undo[j]
  BY <1>1, <1>2
<1>7. QED  BY <1>1, <1>3, <1>4, <1>5, <1>6 DEF ToUndo

(* What a step of the worker leaves typed.                                   *)

\* The kind of a task can be read off its step.
LEMMA StepTellsKind ==
    ASSUME SiteShape, job # None
    PROVE  /\ job \in Request /\ job.kind \in AllKinds
           /\ \A k \in AllKinds : step \in StepsOf[k] => job.kind = k
           /\ step # "idle"
<1>1. job \in Request /\ job.kind \in AllKinds
  BY SiteAssumption DEF SiteShape, SiteTypes
<1>2. step \in StepsOf[job.kind] \cup {"rollback"}  BY DEF SiteShape, TaskShape
<1>3. \A k, l \in AllKinds : \A s \in StepsOf[k] :
         s # "rollback" /\ s # "idle" /\ (s \in StepsOf[l] => k = l)
  BY DEF AllKinds, StepsOf
<1>4. QED  BY <1>1, <1>2, <1>3

LEMMA WorkerBusy ==
    ASSUME SiteShape, step # "idle"
    PROVE  job # None
BY DEF SiteShape, TaskShape

\* What a step keeps that ends with At: the task and everything but the disk,
\* the rows, the step and its rollback steps.
LEMMA WorkStep ==
    ASSUME SiteShape, job # None, UNCHANGED <<job, outside>>,
           rows' \in [Domain -> Row \cup {None}], disk' \in Disk,
           step' \in StepsOf[job.kind] \cup {"rollback"}, undo' \in Seq(UndoNames),
           ToUndo' \subseteq (IF job.kind = "create" THEN CreateUndo
                             ELSE IF job.kind = "rename" THEN RenameUndo ELSE {})
    PROVE  SiteShape'
BY DEF SiteShape, SiteTypes, TaskShape, InFlight, outside

\* After the step the task is the same, and only the disk has changed.
Same == SiteShape' /\ rows' = rows /\ job' = job /\ UNCHANGED outside

LEMMA StepOn ==
    ASSUME SiteShape, NEW s, s # "idle", At(s), NEW dk \in Disk,
           NEW next \in StepsOf[job.kind] \cup {"rollback"}, Proceed(dk, next, <<>>)
    PROVE  Same /\ disk' = dk /\ undo' = undo /\ ToUndo' = ToUndo /\ step' = next
<1>1. undo' = undo  BY PushedNothing DEF Proceed, SiteShape, TaskShape
<1>2. job # None  BY WorkerBusy DEF At
<1>3. ToUndo' = ToUndo  BY <1>1 DEF ToUndo
<1>4. QED  BY <1>1, <1>2, <1>3, WorkStep DEF Same, At, Proceed, SiteShape, SiteTypes, TaskShape

LEMMA StepRegistering ==
    ASSUME SiteShape, NEW s, s # "idle", At(s), NEW dk \in Disk, NEW x,
           x \in (IF job.kind = "create" THEN CreateUndo
                  ELSE IF job.kind = "rename" THEN RenameUndo ELSE {}),
           NEW next \in StepsOf[job.kind] \cup {"rollback"}, Proceed(dk, next, <<x>>)
    PROVE  /\ Same /\ disk' = dk /\ step' = next
           /\ ToUndo' = {x} \cup ToUndo
           /\ \A i \in 2..Len(undo') : undo'[i] \in ToUndo
<1>1. job # None /\ undo \in Seq(UndoNames) /\ x \in UndoNames
  BY WorkerBusy DEF At, SiteShape, TaskShape, UndoNames
<1>2. /\ undo' \in Seq(UndoNames) /\ ToUndo' = {x} \cup ToUndo
      /\ \A i \in 2..Len(undo') : undo'[i] \in ToUndo
  BY <1>1, PushedOne DEF Proceed
<1>3. QED  BY <1>1, <1>2, WorkStep DEF Same, At, Proceed, SiteShape, SiteTypes, TaskShape

LEMMA StepAborting ==
    ASSUME SiteShape, NEW s, s # "idle", At(s), NEW dk \in Disk, Abort(dk)
    PROVE  Same /\ disk' = dk /\ undo' = undo /\ ToUndo' = ToUndo /\ step' = "rollback"
<1>1. undo' = undo /\ ToUndo' = ToUndo  BY DEF Abort, ToUndo
<1>2. QED  BY <1>1, WorkerBusy, WorkStep DEF Same, At, Abort, SiteShape, SiteTypes, TaskShape

LEMMA StepReturning ==
    ASSUME SiteShape, NEW s, s # "idle", At(s), NEW dk \in Disk, Return(dk)
    PROVE  Same /\ disk' = dk /\ undo' = <<>> /\ ToUndo' = {} /\ step' = "rollback"
<1>1. undo' \in Seq(UndoNames) /\ ToUndo' = {}  BY Emptied DEF Return
<1>2. QED  BY <1>1, WorkerBusy, WorkStep DEF Same, At, Return, SiteShape, SiteTypes

LEMMA StepUpdating ==
    ASSUME SiteShape, NEW s, s # "idle", At(s), NEW d \in Domain,
           NEW row \in Row \cup {None}, Update(d, row)
    PROVE  /\ SiteShape' /\ disk' = disk /\ rows' = [rows EXCEPT ![d] = row] /\ job' = job
           /\ UNCHANGED outside
           /\ undo' = <<>> /\ ToUndo' = {} /\ step' = "rollback"
<1>1. undo' \in Seq(UndoNames) /\ ToUndo' = {}  BY Emptied DEF Update
<1>2. QED  BY <1>1, WorkerBusy, WorkStep DEF At, Update, SiteShape, SiteTypes

\* ApplyNginxConfig changes the configuration and the link of its own server.
LEMMA NginxStep ==
    ASSUME disk \in Disk, NEW c \in Conf, NEW o \in ApplyNginxConfig(c)
    PROVE  /\ o.disk \in Disk /\ o.ok \in BOOLEAN
           /\ o.disk.user = disk.user /\ o.disk.web = disk.web /\ o.disk.logs = disk.logs
           /\ o.disk.db = disk.db /\ o.disk.cred = disk.cred /\ o.disk.pool = disk.pool
           /\ o.disk.cert = disk.cert
<1> DEFINE written == [disk EXCEPT !.conf[c.server] = c, !.link = @ \cup {c.server}]
           moved == [disk EXCEPT !.conf[c.server] = None]
<1>1. c.server \in Domain  BY DEF Conf
<1>2. written \in Disk /\ moved \in Disk  BY <1>1 DEF Disk
<1>3. Loadable(written) \in BOOLEAN  BY DEF Loadable
<1>4. \E dk \in {disk, written, moved}, ok \in BOOLEAN : o = [disk |-> dk, ok |-> ok]
  <2>1. \/ o = [disk |-> disk, ok |-> FALSE] \/ o = [disk |-> written, ok |-> FALSE]
        \/ o = [disk |-> written, ok |-> Loadable(written)]
        \/ o = [disk |-> moved, ok |-> FALSE]
    BY DEF ApplyNginxConfig
  <2>2. Loadable(written) = TRUE \/ Loadable(written) = FALSE  BY <1>3
  <2>3. QED  BY <2>1, <2>2
<1>5. /\ written.user = disk.user /\ written.web = disk.web /\ written.logs = disk.logs
      /\ written.db = disk.db /\ written.cred = disk.cred /\ written.pool = disk.pool
      /\ written.cert = disk.cert
  BY DEF Disk
<1>6. /\ moved.user = disk.user /\ moved.web = disk.web /\ moved.logs = disk.logs
      /\ moved.db = disk.db /\ moved.cred = disk.cred /\ moved.pool = disk.pool
      /\ moved.cert = disk.cert
  BY DEF Disk
<1> HIDE DEF written, moved
<1>7. (o.disk = disk \/ o.disk = written \/ o.disk = moved) /\ o.ok \in BOOLEAN
  BY <1>4
<1>8. QED  BY <1>2, <1>5, <1>6, <1>7

LEMMA NginxConfs ==
    ASSUME NEW d \in Domain
    PROVE  /\ Plain(d) \in Conf /\ Plain(d).server = d /\ Plain(d).tls = FALSE
           /\ Secure(d) \in Conf /\ Secure(d).server = d /\ Secure(d).tls = TRUE
BY DEF Plain, Secure, Conf

LEMMA RequestConf ==
    ASSUME NEW r \in Request
    PROVE  ConfOf(r) \in Conf /\ ConfOf(r).server = r.domain /\ ConfOf(r).tls = r.ssl
BY DEF ConfOf, Conf, Request

(* The ways each step of a creation can end.                                 *)

\* The task at hand, at a step of kind k.
AtWork(s, k) == /\ SiteShape /\ job \in Request /\ job.kind = k /\ job.domain \in Domain
                /\ job.to \in Domain /\ job.no \in Site /\ job.site \in Site
                /\ job.type \in Type /\ job.ssl \in BOOLEAN /\ step = s
                /\ SiteName[job.domain] \in Base /\ disk \in Disk

LEMMA Working ==
    ASSUME SiteShape, NEW k \in AllKinds, NEW s \in StepsOf[k] \cup {"rollback"}, step = s,
           s # "rollback" \/ job.kind = k
    PROVE  AtWork(s, k) /\ s # "idle"
<1>1. s # "idle"  BY DEF AllKinds, StepsOf
<1>2. job # None  BY <1>1, WorkerBusy
<1>3. job \in Request /\ job.kind = k  BY <1>2, StepTellsKind
<1>4. QED  BY <1>1, <1>3, SiteAssumption DEF AtWork, SiteShape, SiteTypes, Request

LEMMA CreateUserEnds ==
    ASSUME SiteShape, CreateUser
    PROVE  /\ AtWork("user", "create") /\ Same
           /\ disk' = disk \/ disk' = [disk EXCEPT !.user = @ \cup {User}]
           /\ \/ /\ User \notin disk.user /\ disk' = [disk EXCEPT !.user = @ \cup {User}]
                 /\ step' = "dirs" /\ ToUndo' = {"user"} \cup ToUndo
              \/ step' = "rollback" /\ undo' = <<>> /\ ToUndo' = {}
                 /\ (disk' = disk \/ "useradd" \in Faults)
<1> DEFINE added == [disk EXCEPT !.user = @ \cup {User}]
<1>1. AtWork("user", "create") /\ At("user")
  BY Working DEF CreateUser, At, AllKinds, StepsOf
<1>2. added \in Disk /\ disk \in Disk  BY <1>1 DEF AtWork, Disk, User
<1>3. ASSUME User \notin disk.user, Proceed(added, "dirs", <<"user">>)
      PROVE  /\ Same /\ disk' = added /\ step' = "dirs" /\ ToUndo' = {"user"} \cup ToUndo
  BY <1>1, <1>2, <1>3, StepRegistering DEF AtWork, StepsOf, CreateUndo
<1>4. ASSUME NEW dk \in {disk, added}, Return(dk), dk = disk \/ "useradd" \in Faults
      PROVE  Same /\ disk' = dk /\ undo' = <<>> /\ ToUndo' = {} /\ step' = "rollback"
  BY <1>1, <1>2, <1>4, StepReturning DEF AtWork
<1>5. QED  BY <1>1, <1>3, <1>4 DEF CreateUser

LEMMA CreateDirectoriesEnds ==
    ASSUME SiteShape, CreateDirectories
    PROVE  /\ AtWork("dirs", "create") /\ Same
           /\ \E w \in {disk.web[job.domain], IF disk.web[job.domain] = None
                                              THEN job.no ELSE disk.web[job.domain]},
                 l \in {disk.logs, disk.logs \cup {job.domain}} :
                 disk' = [disk EXCEPT !.web[job.domain] = w, !.logs = l]
           /\ \/ step' = "deploy" /\ ToUndo' = {"logs", "web"} \cup ToUndo
              \/ "disk" \in Faults /\ step' = "rollback" /\ undo' = undo /\ ToUndo' = ToUndo
<1> DEFINE d == job.domain
           web == [disk EXCEPT !.web[d] = IF @ = None THEN job.no ELSE @]
           both == [web EXCEPT !.logs = @ \cup {d}]
           w == IF disk.web[d] = None THEN job.no ELSE disk.web[d]
<1>1. AtWork("dirs", "create") /\ At("dirs")
  BY Working DEF CreateDirectories, At, AllKinds, StepsOf
<1>2. web \in Disk /\ both \in Disk /\ disk \in Disk  BY <1>1 DEF AtWork, Disk
<1>3. /\ disk = [disk EXCEPT !.web[d] = disk.web[d], !.logs = disk.logs]
      /\ web = [disk EXCEPT !.web[d] = w, !.logs = disk.logs]
      /\ both = [disk EXCEPT !.web[d] = w, !.logs = disk.logs \cup {d}]
  BY <1>1 DEF AtWork, Disk
<1>4. ASSUME Proceed(both, "deploy", <<"logs", "web">>)
      PROVE  Same /\ disk' = both /\ step' = "deploy" /\ ToUndo' = {"logs", "web"} \cup ToUndo
  <2>1. undo' \in Seq(UndoNames) /\ ToUndo' = {"logs", "web"} \cup ToUndo
    BY <1>1, <1>4, PushedTwo DEF Proceed, AtWork, SiteShape, TaskShape, UndoNames, CreateUndo
  <2>2. ToUndo' \subseteq CreateUndo
    BY <1>1, <2>1, NoneAssumption DEF AtWork, SiteShape, TaskShape, CreateUndo
  <2>3. QED
    BY <1>1, <1>2, <1>4, <2>1, <2>2, WorkStep, NoneAssumption
       DEF Same, At, Proceed, AtWork, SiteShape, SiteTypes, StepsOf
<1>5. ASSUME NEW dk \in {disk, web}, Fail("disk", dk)
      PROVE  /\ Same /\ disk' = dk /\ undo' = undo /\ ToUndo' = ToUndo /\ step' = "rollback"
             /\ "disk" \in Faults
  BY <1>1, <1>2, <1>5, StepAborting DEF AtWork, Fail
<1>6. QED
  <2>1. CASE Proceed(both, "deploy", <<"logs", "web">>)  BY <1>1, <1>3, <1>4, <2>1
  <2>2. ASSUME NEW dk \in {disk, web}, Fail("disk", dk)
        PROVE  /\ Same /\ "disk" \in Faults /\ step' = "rollback" /\ undo' = undo /\ ToUndo' = ToUndo
               /\ \E v \in {disk.web[d], w}, l \in {disk.logs, disk.logs \cup {d}} :
                    disk' = [disk EXCEPT !.web[d] = v, !.logs = l]
    BY <1>3, <1>5, <2>2
  <2>3. QED  BY <1>1, <2>1, <2>2 DEF CreateDirectories

LEMMA DeployFilesEnds ==
    ASSUME SiteShape, DeployFiles
    PROVE  /\ AtWork("deploy", "create") /\ Same /\ ToUndo' = ToUndo /\ undo' = undo
           /\ disk' = disk \/ disk' = [disk EXCEPT !.web[job.domain] = job.no]
           /\ \/ step' = "database" /\ disk' = [disk EXCEPT !.web[job.domain] = job.no]
              \/ "deploy" \in Faults /\ step' = "rollback"
<1> DEFINE owned == [disk EXCEPT !.web[job.domain] = job.no]
<1>1. AtWork("deploy", "create") /\ At("deploy")
  BY Working DEF DeployFiles, At, AllKinds, StepsOf
<1>2. owned \in Disk /\ disk \in Disk  BY <1>1 DEF AtWork, Disk
<1>3. ASSUME Proceed(owned, "database", <<>>)
      PROVE  Same /\ disk' = owned /\ undo' = undo /\ ToUndo' = ToUndo /\ step' = "database"
  BY <1>1, <1>2, <1>3, StepOn DEF AtWork, StepsOf
<1>4. ASSUME NEW dk \in {disk, owned}, Fail("deploy", dk)
      PROVE  /\ Same /\ disk' = dk /\ undo' = undo /\ ToUndo' = ToUndo /\ step' = "rollback"
             /\ "deploy" \in Faults
  BY <1>1, <1>2, <1>4, StepAborting DEF AtWork, Fail
<1>5. QED  BY <1>1, <1>3, <1>4 DEF DeployFiles

LEMMA CreateDatabaseEnds ==
    ASSUME SiteShape, CreateDatabase
    PROVE  /\ AtWork("database", "create") /\ Same
           /\ \E b \in {disk.db, disk.db \cup {Database}},
                 c \in {disk.cred[Database], None, job.no} :
                 disk' = [disk EXCEPT !.db = b, !.cred[Database] = c]
           /\ \/ /\ disk' = [disk EXCEPT !.db = @ \cup {Database}, !.cred[Database] = job.no]
                 /\ step' = "config" /\ ToUndo' = {"db"} \cup ToUndo
              \/ "mariadb" \in Faults /\ step' = "rollback" /\ undo' = undo /\ ToUndo' = ToUndo
<1> DEFINE created == [disk EXCEPT !.db = @ \cup {Database}]
           dropped == [created EXCEPT !.cred[Database] = None]
           granted == [created EXCEPT !.cred[Database] = job.no]
           image(dk) == \E b \in {disk.db, disk.db \cup {Database}},
                           c \in {disk.cred[Database], None, job.no} :
                           dk = [disk EXCEPT !.db = b, !.cred[Database] = c]
<1>1. AtWork("database", "create") /\ At("database") /\ Database \in Base
  BY Working DEF CreateDatabase, At, AllKinds, StepsOf, AtWork, Database
<1>2. created \in Disk /\ dropped \in Disk /\ granted \in Disk /\ disk \in Disk
  BY <1>1 DEF AtWork, Disk
<1>3. /\ disk = [disk EXCEPT !.db = disk.db, !.cred[Database] = disk.cred[Database]]
      /\ created = [disk EXCEPT !.db = disk.db \cup {Database},
                                !.cred[Database] = disk.cred[Database]]
      /\ dropped = [disk EXCEPT !.db = disk.db \cup {Database}, !.cred[Database] = None]
      /\ granted = [disk EXCEPT !.db = disk.db \cup {Database}, !.cred[Database] = job.no]
  BY <1>1 DEF AtWork, Disk
<1>4. image(disk) /\ image(created) /\ image(dropped) /\ image(granted)  BY <1>3
<1>5. ASSUME Proceed(granted, "config", <<"db">>)
      PROVE  /\ Same /\ disk' = granted /\ step' = "config" /\ ToUndo' = {"db"} \cup ToUndo
  BY <1>1, <1>2, <1>5, StepRegistering DEF AtWork, StepsOf, CreateUndo
<1>6. ASSUME NEW dk \in {disk, created, dropped, granted}, Fail("mariadb", dk)
      PROVE  /\ Same /\ disk' = dk /\ undo' = undo /\ ToUndo' = ToUndo /\ step' = "rollback"
             /\ "mariadb" \in Faults
  BY <1>1, <1>2, <1>6, StepAborting DEF AtWork, Fail
<1>7. \/ Proceed(granted, "config", <<"db">>)
      \/ \E dk \in {disk, created, dropped, granted} : Fail("mariadb", dk)
  BY DEF CreateDatabase
<1>8. image(disk')
  <2>1. disk' \in {disk, created, dropped, granted}  BY <1>5, <1>6, <1>7
  <2> HIDE DEF created, dropped, granted, image
  <2>2. QED  BY <1>4, <2>1
<1>9. QED  BY <1>1, <1>3, <1>5, <1>6, <1>7, <1>8

LEMMA WriteConfigEnds ==
    ASSUME SiteShape, WriteConfig
    PROVE  /\ AtWork("config", "create") /\ Same /\ disk' = disk /\ undo' = undo
           /\ ToUndo' = ToUndo
           /\ step' = "pool" \/ ("disk" \in Faults /\ step' = "rollback")
<1>1. AtWork("config", "create") /\ At("config") /\ disk \in Disk
  BY Working DEF WriteConfig, At, AllKinds, StepsOf, AtWork
<1>2. ASSUME Proceed(disk, "pool", <<>>)
      PROVE  Same /\ disk' = disk /\ undo' = undo /\ ToUndo' = ToUndo /\ step' = "pool"
  BY <1>1, <1>2, StepOn DEF AtWork, StepsOf
<1>3. ASSUME Fail("disk", disk)
      PROVE  /\ Same /\ disk' = disk /\ undo' = undo /\ ToUndo' = ToUndo /\ step' = "rollback"
             /\ "disk" \in Faults
  BY <1>1, <1>3, StepAborting DEF AtWork, Fail
<1>4. QED  BY <1>1, <1>2, <1>3 DEF WriteConfig

LEMMA CreatePoolEnds ==
    ASSUME SiteShape, CreatePool
    PROVE  /\ AtWork("pool", "create") /\ Same
           /\ \/ /\ disk' = [disk EXCEPT !.pool = @ \cup {job.domain}]
                 /\ step' = "http" /\ ToUndo' = {"pool"} \cup ToUndo
              \/ /\ disk' = disk /\ step' = "rollback" /\ undo' = undo /\ ToUndo' = ToUndo
<1> DEFINE pooled == [disk EXCEPT !.pool = @ \cup {job.domain}]
<1>1. AtWork("pool", "create") /\ At("pool")
  BY Working DEF CreatePool, At, AllKinds, StepsOf
<1>2. pooled \in Disk /\ disk \in Disk  BY <1>1 DEF AtWork, Disk
<1>3. ASSUME Proceed(pooled, "http", <<"pool">>)
      PROVE  Same /\ disk' = pooled /\ step' = "http" /\ ToUndo' = {"pool"} \cup ToUndo
  BY <1>1, <1>2, <1>3, StepRegistering DEF AtWork, StepsOf, CreateUndo
<1>4. ASSUME Fail("fpm", disk)
      PROVE  Same /\ disk' = disk /\ undo' = undo /\ ToUndo' = ToUndo /\ step' = "rollback"
  BY <1>1, <1>2, <1>4, StepAborting DEF AtWork, Fail
<1>5. QED  BY <1>1, <1>3, <1>4 DEF CreatePool

LEMMA ApplyHttpEnds ==
    ASSUME SiteShape, ApplyHttp
    PROVE  /\ AtWork("http", "create") /\ Same
           /\ \E o \in ApplyNginxConfig(Plain(job.domain)) :
                /\ disk' = o.disk
                /\ \/ /\ o.ok /\ step' = (IF job.ssl THEN "cert" ELSE "row")
                      /\ ToUndo' = {"nginx"} \cup ToUndo
                   \/ ~o.ok /\ step' = "rollback" /\ undo' = undo /\ ToUndo' = ToUndo
<1>1. AtWork("http", "create") /\ At("http")
  BY Working DEF ApplyHttp, At, AllKinds, StepsOf
<1>2. PICK o \in ApplyNginxConfig(Plain(job.domain)) :
         IF o.ok THEN Proceed(o.disk, IF job.ssl THEN "cert" ELSE "row", <<"nginx">>)
                 ELSE Abort(o.disk)
  BY DEF ApplyHttp
<1>3. o.disk \in Disk  BY <1>1, NginxStep, NginxConfs DEF AtWork
<1>4. CASE o.ok
  <2> DEFINE next == IF job.ssl THEN "cert" ELSE "row"
  <2>1. next \in StepsOf[job.kind] \cup {"rollback"} /\ Proceed(o.disk, next, <<"nginx">>)
    BY <1>1, <1>2, <1>4 DEF AtWork, StepsOf
  <2>2. Same /\ disk' = o.disk /\ step' = next /\ ToUndo' = {"nginx"} \cup ToUndo
    <3> HIDE DEF next
    <3>1. QED  BY <1>1, <1>3, <2>1, StepRegistering DEF AtWork, CreateUndo
  <2>3. QED  BY <1>1, <1>4, <2>2
<1>5. CASE ~o.ok
  <2>1. Same /\ disk' = o.disk /\ undo' = undo /\ ToUndo' = ToUndo /\ step' = "rollback"
    BY <1>1, <1>2, <1>3, <1>5, StepAborting DEF AtWork
  <2>2. QED  BY <1>1, <1>5, <2>1
<1>6. QED  BY <1>4, <1>5

LEMMA ObtainFirstCertEnds ==
    ASSUME SiteShape, ObtainFirstCert
    PROVE  /\ AtWork("cert", "create") /\ Same
           /\ \/ disk' = [disk EXCEPT !.cert[job.domain] = "valid"] /\ step' = "https"
                 /\ ToUndo' = {"cert"} \cup ToUndo
              \/ /\ \E c \in {"none", "empty", "valid"} : disk' = [disk EXCEPT !.cert[job.domain] = c]
                 /\ step' = "rollback" /\ ToUndo' = {"cert"} \cup ToUndo
              \/ "disk" \in Faults /\ disk' = disk /\ step' = "rollback" /\ ToUndo' = ToUndo
<1> DEFINE d == job.domain
           cert(c) == [disk EXCEPT !.cert[d] = c]
           e == IF disk.cert[d] = "none" THEN "empty" ELSE disk.cert[d]
<1>1. AtWork("cert", "create") /\ At("cert")
  BY Working DEF ObtainFirstCert, At, AllKinds, StepsOf
<1>2. e \in {"none", "empty", "valid"}  BY <1>1 DEF AtWork, Disk
<1>3. cert("valid") \in Disk /\ cert(e) \in Disk /\ disk \in Disk
  BY <1>1, <1>2 DEF AtWork, Disk
<1>4. ASSUME Proceed(cert("valid"), "https", <<"cert">>)
      PROVE  Same /\ disk' = cert("valid") /\ step' = "https" /\ ToUndo' = {"cert"} \cup ToUndo
  BY <1>1, <1>3, <1>4, StepRegistering DEF AtWork, StepsOf, CreateUndo
<1>5. ASSUME Fail("disk", disk)
      PROVE  /\ Same /\ disk' = disk /\ undo' = undo /\ ToUndo' = ToUndo /\ step' = "rollback"
             /\ "disk" \in Faults
  BY <1>1, <1>3, <1>5, StepAborting DEF AtWork, Fail
<1>6. ASSUME Proceed(cert(e), "rollback", <<"cert">>)
      PROVE  Same /\ disk' = cert(e) /\ step' = "rollback" /\ ToUndo' = {"cert"} \cup ToUndo
  <2> HIDE DEF e
  <2>1. QED  BY <1>1, <1>3, <1>6, StepRegistering DEF AtWork, StepsOf, CreateUndo
<1>7. cert(e) = [disk EXCEPT !.cert[d] = IF @ = "none" THEN "empty" ELSE @]
  BY <1>1 DEF AtWork, Disk
<1>8. \/ Proceed(cert("valid"), "https", <<"cert">>) \/ Fail("disk", disk)
      \/ Proceed(cert(e), "rollback", <<"cert">>)
  BY <1>7 DEF ObtainFirstCert
<1> HIDE DEF e
<1>9. QED  BY <1>1, <1>2, <1>4, <1>5, <1>6, <1>8

LEMMA ApplyHttpsEnds ==
    ASSUME SiteShape, ApplyHttps
    PROVE  /\ AtWork("https", "create") /\ Same /\ ToUndo' = ToUndo
           /\ \E o \in ApplyNginxConfig(Secure(job.domain)) :
                disk' = o.disk /\ step' = (IF o.ok THEN "row" ELSE "rollback")
<1>1. AtWork("https", "create") /\ At("https")
  BY Working DEF ApplyHttps, At, AllKinds, StepsOf
<1>2. PICK o \in ApplyNginxConfig(Secure(job.domain)) :
         IF o.ok THEN Proceed(o.disk, "row", <<>>) ELSE Abort(o.disk)
  BY DEF ApplyHttps
<1>3. o.disk \in Disk  BY <1>1, NginxStep, NginxConfs DEF AtWork
<1>4. CASE o.ok
  <2>1. Same /\ disk' = o.disk /\ step' = "row" /\ ToUndo' = ToUndo
    BY <1>1, <1>2, <1>3, <1>4, StepOn DEF AtWork, StepsOf
  <2>2. QED  BY <1>1, <1>4, <2>1
<1>5. CASE ~o.ok
  <2>1. Same /\ disk' = o.disk /\ step' = "rollback" /\ ToUndo' = ToUndo
    BY <1>1, <1>2, <1>3, <1>5, StepAborting DEF AtWork
  <2>2. QED  BY <1>1, <1>5, <2>1
<1>6. QED  BY <1>4, <1>5

\* The row a creation inserts.
NewRow == [id |-> job.no, type |-> job.type, ssl |-> job.ssl, paused |-> FALSE]

LEMMA InsertRowEnds ==
    ASSUME SiteShape, InsertRow
    PROVE  /\ AtWork("row", "create") /\ SiteShape' /\ disk' = disk /\ job' = job
           /\ UNCHANGED outside /\ step' = "rollback" /\ NewRow \in Row
           /\ \/ rows[job.domain] = None /\ rows' = [rows EXCEPT ![job.domain] = NewRow]
                 /\ undo' = <<>> /\ ToUndo' = {}
              \/ rows' = rows /\ undo' = undo /\ ToUndo' = ToUndo
                 /\ (rows[job.domain] # None \/ "sqlite" \in Faults)
<1>1. AtWork("row", "create") /\ At("row")
  BY Working DEF InsertRow, At, AllKinds, StepsOf
<1>2. NewRow \in Row  BY <1>1 DEF AtWork, Row, NewRow
<1>3. ASSUME Update(job.domain, NewRow)
      PROVE  /\ SiteShape' /\ disk' = disk /\ rows' = [rows EXCEPT ![job.domain] = NewRow]
             /\ job' = job /\ UNCHANGED outside /\ undo' = <<>> /\ ToUndo' = {}
             /\ step' = "rollback"
  BY <1>1, <1>2, <1>3, StepUpdating DEF AtWork
<1>4. ASSUME Abort(disk)
      PROVE  Same /\ disk' = disk /\ undo' = undo /\ ToUndo' = ToUndo /\ step' = "rollback"
  BY <1>1, <1>4, StepAborting DEF AtWork
<1>5. QED  BY <1>1, <1>2, <1>3, <1>4 DEF InsertRow, NewRow, Same

(* The ways each step of a deletion can end.                                 *)

LEMMA RemoveFilesEnds ==
    ASSUME SiteShape, RemoveFiles
    PROVE  /\ AtWork("remove_files", "delete") /\ Same /\ step' = "drop_db"
           /\ \/ disk' = [disk EXCEPT !.web[job.domain] = None, !.logs = @ \ {job.domain},
                                      !.user = @ \ {User}]
              \/ /\ "useradd" \in Faults
                 /\ disk' = [disk EXCEPT !.web[job.domain] = None, !.logs = @ \ {job.domain}]
<1> DEFINE gone == [disk EXCEPT !.web[job.domain] = None, !.logs = @ \ {job.domain}]
           userless == [gone EXCEPT !.user = @ \ {User}]
<1>1. AtWork("remove_files", "delete") /\ At("remove_files")
  BY Working DEF RemoveFiles, At, AllKinds, StepsOf
<1>2. gone \in Disk /\ userless \in Disk  BY <1>1 DEF AtWork, Disk
<1>3. userless = [disk EXCEPT !.web[job.domain] = None, !.logs = @ \ {job.domain},
                              !.user = @ \ {User}]
  BY <1>1 DEF AtWork, Disk
<1>4. ASSUME NEW dk \in {gone, userless}, Proceed(dk, "drop_db", <<>>)
      PROVE  Same /\ disk' = dk /\ step' = "drop_db"
  BY <1>1, <1>2, <1>4, StepOn DEF AtWork, StepsOf
<1>5. QED  BY <1>1, <1>3, <1>4 DEF RemoveFiles

LEMMA DropDatabaseEnds ==
    ASSUME SiteShape, DropDatabase
    PROVE  /\ AtWork("drop_db", "delete") /\ Same /\ step' = "remove_conf"
           /\ \/ disk' = [disk EXCEPT !.db = @ \ {Database}, !.cred[Database] = None]
              \/ /\ "mariadb" \in Faults
                 /\ disk' = disk \/ disk' = [disk EXCEPT !.db = @ \ {Database}]
<1> DEFINE dropped == [disk EXCEPT !.db = @ \ {Database}]
           gone == [dropped EXCEPT !.cred[Database] = None]
<1>1. AtWork("drop_db", "delete") /\ At("drop_db") /\ Database \in Base
  BY Working DEF DropDatabase, At, AllKinds, StepsOf, AtWork, Database
<1>2. gone \in Disk /\ dropped \in Disk /\ disk \in Disk  BY <1>1 DEF AtWork, Disk
<1>3. gone = [disk EXCEPT !.db = @ \ {Database}, !.cred[Database] = None]
  BY <1>1 DEF AtWork, Disk
<1>4. ASSUME NEW dk \in {disk, dropped, gone}, Proceed(dk, "remove_conf", <<>>)
      PROVE  Same /\ disk' = dk /\ step' = "remove_conf"
  <2>1. "remove_conf" \in StepsOf[job.kind]  BY <1>1 DEF AtWork, StepsOf
  <2> HIDE DEF dropped, gone
  <2>2. QED  BY <1>1, <1>2, <1>4, <2>1, StepOn DEF AtWork
<1>5. QED  BY <1>1, <1>3, <1>4 DEF DropDatabase

LEMMA RemoveConfsEnds ==
    ASSUME SiteShape, RemoveConfs
    PROVE  /\ AtWork("remove_conf", "delete") /\ Same /\ step' = "delete_row"
           /\ disk' = [disk EXCEPT !.pool = @ \ {job.domain}, !.link = @ \ {job.domain},
                                   !.conf[job.domain] = None]
<1> DEFINE dk == [disk EXCEPT !.pool = @ \ {job.domain}, !.link = @ \ {job.domain},
                              !.conf[job.domain] = None]
<1>1. AtWork("remove_conf", "delete") /\ At("remove_conf")
  BY Working DEF RemoveConfs, At, AllKinds, StepsOf
<1>2. dk \in Disk  BY <1>1 DEF AtWork, Disk
<1>3. Proceed(dk, "delete_row", <<>>)  BY DEF RemoveConfs
<1> HIDE DEF dk
<1>4. Same /\ disk' = dk /\ step' = "delete_row"
  BY <1>1, <1>2, <1>3, StepOn DEF AtWork, StepsOf
<1>5. QED  BY <1>1, <1>4 DEF dk

LEMMA DeleteRowEnds ==
    ASSUME SiteShape, DeleteRow
    PROVE  /\ AtWork("delete_row", "delete") /\ SiteShape' /\ job' = job /\ step' = "rollback"
           /\ UNCHANGED <<pending, regens, sent, started, crashes>>
           /\ disk' = [disk EXCEPT !.cert[job.domain] = "none"]
           /\ \/ HasRow /\ rows' = [rows EXCEPT ![job.domain] = None] /\ broken' = broken
              \/ ~HasRow /\ rows' = rows /\ broken' = broken
              \/ "sqlite" \in Faults /\ rows' = rows /\ broken' = broken \cup {job.site}
<1>1. AtWork("delete_row", "delete")
  BY Working DEF DeleteRow, AllKinds, StepsOf
<1>2. disk' \in Disk  BY <1>1 DEF AtWork, Disk, DeleteRow
<1>3. rows' \in [Domain -> Row \cup {None}] /\ broken' \subseteq Site
  BY <1>1 DEF AtWork, SiteShape, SiteTypes, DeleteRow
<1>4. undo' \in Seq(UndoNames) /\ ToUndo' = {}  BY Emptied DEF DeleteRow
<1>5. job' = job /\ step' = "rollback" /\ UNCHANGED <<pending, regens, sent, started, crashes>>
  BY DEF DeleteRow
<1>6. SiteShape'
  BY <1>1, <1>2, <1>3, <1>4, <1>5
     DEF AtWork, SiteShape, SiteTypes, TaskShape, InFlight
<1>7. QED  BY <1>1, <1>5, <1>6 DEF DeleteRow

(* The status, the certificate, and the tasks that rewrite a configuration.  *)

\* The rows of the sites stay, with their identity.
RowsKept == \A d \in Domain :
    /\ rows'[d] = None <=> rows[d] = None
    /\ rows[d] # None => rows'[d].id = rows[d].id /\ rows'[d].type = rows[d].type

SslKept == \A d \in Domain : rows[d] # None => rows'[d].ssl = rows[d].ssl

LEMMA RowUpdated ==
    ASSUME SiteShape, NEW s, s # "idle", At(s), job.domain \in Domain, NEW row, UpdateRow(row),
           HasRow => /\ row \in Row /\ row.id = rows[job.domain].id
                     /\ row.type = rows[job.domain].type
    PROVE  /\ SiteShape' /\ disk' = disk /\ job' = job /\ UNCHANGED outside /\ RowsKept
           /\ step' = "rollback"
           /\ (HasRow => row.ssl = rows[job.domain].ssl) => SslKept
<1> DEFINE d == job.domain
           new == IF HasRow THEN row ELSE rows[d]
<1>1. rows \in [Domain -> Row \cup {None}] /\ None \notin Row
  BY NoneAssumption DEF SiteShape, SiteTypes
<1>2. new \in Row \cup {None} /\ (new = None <=> rows[d] = None)
  BY <1>1 DEF HasRow
<1>3. Update(d, new)  BY DEF UpdateRow
<1>4. rows[d] # None => new.id = rows[d].id /\ new.type = rows[d].type  OBVIOUS
<1>5. (HasRow => row.ssl = rows[d].ssl) => (rows[d] # None => new.ssl = rows[d].ssl)
  OBVIOUS
<1> HIDE DEF new
<1>6. /\ SiteShape' /\ disk' = disk /\ rows' = [rows EXCEPT ![d] = new] /\ job' = job
      /\ UNCHANGED outside /\ step' = "rollback"
  BY <1>2, <1>3, StepUpdating
<1>7. \A e \in Domain : rows'[e] = IF e = d THEN new ELSE rows[e]  BY <1>1, <1>6
<1>8. QED  BY <1>2, <1>4, <1>5, <1>6, <1>7 DEF RowsKept, SslKept

LEMMA RelinkEnds ==
    ASSUME SiteShape, NEW s, s # "idle", At(s), disk \in Disk, NEW links \in SUBSET Domain,
           NEW next \in StepsOf[job.kind], Relink(links, next)
    PROVE  Same /\ disk' = [disk EXCEPT !.link = links] /\ step' \in {next, "rollback"}
<1> DEFINE dk == [disk EXCEPT !.link = links]
<1>1. dk \in Disk  BY DEF Disk
<1>2. Proceed(dk, next, <<>>) \/ Return(dk)  BY DEF Relink
<1> HIDE DEF dk
<1>3. Same /\ disk' = dk /\ step' \in {next, "rollback"}
  BY <1>1, <1>2, StepOn, StepReturning
<1>4. QED  BY <1>3 DEF dk

LEMMA UnlinkEnds ==
    ASSUME SiteShape, Unlink
    PROVE  /\ AtWork("unlink", "pause") /\ Same /\ step' \in {"set_paused", "rollback"}
           /\ disk' = [disk EXCEPT !.link = @ \ {job.domain}]
<1>1. AtWork("unlink", "pause") /\ At("unlink")
  BY Working DEF Unlink, At, AllKinds, StepsOf
<1>2. disk.link \ {job.domain} \in SUBSET Domain /\ disk \in Disk  BY <1>1 DEF AtWork, Disk
<1>3. "set_paused" \in StepsOf[job.kind]  BY <1>1 DEF AtWork, StepsOf
<1>4. QED  BY <1>1, <1>2, <1>3, RelinkEnds DEF Unlink

LEMMA LinkEnds ==
    ASSUME SiteShape, Link
    PROVE  /\ AtWork("link", "enable") /\ Same /\ step' \in {"set_active", "rollback"}
           /\ disk' = [disk EXCEPT !.link = @ \cup {job.domain}]
<1>1. AtWork("link", "enable") /\ At("link")
  BY Working DEF Link, At, AllKinds, StepsOf
<1>2. disk.link \cup {job.domain} \in SUBSET Domain /\ disk \in Disk  BY <1>1 DEF AtWork, Disk
<1>3. "set_active" \in StepsOf[job.kind]  BY <1>1 DEF AtWork, StepsOf
<1>4. QED  BY <1>1, <1>2, <1>3, RelinkEnds DEF Link

LEMMA SetStatusEnds ==
    ASSUME SiteShape, NEW paused \in BOOLEAN, SetStatus(paused)
    PROVE  /\ \/ AtWork("set_paused", "pause") \/ AtWork("set_active", "enable")
           /\ SiteShape' /\ disk' = disk /\ job' = job /\ UNCHANGED outside
           /\ RowsKept /\ SslKept /\ step' = "rollback"
<1> DEFINE s == IF paused THEN "set_paused" ELSE "set_active"
           row == [rows[job.domain] EXCEPT !.paused = paused]
<1>1. At(s) /\ s # "idle"  BY DEF SetStatus
<1>2. AtWork("set_paused", "pause") \/ AtWork("set_active", "enable")
  BY <1>1, Working DEF At, AllKinds, StepsOf
<1>3. job.domain \in Domain /\ disk \in Disk  BY <1>2 DEF AtWork
<1>4. CASE UpdateRow(row)
  <2>1. HasRow => /\ row \in Row /\ row.id = rows[job.domain].id
                  /\ row.type = rows[job.domain].type /\ row.ssl = rows[job.domain].ssl
    BY <1>3 DEF HasRow, SiteShape, SiteTypes, Row
  <2> HIDE DEF row, s
  <2>2. QED  BY <1>1, <1>2, <1>3, <1>4, <2>1, RowUpdated
<1>5. CASE Return(disk)
  <2> HIDE DEF s
  <2>1. Same /\ disk' = disk /\ step' = "rollback"  BY <1>1, <1>3, <1>5, StepReturning
  <2>2. QED  BY <1>2, <2>1 DEF Same, RowsKept, SslKept
<1>6. QED  BY <1>4, <1>5 DEF SetStatus

\* What a site's data is, apart from its row: user, files, database, password.
DataKept == /\ disk'.user = disk.user /\ disk'.web = disk.web
            /\ disk'.db = disk.db /\ disk'.cred = disk.cred

LEMMA CertData ==
    ASSUME disk \in Disk, NEW d \in Domain, NEW c \in {"none", "empty", "valid"}
    PROVE  /\ [disk EXCEPT !.cert[d] = c] \in Disk
           /\ disk' = [disk EXCEPT !.cert[d] = c] => DataKept
BY DEF Disk, DataKept

LEMMA NginxData ==
    ASSUME disk \in Disk, NEW c \in Conf, NEW o \in ApplyNginxConfig(c), disk' = o.disk
    PROVE  DataKept
BY NginxStep DEF DataKept

\* What the tasks of ssl.go and the status do to the data of sites: nothing.
Harmless(kind) ==
    /\ SiteShape' /\ job' = job /\ UNCHANGED outside /\ RowsKept /\ DataKept
    /\ job # None /\ job.kind = kind /\ step # "rollback"

LEMMA HarmlessStep ==
    ASSUME Same, DataKept, NEW s, NEW k, AtWork(s, k), s # "rollback"
    PROVE  Harmless(k)
BY NoneAssumption DEF Same, AtWork, Harmless, RowsKept

LEMMA SecuredHarmless ==
    ASSUME SiteShape, ObtainCert \/ ApplySecure \/ SetSSL
    PROVE  Harmless("ssl")
<1> DEFINE d == job.domain
           cert(c) == [disk EXCEPT !.cert[d] = c]
<1>1. /\ ObtainCert => AtWork("obtain", "ssl") /\ At("obtain")
      /\ ApplySecure => AtWork("secure", "ssl") /\ At("secure")
      /\ SetSSL => AtWork("set_ssl", "ssl") /\ At("set_ssl")
  BY Working DEF ObtainCert, ApplySecure, SetSSL, At, AllKinds, StepsOf
<1>2. d \in Domain /\ disk \in Disk /\ job.kind = "ssl" /\ job # None
  BY <1>1, NoneAssumption DEF AtWork
<1>3. \A c \in {"none", "empty", "valid"} : cert(c) \in Disk /\ (disk' = cert(c) => DataKept)
  BY <1>2, CertData
<1>4. CASE ObtainCert
  <2>1. Proceed(cert("valid"), "secure", <<>>) \/ Return(cert("empty")) \/ Return(cert("none"))
    BY <1>4 DEF ObtainCert
  <2> HIDE DEF cert
  <2>2. Same /\ DataKept
    BY <1>1, <1>2, <1>3, <1>4, <2>1, StepOn, StepReturning DEF StepsOf
  <2>3. QED  BY <1>1, <1>4, <2>2, HarmlessStep
<1>5. CASE ApplySecure
  <2>1. PICK o \in ApplyNginxConfig(Secure(d)) :
           IF o.ok THEN Proceed(o.disk, "set_ssl", <<>>)
                   ELSE Return([o.disk EXCEPT !.cert[d] = "none"])
    BY <1>5 DEF ApplySecure
  <2>2. /\ o.disk \in Disk /\ o.disk.user = disk.user /\ o.disk.web = disk.web
        /\ o.disk.db = disk.db /\ o.disk.cred = disk.cred
    BY <1>2, NginxStep, NginxConfs
  <2> DEFINE bare == [o.disk EXCEPT !.cert[d] = "none"]
  <2>3. /\ bare \in Disk /\ bare.user = disk.user /\ bare.web = disk.web
        /\ bare.db = disk.db /\ bare.cred = disk.cred
    BY <1>2, <2>2 DEF Disk
  <2> HIDE DEF bare
  <2>4. Proceed(o.disk, "set_ssl", <<>>) \/ Return(bare)  BY <2>1 DEF bare
  <2>5. Same /\ disk' \in {o.disk, bare}
    BY <1>1, <1>2, <1>5, <2>2, <2>3, <2>4, StepOn, StepReturning DEF StepsOf
  <2>6. DataKept  BY <2>2, <2>3, <2>5 DEF DataKept
  <2>7. QED  BY <1>1, <1>5, <2>5, <2>6, HarmlessStep
<1>6. CASE SetSSL
  <2> DEFINE row == [rows[d] EXCEPT !.ssl = TRUE]
  <2>1. CASE UpdateRow(row)
    <3>1. HasRow => row \in Row /\ row.id = rows[d].id /\ row.type = rows[d].type
      BY <1>2 DEF HasRow, SiteShape, SiteTypes, Row
    <3> HIDE DEF row
    <3>2. /\ SiteShape' /\ disk' = disk /\ job' = job /\ UNCHANGED outside /\ RowsKept
      BY <1>1, <1>2, <1>6, <2>1, <3>1, RowUpdated
    <3>3. QED  BY <1>1, <1>2, <1>6, <3>2 DEF Harmless, DataKept, AtWork
  <2>2. CASE Return(cert("none"))
    <3> HIDE DEF cert
    <3>1. Same /\ DataKept  BY <1>1, <1>2, <1>3, <1>6, <2>2, StepReturning
    <3>2. QED  BY <1>1, <1>6, <3>1, HarmlessStep
  <2>3. QED  BY <1>6, <2>1, <2>2 DEF SetSSL
<1>7. QED  BY <1>4, <1>5, <1>6

LEMMA UnsecuredHarmless ==
    ASSUME SiteShape, RemoveCert \/ ApplyPlain \/ ClearSSL
    PROVE  Harmless("unssl")
<1> DEFINE d == job.domain
           bare == [disk EXCEPT !.cert[d] = "none"]
<1>1. /\ RemoveCert => AtWork("remove_cert", "unssl") /\ At("remove_cert")
      /\ ApplyPlain => AtWork("plain", "unssl") /\ At("plain")
      /\ ClearSSL => AtWork("clear_ssl", "unssl") /\ At("clear_ssl")
  BY Working DEF RemoveCert, ApplyPlain, ClearSSL, At, AllKinds, StepsOf
<1>2. d \in Domain /\ disk \in Disk /\ job.kind = "unssl" /\ job # None
  BY <1>1, NoneAssumption DEF AtWork
<1>3. bare \in Disk /\ (disk' = bare => DataKept)  BY <1>2, CertData
<1>4. CASE RemoveCert
  <2>1. Proceed(bare, "plain", <<>>)  BY <1>4 DEF RemoveCert
  <2> HIDE DEF bare
  <2>2. Same /\ DataKept  BY <1>1, <1>2, <1>3, <1>4, <2>1, StepOn DEF StepsOf
  <2>3. QED  BY <1>1, <1>4, <2>2, HarmlessStep
<1>5. CASE ApplyPlain
  <2>1. PICK o \in ApplyNginxConfig(Plain(d)) :
           IF o.ok THEN Proceed(o.disk, "clear_ssl", <<>>) ELSE Return(o.disk)
    BY <1>5 DEF ApplyPlain
  <2>2. o.disk \in Disk /\ (disk' = o.disk => DataKept)
    BY <1>2, NginxStep, NginxData, NginxConfs
  <2>3. Same /\ disk' = o.disk
    BY <1>1, <1>2, <1>5, <2>1, <2>2, StepOn, StepReturning DEF StepsOf
  <2>4. QED  BY <1>1, <1>5, <2>2, <2>3, HarmlessStep
<1>6. CASE ClearSSL
  <2> DEFINE row == [rows[d] EXCEPT !.ssl = FALSE]
  <2>1. CASE UpdateRow(row)
    <3>1. HasRow => row \in Row /\ row.id = rows[d].id /\ row.type = rows[d].type
      BY <1>2 DEF HasRow, SiteShape, SiteTypes, Row
    <3> HIDE DEF row
    <3>2. /\ SiteShape' /\ disk' = disk /\ job' = job /\ UNCHANGED outside /\ RowsKept
      BY <1>1, <1>2, <1>6, <2>1, <3>1, RowUpdated
    <3>3. QED  BY <1>1, <1>2, <1>6, <3>2 DEF Harmless, DataKept, AtWork
  <2>2. CASE Return(disk)
    <3>1. Same /\ disk' = disk  BY <1>1, <1>2, <1>6, <2>2, StepReturning
    <3>2. QED  BY <1>1, <1>6, <3>1, HarmlessStep DEF DataKept
  <2>3. QED  BY <1>6, <2>1, <2>2 DEF ClearSSL
<1>7. QED  BY <1>4, <1>5, <1>6

LEMMA RewriteEnds ==
    ASSUME SiteShape, Rewrite
    PROVE  /\ AtWork("apply", "rewrite") /\ Same /\ step' = "rollback"
           /\ \E o \in ApplyNginxConfig(ConfOf(job)) : disk' = o.disk
<1>1. AtWork("apply", "rewrite") /\ At("apply")
  BY Working DEF Rewrite, At, AllKinds, StepsOf
<1>2. PICK o \in ApplyNginxConfig(ConfOf(job)) : Return(o.disk)  BY DEF Rewrite
<1>3. o.disk \in Disk  BY <1>1, NginxStep, RequestConf DEF AtWork
<1>4. Same /\ disk' = o.disk /\ step' = "rollback"  BY <1>1, <1>2, <1>3, StepReturning
<1>5. QED  BY <1>1, <1>4

(* The ways each step of a change of the main domain can end.                *)

LEMMA MoveConfEnds ==
    ASSUME SiteShape, MoveConf
    PROVE  /\ AtWork("move_conf", "rename") /\ Same /\ DataKept
           /\ \/ step' = "move_pool" /\ ToUndo' = {"conf"} \cup ToUndo
              \/ step' = "rollback" /\ ToUndo' = {}
<1> DEFINE d == job.domain
           e == job.to
           unlinked == [disk EXCEPT
               !.link = @ \ ({d} \cup (IF disk.conf[e] = None THEN {} ELSE {e}))]
           moved == [unlinked EXCEPT !.conf[e] = disk.conf[d], !.conf[d] = None]
<1>1. AtWork("move_conf", "rename") /\ At("move_conf")
  BY Working DEF MoveConf, At, AllKinds, StepsOf
<1>2. d \in Domain /\ e \in Domain /\ disk \in Disk  BY <1>1 DEF AtWork
<1>3. unlinked \in Disk /\ (disk' = unlinked => DataKept)  BY <1>2 DEF Disk, DataKept
<1>4. moved \in Disk /\ (disk' = moved => DataKept)
  <2>1. moved = [disk EXCEPT !.link = unlinked.link, !.conf = moved.conf]
    BY <1>2 DEF Disk
  <2>2. unlinked.link \subseteq Domain  BY <1>3 DEF Disk
  <2>3. moved.conf \in [Domain -> Conf \cup {None}]
    <3>1. disk.conf \in [Domain -> Conf \cup {None}] /\ unlinked.conf = disk.conf  BY <1>2 DEF Disk
    <3>2. moved.conf = [disk.conf EXCEPT ![e] = disk.conf[d], ![d] = None]
      BY <1>2, <3>1 DEF Disk
    <3>3. QED  BY <1>2, <3>1, <3>2
  <2> HIDE DEF moved, unlinked
  <2>4. QED  BY <1>2, <2>1, <2>2, <2>3 DEF Disk, DataKept
<1>5. Proceed(moved, "move_pool", <<"conf">>) \/ Return(unlinked)  BY DEF MoveConf
<1> HIDE DEF moved, unlinked
<1>6. QED
  BY <1>1, <1>3, <1>4, <1>5, StepRegistering, StepReturning DEF AtWork, StepsOf, RenameUndo

LEMMA MovePoolEnds ==
    ASSUME SiteShape, MovePool
    PROVE  /\ AtWork("move_pool", "rename") /\ Same /\ DataKept
           /\ \/ step' = "move_web" /\ ToUndo' = {"old_pool"} \cup ToUndo
              \/ step' = "rollback" /\ undo' = undo
<1> DEFINE removed == [disk EXCEPT !.pool = @ \ {job.domain}, !.logs = @ \cup {job.to}]
           moved == [removed EXCEPT !.pool = @ \cup {job.to}]
<1>1. AtWork("move_pool", "rename") /\ At("move_pool")
  BY Working DEF MovePool, At, AllKinds, StepsOf
<1>2. removed \in Disk /\ (disk' = removed => DataKept)  BY <1>1 DEF AtWork, Disk, DataKept
<1>3. moved \in Disk /\ (disk' = moved => DataKept)  BY <1>1 DEF AtWork, Disk, DataKept
<1>4. Proceed(moved, "move_web", <<"old_pool">>) \/ Abort(removed)  BY DEF MovePool, Fail
<1> HIDE DEF moved, removed
<1>5. QED
  BY <1>1, <1>2, <1>3, <1>4, StepRegistering, StepAborting DEF AtWork, StepsOf, RenameUndo

LEMMA MoveWebEnds ==
    ASSUME SiteShape, MoveWeb
    PROVE  /\ AtWork("move_web", "rename") /\ Same
           /\ \/ /\ disk.web[job.domain] # None /\ disk.web[job.to] = None
                 /\ disk' = [disk EXCEPT !.web[job.to] = disk.web[job.domain],
                                         !.web[job.domain] = None]
                 /\ step' = "move_logs" /\ ToUndo' = {"old_web"} \cup ToUndo
                 /\ \A i \in 2..Len(undo') : undo'[i] \in ToUndo
              \/ disk' = disk /\ step' = "rollback" /\ undo' = undo
<1> DEFINE moved == [disk EXCEPT !.web[job.to] = disk.web[job.domain],
                                 !.web[job.domain] = None]
           possible == disk.web[job.domain] # None /\ disk.web[job.to] = None
<1>1. AtWork("move_web", "rename") /\ At("move_web")
  BY Working DEF MoveWeb, At, AllKinds, StepsOf
<1>2. moved \in Disk  BY <1>1 DEF AtWork, Disk
<1>3. (possible /\ Proceed(moved, "move_logs", <<"old_web">>)) \/ Abort(disk)
  BY DEF MoveWeb
<1>4. ASSUME Proceed(moved, "move_logs", <<"old_web">>)
      PROVE  /\ Same /\ disk' = moved /\ step' = "move_logs"
             /\ ToUndo' = {"old_web"} \cup ToUndo
             /\ \A i \in 2..Len(undo') : undo'[i] \in ToUndo
  <2> HIDE DEF moved
  <2>1. QED  BY <1>1, <1>2, <1>4, StepRegistering DEF AtWork, StepsOf, RenameUndo
<1>5. ASSUME Abort(disk)
      PROVE  Same /\ disk' = disk /\ step' = "rollback" /\ undo' = undo
  BY <1>1, <1>5, StepAborting DEF AtWork
<1>6. QED  BY <1>1, <1>3, <1>4, <1>5

LEMMA MoveLogsEnds ==
    ASSUME SiteShape, MoveLogs
    PROVE  /\ AtWork("move_logs", "rename") /\ Same /\ disk' = disk
           /\ step' = "rollback" /\ undo' = undo
<1>1. AtWork("move_logs", "rename") /\ At("move_logs")
  BY Working DEF MoveLogs, At, AllKinds, StepsOf
<1>2. QED  BY <1>1, StepAborting DEF AtWork, MoveLogs

(* Rollback, and the end of a task.                                          *)

LEMMA UndoneMeans ==
    ASSUME NEW name \in UndoNames
    PROVE  /\ name = "user" => Undone(name) = [disk EXCEPT !.user = @ \ {User}]
           /\ name = "web" => Undone(name) = [disk EXCEPT !.web[job.domain] = None]
           /\ name = "logs" => Undone(name) = [disk EXCEPT !.logs = @ \ {job.domain}]
           /\ name = "db" => Undone(name) = [disk EXCEPT !.db = @ \ {Database},
                                                         !.cred[Database] = None]
           /\ name = "pool" => Undone(name) = [disk EXCEPT !.pool = @ \ {job.domain}]
           /\ name = "nginx" => Undone(name) = [disk EXCEPT !.link = @ \ {job.domain},
                                                            !.conf[job.domain] = None]
           /\ name = "cert" => Undone(name) = [disk EXCEPT !.cert[job.domain] = "none"]
           /\ name = "conf" => Undone(name) =
                 [disk EXCEPT !.link = @ \cup {job.domain}, !.conf[job.to] = None,
                    !.conf[job.domain] = IF disk.conf[job.to] = None THEN @
                                         ELSE disk.conf[job.to]]
           /\ name = "old_pool" => Undone(name) =
                 [disk EXCEPT !.pool = (@ \ {job.to}) \cup {job.domain}]
           /\ name = "old_web" => Undone(name) =
                 [disk EXCEPT !.web[job.domain] = disk.web[job.to], !.web[job.to] = None]
BY DEF Undone, UndoNames, CreateUndo, RenameUndo

LEMMA UndoneTyped ==
    ASSUME NEW name \in UndoNames, NEW k, AtWork("rollback", k)
    PROVE  Undone(name) \in Disk
<1> DEFINE d == job.domain
           e == job.to
<1>1. /\ d \in Domain /\ e \in Domain /\ disk \in Disk /\ Database \in Base
  BY DEF AtWork, Database
<1>2. name \in {"user", "logs", "pool"} => Undone(name) \in Disk
  <2>1. CASE name = "user"  BY <1>1, <2>1, UndoneMeans DEF Disk
  <2>2. CASE name = "logs"  BY <1>1, <2>2, UndoneMeans DEF Disk
  <2>3. CASE name = "pool"  BY <1>1, <2>3, UndoneMeans DEF Disk
  <2>4. QED  BY <2>1, <2>2, <2>3
<1>3. name \in {"web", "db", "cert", "nginx", "old_pool", "old_web"} => Undone(name) \in Disk
  <2>1. CASE name = "web"
    <3>1. Undone(name) = [disk EXCEPT !.web[d] = None]  BY <2>1, UndoneMeans
    <3>2. QED  BY <1>1, <3>1 DEF Disk
  <2>2. CASE name = "db"
    <3>1. Undone(name) = [disk EXCEPT !.db = @ \ {Database}, !.cred[Database] = None]
      BY <2>2, UndoneMeans
    <3>2. [disk EXCEPT !.db = @ \ {Database}, !.cred[Database] = None] \in Disk
      BY <1>1 DEF Disk
    <3>3. QED  BY <3>1, <3>2
  <2>3. CASE name = "cert"
    <3>1. Undone(name) = [disk EXCEPT !.cert[d] = "none"]  BY <2>3, UndoneMeans
    <3>2. QED  BY <1>1, <3>1 DEF Disk
  <2>4. CASE name = "nginx"
    <3>1. Undone(name) = [disk EXCEPT !.link = @ \ {d}, !.conf[d] = None]
      BY <2>4, UndoneMeans
    <3>2. [disk EXCEPT !.link = @ \ {d}, !.conf[d] = None] \in Disk
      BY <1>1 DEF Disk
    <3>3. QED  BY <3>1, <3>2
  <2>5. CASE name = "old_pool"
    <3>1. Undone(name) = [disk EXCEPT !.pool = (@ \ {e}) \cup {d}]  BY <2>5, UndoneMeans
    <3>2. QED  BY <1>1, <3>1 DEF Disk
  <2>6. CASE name = "old_web"
    <3>1. Undone(name) = [disk EXCEPT !.web[d] = disk.web[e], !.web[e] = None]
      BY <2>6, UndoneMeans
    <3> DEFINE web == [disk.web EXCEPT ![d] = disk.web[e], ![e] = None]
    <3>2. web \in [Domain -> Site \cup {None}]  BY <1>1 DEF Disk
    <3>3. Undone(name) = [disk EXCEPT !.web = web]  BY <1>1, <3>1 DEF Disk
    <3> HIDE DEF web
    <3>4. QED  BY <1>1, <3>2, <3>3 DEF Disk
  <2>7. QED  BY <2>1, <2>2, <2>3, <2>4, <2>5, <2>6
<1>4. CASE name = "conf"
  <2> DEFINE conf == [disk.conf EXCEPT ![e] = None,
                        ![d] = IF disk.conf[e] = None THEN @ ELSE disk.conf[e]]
             dk == [disk EXCEPT !.link = @ \cup {d}, !.conf = conf]
  <2>1. disk.conf \in [Domain -> Conf \cup {None}]  BY <1>1 DEF Disk
  <2>2. conf \in [Domain -> Conf \cup {None}]  BY <1>1, <2>1
  <2>3. dk \in Disk
    <3> HIDE DEF conf
    <3>1. QED  BY <1>1, <2>2 DEF Disk
  <2>4. Undone(name) = dk
    <3>1. Undone(name) =
             [disk EXCEPT !.link = @ \cup {d}, !.conf[e] = None,
                !.conf[d] = IF disk.conf[e] = None THEN @ ELSE disk.conf[e]]
      BY <1>4, UndoneMeans
    <3>2. QED  BY <1>1, <2>1, <3>1 DEF Disk
  <2>5. QED  BY <2>3, <2>4
<1>5. QED  BY <1>2, <1>3, <1>4 DEF UndoNames, CreateUndo, RenameUndo

LEMMA RollbackEnds ==
    ASSUME SiteShape, Rollback
    PROVE  /\ job.kind \in {"create", "rename"} /\ AtWork("rollback", job.kind) /\ Same
           /\ step' = "rollback" /\ undo # <<>>
           /\ Head(undo) \in (IF job.kind = "create" THEN CreateUndo ELSE RenameUndo)
           /\ Head(undo) = undo[1] /\ Head(undo) \in ToUndo
           /\ ToUndo' \subseteq ToUndo /\ ToUndo \subseteq {Head(undo)} \cup ToUndo'
           /\ \A i \in 1..Len(undo') : \E j \in 2..Len(undo) : undo'[i] = undo[j]
           /\ \/ disk' = Undone(Head(undo))
              \/ /\ disk' = disk
                 /\ \/ Head(undo) = "user" /\ "useradd" \in Faults
                    \/ Head(undo) = "db" /\ "mariadb" \in Faults
<1>1. step = "rollback" /\ undo # <<>> /\ undo' = Tail(undo) /\ undo \in Seq(UndoNames)
  BY DEF Rollback, At, SiteShape, TaskShape
<1>2. /\ Head(undo) \in ToUndo /\ Head(undo) = undo[1] /\ undo' \in Seq(UndoNames)
      /\ ToUndo' \subseteq ToUndo /\ ToUndo \subseteq {Head(undo)} \cup ToUndo'
      /\ \A i \in 1..Len(undo') : \E j \in 2..Len(undo) : undo'[i] = undo[j]
  BY <1>1, Popped
<1>3. job # None  BY <1>1, WorkerBusy
<1>4. /\ job.kind \in {"create", "rename"}
      /\ ToUndo \subseteq (IF job.kind = "create" THEN CreateUndo ELSE RenameUndo)
  BY <1>2, <1>3 DEF SiteShape, TaskShape
<1>5. AtWork("rollback", job.kind)  BY <1>1, <1>4, Working DEF AllKinds
<1>6. Head(undo) \in UndoNames  BY <1>2, <1>4 DEF UndoNames
<1>7. /\ step' = "rollback" /\ rows' = rows /\ job' = job /\ UNCHANGED outside
      /\ \/ disk' = Undone(Head(undo))
         \/ /\ disk' = disk
            /\ \/ Head(undo) = "user" /\ "useradd" \in Faults
               \/ Head(undo) = "db" /\ "mariadb" \in Faults
  <2>1. DOMAIN UndoFault = {"user", "db"} /\ UndoFault["user"] = "useradd"
        /\ UndoFault["db"] = "mariadb"
    BY DEF UndoFault
  <2>2. step' = "rollback" /\ rows' = rows /\ job' = job /\ UNCHANGED outside
    BY <1>1 DEF Rollback, At
  <2>3. \/ disk' = Undone(Head(undo))
        \/ /\ disk' = disk /\ Head(undo) \in DOMAIN UndoFault
           /\ UndoFault[Head(undo)] \in Faults
    BY DEF Rollback
  <2>4. QED  BY <2>1, <2>2, <2>3
<1>8. disk' \in Disk  BY <1>5, <1>6, <1>7, UndoneTyped DEF AtWork
<1>9. Same
  BY <1>2, <1>3, <1>4, <1>7, <1>8, WorkStep DEF Same, SiteShape, SiteTypes
<1>10. QED  BY <1>1, <1>2, <1>4, <1>5, <1>7, <1>9

LEMMA FinishEnds ==
    ASSUME SiteShape, Finish
    PROVE  /\ SiteShape' /\ job # None /\ job' = None /\ step' = "idle" /\ step = "rollback"
           /\ undo = <<>> /\ undo' = undo /\ rows' = rows /\ disk' = disk /\ UNCHANGED outside
<1>1. InFlight' <= MaxInFlight
  BY WorkerBusy, FS_CardinalityType, SiteAssumption
     DEF Finish, SiteShape, SiteTypes, InFlight, outside
<1>2. job # None  BY WorkerBusy DEF Finish
<1>3. QED  BY <1>1, <1>2, EmptySeq DEF Finish, SiteShape, SiteTypes, TaskShape, outside

(* Requests, regenerations and crashes.                                      *)

LEMMA SubmitEnds ==
    ASSUME SiteShape, NEW k, NEW s, s \in Site, NEW d, d \in Domain, NEW t, t \in Type,
           NEW ssl, ssl \in BOOLEAN, NEW to, to \in Domain, Submit(k, s, d, t, ssl, to)
    PROVE  /\ SiteShape' /\ UNCHANGED <<rows, disk, work, regens, broken>> /\ k \in Kind
           /\ sent + 1 \in Site
           /\ pending' = pending \cup {[no |-> sent + 1, kind |-> k, site |-> s, domain |-> d,
                                        type |-> t, ssl |-> ssl, to |-> to]}
           /\ MaxInFlight \in {0, 1} => pending = {} /\ job = None
<1> DEFINE r == [no |-> sent + 1, kind |-> k, site |-> s, domain |-> d,
                 type |-> t, ssl |-> ssl, to |-> to]
<1>1. /\ MaxRequests \in Nat /\ MaxInFlight \in Nat /\ Kind \subseteq AllKinds
  BY SiteAssumption
<1>2. k \in Kind /\ sent < MaxRequests /\ sent \in 0..MaxRequests /\ InFlight < MaxInFlight
      /\ pending' = pending \cup {r} /\ sent' = sent + 1 /\ IsFiniteSet(pending)
      /\ UNCHANGED <<rows, disk, work, regens, started, crashes, broken>>
  BY DEF Submit, SiteShape, SiteTypes
<1>3. sent + 1 \in Site /\ sent' \in 0..MaxRequests  BY <1>1, <1>2 DEF Site
<1>4. r \in Request /\ r.kind = k  BY <1>1, <1>2, <1>3 DEF Request
<1>5. Cardinality(pending) \in Nat  BY <1>2, FS_CardinalityType
<1>6. IsFiniteSet(pending') /\ Cardinality(pending') \in Nat
      /\ Cardinality(pending') <= Cardinality(pending) + 1
  <2> HIDE DEF r
  <2>1. QED  BY <1>2, <1>5, FS_AddElement
<1>7. InFlight' <= MaxInFlight
  BY <1>1, <1>2, <1>5, <1>6 DEF InFlight, work
<1>8. MaxInFlight \in {0, 1} => pending = {} /\ job = None
  BY <1>1, <1>2, <1>5, FS_EmptySet DEF InFlight
<1> HIDE DEF r
<1>9. SiteShape'
  BY <1>2, <1>3, <1>4, <1>6, <1>7 DEF SiteShape, SiteTypes, TaskShape, ToUndo, work
<1>10. QED  BY <1>2, <1>3, <1>8, <1>9 DEF r

LEMMA TakeEnds ==
    ASSUME SiteShape, NEW r \in pending, Take(r)
    PROVE  /\ SiteShape' /\ job = None /\ job' = r /\ r \in Request /\ r.kind \in Kind
           /\ r.kind \in AllKinds /\ step' = FirstStep[r.kind] /\ undo' = <<>> /\ ToUndo' = {}
           /\ pending' = pending \ {r} /\ UNCHANGED <<rows, disk, regens, broken>>
           /\ MaxInFlight \in {0, 1} => pending' = {}
<1>1. MaxInFlight \in Nat /\ Kind \subseteq AllKinds  BY SiteAssumption
<1>2. r \in Request /\ r.kind \in Kind /\ IsFiniteSet(pending) /\ InFlight <= MaxInFlight
  BY DEF SiteShape, SiteTypes
<1>3. /\ job = None /\ job' = r /\ step' = FirstStep[r.kind] /\ undo' = <<>>
      /\ pending' = pending \ {r}
      /\ UNCHANGED <<rows, disk, regens, sent, started, crashes, broken>>
  BY DEF Take
<1>4. Cardinality(pending) \in Nat  BY <1>2, FS_CardinalityType
<1>5. IsFiniteSet(pending') /\ Cardinality(pending') = Cardinality(pending) - 1
  BY <1>2, <1>3, FS_RemoveElement
<1>6. InFlight' <= MaxInFlight /\ (MaxInFlight \in {0, 1} => Cardinality(pending') = 0)
      /\ Cardinality(pending') \in Nat
  <2>1. Cardinality(pending') \in Nat  BY <1>5, FS_CardinalityType
  <2>2. QED  BY <1>1, <1>2, <1>3, <1>4, <1>5, <2>1, NoneAssumption DEF InFlight
<1>7. MaxInFlight \in {0, 1} => pending' = {}  BY <1>5, <1>6, FS_EmptySet
<1>8. undo' \in Seq(UndoNames) /\ ToUndo' = {}  BY <1>3, Emptied
<1>9. step' \in StepsOf[r.kind]
  <2>1. \A k \in AllKinds : FirstStep[k] \in StepsOf[k]  BY DEF FirstStep, StepsOf, AllKinds
  <2>2. QED  BY <1>1, <1>2, <1>3, <2>1
<1>10. SiteShape'
  BY <1>2, <1>3, <1>5, <1>6, <1>8, <1>9, NoneAssumption
     DEF SiteShape, SiteTypes, TaskShape
<1>11. QED  BY <1>1, <1>2, <1>3, <1>7, <1>8, <1>10

LEMMA StartRegenEnds ==
    ASSUME SiteShape, NEW d \in Domain, StartRegen(d)
    PROVE  /\ SiteShape' /\ rows[d] # None /\ MaxRegens # 0
           /\ regens' = regens \cup {[server |-> d, tls |-> rows[d].ssl]}
           /\ UNCHANGED <<rows, disk, work, pending, broken>>
<1>1. rows[d] \in Row /\ started + 1 \in 0..MaxRegens /\ MaxRegens # 0
  BY SiteAssumption DEF StartRegen, SiteShape, SiteTypes
<1>2. [server |-> d, tls |-> rows[d].ssl] \in Conf  BY <1>1 DEF Row, Conf
<1>3. regens' \subseteq Conf  BY <1>2 DEF StartRegen, SiteShape, SiteTypes
<1>4. SiteShape'
  BY <1>1, <1>3 DEF StartRegen, SiteShape, SiteTypes, TaskShape, ToUndo, InFlight, work
<1>5. QED  BY <1>1, <1>4 DEF StartRegen

LEMMA FinishRegenEnds ==
    ASSUME SiteShape, NEW c \in regens, FinishRegen(c)
    PROVE  /\ SiteShape' /\ c \in Conf /\ regens' = regens \ {c}
           /\ \E o \in ApplyNginxConfig(c) : disk' = o.disk
           /\ UNCHANGED <<rows, work, pending, sent, started, crashes, broken>>
<1>1. c \in Conf /\ disk \in Disk  BY DEF SiteShape, SiteTypes
<1>2. PICK o \in ApplyNginxConfig(c) : disk' = o.disk  BY DEF FinishRegen
<1>3. disk' \in Disk  BY <1>1, <1>2, NginxStep
<1>4. SiteShape'
  BY <1>3 DEF FinishRegen, SiteShape, SiteTypes, TaskShape, ToUndo, InFlight, work
<1>5. QED  BY <1>1, <1>2, <1>4 DEF FinishRegen

LEMMA CrashEnds ==
    ASSUME SiteShape, Crash
    PROVE  /\ SiteShape' /\ MaxCrashes # 0 /\ pending' = {} /\ regens' = {} /\ job' = None
           /\ step' = "idle" /\ undo' = <<>> /\ rows' = rows /\ disk' = disk
           /\ broken' = broken \cup (IF job # None /\ job.kind \in {"delete", "rename"}
                                     THEN {job.site} ELSE {})
<1>1. crashes' \in 0..MaxCrashes /\ MaxCrashes # 0
  BY SiteAssumption DEF Crash, SiteShape, SiteTypes
<1>2. broken' \subseteq Site  BY DEF Crash, SiteShape, SiteTypes, Request
<1>3. IsFiniteSet(pending') /\ InFlight' <= MaxInFlight
  BY FS_EmptySet, SiteAssumption DEF Crash, InFlight
<1>4. SiteShape'
  BY <1>1, <1>2, <1>3, EmptySeq DEF Crash, SiteShape, SiteTypes, TaskShape
<1>5. QED  BY <1>1, <1>4 DEF Crash

(* Type correctness.                                                         *)

LEMMA ShapeInit ==
    ASSUME Init
    PROVE  SiteShape
<1>1. disk \in Disk  BY DEF Init, Disk
<1>2. IsFiniteSet(pending) /\ InFlight <= MaxInFlight
  BY FS_EmptySet, SiteAssumption DEF Init, InFlight
<1>3. SiteTypes
  BY <1>1, <1>2, SiteAssumption DEF Init, SiteTypes
<1>4. QED  BY <1>3, EmptySeq DEF Init, SiteShape, TaskShape

\* The handlers' part: a request is asked for a row as it is now.
LEMMA AskEnds ==
    ASSUME SiteShape, Ask
    PROVE  /\ SiteShape' /\ UNCHANGED <<rows, disk, work, regens, broken>>
           /\ MaxInFlight \in {0, 1} => pending = {} /\ job = None
           /\ \E r \in Request :
                /\ pending' = pending \cup {r} /\ r.kind \in Kind
                /\ r.kind = "create" => rows[r.domain] = None
                /\ r.kind # "create" => /\ rows[r.domain] # None /\ r.site = rows[r.domain].id
                                        /\ r.type = rows[r.domain].type
                                        /\ r.ssl = rows[r.domain].ssl
                /\ r.kind = "rename" => rows[r.to] = None
<1>1. rows \in [Domain -> Row \cup {None}]  BY DEF SiteShape, SiteTypes
<1>2. Kind \subseteq AllKinds  BY SiteAssumption
<1>3. ASSUME NEW d \in Domain, NEW t \in Type, NEW ssl \in BOOLEAN, RequestCreate(d, t, ssl)
      PROVE  /\ SiteShape' /\ UNCHANGED <<rows, disk, work, regens, broken>>
             /\ MaxInFlight \in {0, 1} => pending = {} /\ job = None
             /\ \E r \in Request : /\ pending' = pending \cup {r} /\ r.kind \in Kind
                                   /\ r.kind = "create" /\ rows[r.domain] = None
  <2> DEFINE r == [no |-> sent + 1, kind |-> "create", site |-> sent + 1, domain |-> d,
                   type |-> t, ssl |-> ssl, to |-> d]
  <2>1. sent < MaxRequests /\ sent \in 0..MaxRequests /\ MaxRequests \in Nat
    BY <1>3, SiteAssumption DEF RequestCreate, Submit, SiteShape, SiteTypes
  <2>2. sent + 1 \in Site  BY <2>1 DEF Site
  <2>3. /\ SiteShape' /\ UNCHANGED <<rows, disk, work, regens, broken>> /\ "create" \in Kind
        /\ pending' = pending \cup {r}
        /\ MaxInFlight \in {0, 1} => pending = {} /\ job = None
    <3>1. Submit("create", sent + 1, d, t, ssl, d)  BY <1>3 DEF RequestCreate
    <3>2. SiteShape'  BY <2>2, <3>1, SubmitEnds
    <3>3. UNCHANGED <<rows, disk, work, regens, broken>>  BY <2>2, <3>1, SubmitEnds
    <3>4. "create" \in Kind  BY <2>2, <3>1, SubmitEnds
    <3>5. pending' = pending \cup {r}  BY <2>2, <3>1, SubmitEnds
    <3>6. MaxInFlight \in {0, 1} => pending = {} /\ job = None  BY <2>2, <3>1, SubmitEnds
    <3>7. QED  BY <3>2, <3>3, <3>4, <3>5, <3>6
  <2>4. r \in Request  BY <1>2, <2>2, <2>3 DEF Request
  <2>5. r.kind = "create" /\ rows[r.domain] = None  BY <1>3 DEF RequestCreate
  <2> HIDE DEF r
  <2>6. QED  BY <2>3, <2>4, <2>5
<1>4. ASSUME NEW d \in Domain, NEW k, NEW e \in Domain, k # "create", rows[d] # None,
             k = "rename" => rows[e] = None,
             Submit(k, rows[d].id, d, rows[d].type, rows[d].ssl, e)
      PROVE  /\ SiteShape' /\ UNCHANGED <<rows, disk, work, regens, broken>>
             /\ MaxInFlight \in {0, 1} => pending = {} /\ job = None
             /\ \E r \in Request :
                  /\ pending' = pending \cup {r} /\ r.kind \in Kind /\ r.kind # "create"
                  /\ rows[r.domain] # None /\ r.site = rows[r.domain].id
                  /\ r.type = rows[r.domain].type /\ r.ssl = rows[r.domain].ssl
                  /\ r.kind = "rename" => rows[r.to] = None
  <2> DEFINE r == [no |-> sent + 1, kind |-> k, site |-> rows[d].id, domain |-> d,
                   type |-> rows[d].type, ssl |-> rows[d].ssl, to |-> e]
  <2>1. rows[d].id \in Site /\ rows[d].type \in Type /\ rows[d].ssl \in BOOLEAN
    BY <1>1, <1>4 DEF Row
  <2>2. /\ SiteShape' /\ UNCHANGED <<rows, disk, work, regens, broken>> /\ k \in Kind
        /\ sent + 1 \in Site /\ pending' = pending \cup {r}
        /\ MaxInFlight \in {0, 1} => pending = {} /\ job = None
    <3> DEFINE s == rows[d].id
               t == rows[d].type
               ssl == rows[d].ssl
    <3>1. s \in Site /\ t \in Type /\ ssl \in BOOLEAN /\ Submit(k, s, d, t, ssl, e)
      BY <1>4, <2>1
    <3> HIDE DEF s, t, ssl
    <3>2. SiteShape'  BY <3>1, SubmitEnds
    <3>3. UNCHANGED <<rows, disk, work, regens, broken>>  BY <3>1, SubmitEnds
    <3>4. k \in Kind /\ sent + 1 \in Site
      <4>1. k \in Kind  BY <3>1, SubmitEnds
      <4>2. sent + 1 \in Site  BY <3>1, SubmitEnds
      <4>3. QED  BY <4>1, <4>2
    <3>5. pending' = pending \cup {r}  BY <1>4 DEF Submit
    <3>6. MaxInFlight \in {0, 1} => pending = {} /\ job = None  BY <3>1, SubmitEnds
    <3>7. QED  BY <3>2, <3>3, <3>4, <3>5, <3>6
  <2>3. r \in Request  BY <1>2, <2>1, <2>2 DEF Request
  <2>4. /\ r.kind = k /\ r.domain = d /\ r.to = e /\ r.site = rows[d].id
        /\ r.type = rows[d].type /\ r.ssl = rows[d].ssl
    OBVIOUS
  <2> HIDE DEF r
  <2>5. QED  BY <1>4, <2>2, <2>3, <2>4
<1>5. ASSUME NEW k \in Kind, NEW d \in Domain, RequestChange(k, d)
      PROVE  /\ k # "create" /\ k # "rename" /\ rows[d] # None
             /\ Submit(k, rows[d].id, d, rows[d].type, rows[d].ssl, d)
  BY <1>5 DEF RequestChange
<1>6. ASSUME NEW d \in Domain, NEW e \in Domain, RequestRename(d, e)
      PROVE  /\ rows[d] # None /\ rows[e] = None
             /\ Submit("rename", rows[d].id, d, rows[d].type, rows[d].ssl, e)
  BY <1>6 DEF RequestRename
<1>7. CASE \E d \in Domain, t \in Type, ssl \in BOOLEAN : RequestCreate(d, t, ssl)
  BY <1>3, <1>7
<1>8. CASE \E k \in Kind, d \in Domain : RequestChange(k, d)
  BY <1>4, <1>5, <1>8
<1>9. CASE \E d, e \in Domain : RequestRename(d, e)
  BY <1>4, <1>6, <1>9
<1>10. QED  BY <1>7, <1>8, <1>9 DEF Ask

LEMMA WorkerShape ==
    ASSUME SiteShape, Worker
    PROVE  SiteShape'
<1>1. CASE \E r \in pending : Take(r)  BY <1>1, TakeEnds
<1>2. CASE Create
  BY <1>2, CreateUserEnds, CreateDirectoriesEnds, DeployFilesEnds, CreateDatabaseEnds,
     WriteConfigEnds, CreatePoolEnds, ApplyHttpEnds, ObtainFirstCertEnds, ApplyHttpsEnds,
     InsertRowEnds DEF Create, Same
<1>3. CASE Delete
  BY <1>3, RemoveFilesEnds, DropDatabaseEnds, RemoveConfsEnds, DeleteRowEnds DEF Delete, Same
<1>4. CASE Toggle
  BY <1>4, UnlinkEnds, LinkEnds, SetStatusEnds DEF Toggle, Same
<1>5. CASE Secured
  BY <1>5, SecuredHarmless, UnsecuredHarmless, RewriteEnds DEF Secured, Same, Harmless
<1>6. CASE Rename
  BY <1>6, MoveConfEnds, MovePoolEnds, MoveWebEnds, MoveLogsEnds DEF Rename, Same
<1>7. CASE Rollback  BY <1>7, RollbackEnds DEF Same
<1>8. CASE Finish  BY <1>8, FinishEnds
<1>9. QED  BY <1>1, <1>2, <1>3, <1>4, <1>5, <1>6, <1>7, <1>8 DEF Worker

LEMMA ShapeStep ==
    ASSUME SiteShape, [Next]_vars
    PROVE  SiteShape'
<1>1. CASE Ask  BY <1>1, AskEnds
<1>2. CASE Worker  BY <1>2, WorkerShape
<1>3. CASE Regenerate  BY <1>3, StartRegenEnds, FinishRegenEnds DEF Regenerate
<1>4. CASE Crash  BY <1>4, CrashEnds
<1>5. CASE UNCHANGED vars
  BY <1>5 DEF vars, work, outside, SiteShape, SiteTypes, TaskShape, ToUndo, InFlight
<1>6. QED  BY <1>1, <1>2, <1>3, <1>4, <1>5 DEF Next

\* A task is under way exactly when the worker is at one of its steps, its
\* steps are those of its kind, and only creations and renames have anything to
\* roll back.
THEOREM SiteShapeHolds == Spec => []SiteShape
<1>1. Init => SiteShape  BY ShapeInit
<1>2. SiteShape /\ [Next]_vars => SiteShape'  BY ShapeStep
<1>3. QED  BY <1>1, <1>2, PTL DEF Spec

\* Each variable has its type, and no more requests are in flight than allowed.
THEOREM SiteTyping == Spec => []TypeOK
<1>1. SiteShape => TypeOK
  <2>1. ASSUME SiteShape PROVE TypeOK
    <3>1. job = None <=> step = "idle"
      BY <2>1, StepTellsKind DEF SiteShape, TaskShape
    <3>2. Cardinality(pending) <= MaxInFlight
      BY <2>1, FS_CardinalityType, SiteAssumption DEF SiteShape, SiteTypes, InFlight
    <3>3. QED  BY <2>1, <3>1, <3>2 DEF SiteShape, SiteTypes, TypeOK
  <2>2. QED  BY <2>1
<1>2. QED  BY <1>1, SiteShapeHolds, PTL

(* The data of the sites.  What the code keeps apart, it keeps apart by the  *)
(* names: of the user, which useradd refuses twice, and of the database.  So *)
(* the sites keep their data if no two domains have one name and the handlers*)
(* do not work on stale rows (one request at a time); or, if all sites are of*)
(* one type and no deletion is cut off halfway, as long as requests are made *)
(* one at a time or none of them deletes or moves a site.                    *)

Alone == MaxInFlight \in {0, 1}
NothingMoves == Kind \cap {"delete", "rename"} = {}
NothingCut == NothingMoves \/ (MaxCrashes = 0 /\ "sqlite" \notin Faults)
OneType == \A t, u \in Type : t = u
NamesDiffer == \A d, e \in Domain : SiteName[d] = SiteName[e] => d = e

Careful == \/ Alone /\ NamesDiffer
           \/ OneType /\ NothingCut /\ (Alone \/ NothingMoves)

\* The row a request was made for is still as the handler read it.
Current(r) ==
  /\ r.kind = "create" => rows[r.domain] = None
  /\ r.kind # "create" => /\ rows[r.domain] # None /\ rows[r.domain].id = r.site
                          /\ rows[r.domain].type = r.type
  /\ r.kind = "rename" => rows[r.to] = None

RequestsCurrent == Alone =>
  /\ \A r \in pending : Current(r)
  /\ job # None => pending = {}
  /\ job # None /\ (step # "rollback" \/ job.kind = "rename") => Current(job)

NothingBroken == NothingCut => broken = {}

\* A creation that has made its user has the name of its site for itself.
NoneShares == \A e \in Registered : SiteName[e] # SiteName[job.domain]
CreationAlone ==
  job # None /\ job.kind = "create" /\ step # "user" /\ (step = "rollback" => ToUndo # {})
    => NoneShares

HasFiles == {"database", "config", "pool", "http", "cert", "https", "row"}
HasDatabase == HasFiles \ {"database"}

\* What a creation has made so far is there and its own.
CreationProgress ==
  job # None /\ job.kind = "create" =>
    /\ step \notin {"user", "rollback"} => User \in disk.user
    /\ step \in HasFiles => disk.web[job.domain] = job.no
    /\ step \in HasDatabase => Database \in disk.db /\ disk.cred[Database] = job.no

\* The files of a site whose domain changes are at the new domain, and the first
\* rollback step brings them back.
Away == job # None /\ job.kind = "rename" /\ step \in {"move_logs", "rollback"}
        /\ "old_web" \in ToUndo
OthersIntact(d) ==
  /\ disk.cred[SiteName[d]] = rows[d].id /\ SiteName[d] \in disk.db
  /\ <<rows[d].type, SiteName[d]>> \in disk.user
MoveTracked ==
  job # None /\ job.kind = "rename" =>
    /\ step \in {"move_conf", "move_pool", "move_web"} => "old_web" \notin ToUndo
    /\ step = "move_logs" => "old_web" \in ToUndo
    /\ \A i \in 2..Len(undo) : undo[i] # "old_web"
    /\ Away => \/ rows[job.domain].id \in broken
               \/ disk.web[job.to] = rows[job.domain].id /\ OthersIntact(job.domain)

Underway(d) == job # None /\ job.domain = d
               /\ ((job.kind = "delete" /\ step # "rollback") \/ Away)
SitesIntact ==
  \A d \in Registered : Intact(d) \/ rows[d].id \in broken \/ Underway(d)

DataInv == SiteShape /\ RequestsCurrent /\ NothingBroken /\ OwnDatabase /\ CreationAlone
           /\ CreationProgress /\ MoveTracked /\ SitesIntact

LEMMA DataInit ==
    ASSUME Init
    PROVE  DataInv
<1>1. SiteShape  BY ShapeInit
<1>2. Registered = {} /\ job = None /\ pending = {} /\ broken = {}
  BY DEF Init, Registered
<1>3. QED
  BY <1>1, <1>2 DEF DataInv, RequestsCurrent, NothingBroken, OwnDatabase, CreationAlone,
     CreationProgress, MoveTracked, SitesIntact

LEMMA CurrentKept ==
    ASSUME RowsKept, NEW r \in Request
    PROVE  Current(r)' <=> Current(r)
<1>1. r.domain \in Domain /\ r.to \in Domain  BY DEF Request
<1>2. QED  BY <1>1 DEF RowsKept, Current

LEMMA RegisteredKept ==
    ASSUME RowsKept
    PROVE  /\ Registered' = Registered
           /\ \A d \in Registered : d \in Domain /\ rows'[d].id = rows[d].id
                                    /\ rows'[d].type = rows[d].type
BY DEF RowsKept, Registered

LEMMA SameRows ==
    ASSUME rows' = rows
    PROVE  RowsKept
BY DEF RowsKept

LEMMA RequestsKept ==
    ASSUME SiteShape, RequestsCurrent, RowsKept, job' = job, pending' = pending, job # None,
           step # "rollback" \/ step' = "rollback"
    PROVE  RequestsCurrent'
<1>1. job \in Request /\ pending \subseteq Request  BY DEF SiteShape, SiteTypes
<1>2. SUFFICES ASSUME Alone'
               PROVE  /\ (\A r \in pending : Current(r))' /\ pending' = {}
                      /\ (step' # "rollback" \/ job.kind = "rename") => Current(job)'
  BY DEF RequestsCurrent
<1>3. /\ \A r \in pending : Current(r) /\ pending = {}
      /\ (step # "rollback" \/ job.kind = "rename") => Current(job)
  BY <1>2 DEF RequestsCurrent, Alone
<1>4. Current(job)' <=> Current(job)
  <2>1. job.domain \in Domain /\ job.to \in Domain  BY <1>1 DEF Request
  <2>2. QED  BY <2>1 DEF Current, RowsKept
<1>5. QED  BY <1>3, <1>4

\* Neither a creation, a deletion nor a rename: nothing about data changes.
LEMMA HarmlessData ==
    ASSUME DataInv, NEW k, k \notin {"create", "delete", "rename"}, Harmless(k)
    PROVE  DataInv'
<1>1. /\ SiteShape' /\ job' = job /\ job # None /\ job.kind = k /\ step # "rollback"
      /\ RowsKept /\ DataKept /\ pending' = pending /\ broken' = broken
  BY DEF Harmless, outside
<1>2. RequestsCurrent'  BY <1>1, RequestsKept DEF DataInv
<1>3. NothingBroken'  BY <1>1 DEF DataInv, NothingBroken, NothingCut
<1>4. OwnDatabase'  BY <1>1, RegisteredKept DEF DataInv, OwnDatabase
<1>5. CreationAlone' /\ CreationProgress' /\ MoveTracked'
  BY <1>1 DEF CreationAlone, CreationProgress, MoveTracked
<1>6. SitesIntact'
  <2>1. \A d \in Registered : Intact(d)' <=> Intact(d)
    BY <1>1, RegisteredKept DEF Intact, DataKept
  <2>2. \A d \in Registered : ~Underway(d)  BY <1>1 DEF Underway, Away
  <2>3. QED  BY <1>1, <2>1, <2>2, RegisteredKept DEF DataInv, SitesIntact
<1>7. QED  BY <1>1, <1>2, <1>3, <1>4, <1>5, <1>6 DEF DataInv

\* What a task does with its own user, files, database and password.
OwnData ==
  /\ \A d \in Domain \ {job.domain} : disk'.web[d] = disk.web[d]
  /\ \A b \in Base \ {Database} : /\ disk'.cred[b] = disk.cred[b]
                                  /\ b \in disk'.db <=> b \in disk.db
  /\ \A u : u # User => (u \in disk'.user <=> u \in disk.user)

LEMMA OthersKept ==
    ASSUME OwnData, rows' = rows, NEW d \in Registered, SiteName[d] # SiteName[job.domain]
    PROVE  Intact(d)' <=> Intact(d)
<1>1. d \in Domain /\ d # job.domain  BY DEF Registered
<1>2. SiteName[d] \in Base \ {Database}  BY <1>1, SiteAssumption DEF Database
<1>3. <<rows[d].type, SiteName[d]>> # User  BY DEF User
<1>4. QED  BY <1>1, <1>2, <1>3 DEF OwnData, Intact

LEMMA KeptIsOwn ==
    ASSUME DataKept
    PROVE  OwnData
BY DEF DataKept, OwnData

\* A step of a creation that has its name for itself.
LEMMA CreationStep ==
    ASSUME DataInv, Same, job # None, job.kind = "create", OwnData, NoneShares,
           step # "rollback" \/ step' = "rollback", CreationProgress'
    PROVE  DataInv'
<1>1. SiteShape' /\ rows' = rows /\ job' = job /\ pending' = pending /\ broken' = broken
  BY DEF Same, outside
<1>2. RowsKept /\ Registered' = Registered  BY <1>1, SameRows, RegisteredKept
<1>3. RequestsCurrent'  BY <1>1, <1>2, RequestsKept DEF DataInv
<1>4. NothingBroken' /\ OwnDatabase'
  BY <1>1, <1>2 DEF DataInv, NothingBroken, NothingCut, OwnDatabase
<1>5. CreationAlone' /\ MoveTracked'
  BY <1>1, <1>2 DEF CreationAlone, NoneShares, MoveTracked
<1>6. SitesIntact'
  <2>1. \A d \in Registered : Intact(d)' <=> Intact(d)  BY <1>1, OthersKept DEF NoneShares
  <2>2. \A d \in Registered : ~Underway(d)  BY DEF Underway, Away
  <2>3. QED  BY <1>1, <1>2, <2>1, <2>2 DEF DataInv, SitesIntact
<1>7. QED  BY <1>1, <1>3, <1>4, <1>5, <1>6 DEF DataInv

LEMMA HarmlessTasks ==
    ASSUME DataInv, Toggle \/ Secured
    PROVE  DataInv'
<1>1. SiteShape  BY DEF DataInv
<1>2. CASE Unlink
  <2>1. AtWork("unlink", "pause") /\ Same /\ disk' = [disk EXCEPT !.link = @ \ {job.domain}]
    BY <1>1, <1>2, UnlinkEnds
  <2>2. DataKept  BY <2>1 DEF AtWork, Disk, DataKept
  <2>3. QED  BY <2>1, <2>2, HarmlessStep, HarmlessData
<1>3. CASE Link
  <2>1. AtWork("link", "enable") /\ Same /\ disk' = [disk EXCEPT !.link = @ \cup {job.domain}]
    BY <1>1, <1>3, LinkEnds
  <2>2. DataKept  BY <2>1 DEF AtWork, Disk, DataKept
  <2>3. QED  BY <2>1, <2>2, HarmlessStep, HarmlessData
<1>4. CASE \E p \in BOOLEAN : SetStatus(p)
  <2>1. /\ AtWork("set_paused", "pause") \/ AtWork("set_active", "enable")
        /\ SiteShape' /\ disk' = disk /\ job' = job /\ UNCHANGED outside /\ RowsKept
    BY <1>1, <1>4, SetStatusEnds
  <2>2. DataKept  BY <2>1 DEF DataKept
  <2>3. Harmless("pause") \/ Harmless("enable")
    BY <2>1, <2>2, NoneAssumption DEF AtWork, Harmless
  <2>4. QED  BY <2>3, HarmlessData
<1>5. CASE Secured
  <2>1. CASE Rewrite
    <3>1. /\ AtWork("apply", "rewrite") /\ Same
          /\ \E o \in ApplyNginxConfig(ConfOf(job)) : disk' = o.disk
      BY <1>1, <2>1, RewriteEnds
    <3>2. DataKept  BY <3>1, RequestConf, NginxData DEF AtWork
    <3>3. QED  BY <3>1, <3>2, HarmlessStep, HarmlessData
  <2>2. CASE ObtainCert \/ ApplySecure \/ SetSSL
    BY <1>1, <2>2, SecuredHarmless, HarmlessData
  <2>3. CASE RemoveCert \/ ApplyPlain \/ ClearSSL
    BY <1>1, <2>3, UnsecuredHarmless, HarmlessData
  <2>4. QED  BY <1>5, <2>1, <2>2, <2>3 DEF Secured
<1>6. QED  BY <1>2, <1>3, <1>4, <1>5 DEF Toggle

\* useradd refuses a name in use, so a creation that made its user shares its
\* name with no site: the row it was asked for is still missing, or else every
\* site has its user, and the users of one name are of one type.
LEMMA NameIsFree ==
    ASSUME DataInv, Careful, AtWork("user", "create"), User \notin disk.user
    PROVE  NoneShares
<1>1. SUFFICES ASSUME NEW e \in Registered, SiteName[e] = SiteName[job.domain]
               PROVE  FALSE
  BY DEF NoneShares
<1>2. e \in Domain /\ rows[e] \in Row /\ rows[e].type \in Type /\ job # None
  BY NoneAssumption DEF Registered, DataInv, SiteShape, SiteTypes, Row, AtWork
<1>3. CASE Alone /\ NamesDiffer
  <2>1. e = job.domain  BY <1>1, <1>2, <1>3 DEF NamesDiffer, AtWork
  <2>2. Current(job)  BY <1>2, <1>3 DEF DataInv, RequestsCurrent, AtWork
  <2>3. QED  BY <2>1, <2>2 DEF Current, AtWork, Registered
<1>4. CASE OneType /\ NothingCut
  <2>1. broken = {} /\ ~Underway(e)
    BY <1>4 DEF DataInv, NothingBroken, Underway, Away, AtWork
  <2>2. <<rows[e].type, SiteName[e]>> \in disk.user
    BY <2>1 DEF DataInv, SitesIntact, Intact
  <2>3. rows[e].type = job.type  BY <1>2, <1>4 DEF OneType, AtWork
  <2>4. QED  BY <1>1, <2>2, <2>3 DEF User
<1>5. QED  BY <1>3, <1>4 DEF Careful

\* A creation that ends without a rollback.
LEMMA CreationGone ==
    ASSUME DataInv, Same, job # None, job.kind = "create", step # "rollback",
           step' = "rollback", ToUndo' = {}, \A d \in Registered : Intact(d) => Intact(d)'
    PROVE  DataInv'
<1>1. SiteShape' /\ rows' = rows /\ job' = job /\ pending' = pending /\ broken' = broken
  BY DEF Same, outside
<1>2. RowsKept /\ Registered' = Registered  BY <1>1, SameRows, RegisteredKept
<1>3. RequestsCurrent'  BY <1>1, <1>2, RequestsKept DEF DataInv
<1>4. NothingBroken' /\ OwnDatabase'
  BY <1>1, <1>2 DEF DataInv, NothingBroken, NothingCut, OwnDatabase
<1>5. CreationAlone' /\ MoveTracked'
  BY <1>1, <1>2 DEF CreationAlone, MoveTracked
<1>6. CreationProgress'  BY <1>1 DEF CreationProgress, HasDatabase, HasFiles
<1>7. SitesIntact'
  <2>1. \A d \in Registered : ~Underway(d)  BY DEF Underway, Away
  <2>2. QED  BY <1>1, <1>2, <2>1 DEF DataInv, SitesIntact
<1>8. QED  BY <1>1, <1>3, <1>4, <1>5, <1>6, <1>7 DEF DataInv

LEMMA CreateUserData ==
    ASSUME DataInv, Careful, CreateUser
    PROVE  DataInv'
<1>1. SiteShape  BY DEF DataInv
<1>2. /\ AtWork("user", "create") /\ Same
      /\ disk' = disk \/ disk' = [disk EXCEPT !.user = @ \cup {User}]
      /\ \/ /\ User \notin disk.user /\ disk' = [disk EXCEPT !.user = @ \cup {User}]
            /\ step' = "dirs"
         \/ step' = "rollback" /\ ToUndo' = {}
  BY <1>1, CreateUserEnds
<1>3. job # None /\ job.kind = "create" /\ step = "user" /\ disk \in Disk /\ job' = job
      /\ rows' = rows
  BY <1>2, NoneAssumption DEF AtWork, Same
<1>4. /\ disk'.web = disk.web /\ disk'.db = disk.db /\ disk'.cred = disk.cred
      /\ \A u : u # User => (u \in disk'.user <=> u \in disk.user)
      /\ disk.user \subseteq disk'.user
  BY <1>2, <1>3 DEF Disk
<1>5. CASE step' = "dirs"
  <2>1. User \notin disk.user /\ disk' = [disk EXCEPT !.user = @ \cup {User}]
    BY <1>2, <1>5
  <2>2. NoneShares  BY <1>2, <2>1, NameIsFree
  <2>3. OwnData  BY <1>4 DEF OwnData
  <2>4. User' \in disk'.user
    <3>1. User' = User  BY <1>3 DEF User
    <3>2. User \in disk'.user  BY <2>1, <1>3 DEF Disk
    <3>3. QED  BY <3>1, <3>2
  <2>5. CreationProgress'
    BY <1>3, <1>5, <2>4 DEF CreationProgress, HasDatabase, HasFiles
  <2>6. QED  BY <1>2, <1>3, <2>2, <2>3, <2>5, CreationStep
<1>6. CASE step' = "rollback" /\ ToUndo' = {}
  <2>1. \A d \in Registered : Intact(d) => Intact(d)'  BY <1>3, <1>4 DEF Intact
  <2>2. QED  BY <1>2, <1>3, <1>6, <2>1, CreationGone
<1>7. QED  BY <1>2, <1>5, <1>6

LEMMA CreateDirectoriesData ==
    ASSUME DataInv, CreateDirectories
    PROVE  DataInv'
<1>1. /\ AtWork("dirs", "create") /\ Same
      /\ \E w \in {disk.web[job.domain], IF disk.web[job.domain] = None
                                         THEN job.no ELSE disk.web[job.domain]},
            l \in {disk.logs, disk.logs \cup {job.domain}} :
            disk' = [disk EXCEPT !.web[job.domain] = w, !.logs = l]
      /\ step' \in {"deploy", "rollback"}
  BY CreateDirectoriesEnds DEF DataInv
<1>2. job # None /\ job.kind = "create" /\ step = "dirs" /\ disk \in Disk /\ job' = job
      /\ User' = User
  BY <1>1, NoneAssumption DEF AtWork, Same, User
<1>3. /\ disk'.user = disk.user /\ disk'.db = disk.db /\ disk'.cred = disk.cred
      /\ \A d \in Domain \ {job.domain} : disk'.web[d] = disk.web[d]
  BY <1>1, <1>2 DEF Disk
<1>4. OwnData  BY <1>3 DEF OwnData
<1>5. NoneShares  BY <1>2 DEF DataInv, CreationAlone
<1>6. CreationProgress'
  BY <1>1, <1>2, <1>3 DEF DataInv, CreationProgress, HasDatabase, HasFiles
<1>7. QED  BY <1>1, <1>2, <1>4, <1>5, <1>6, CreationStep

LEMMA DeployFilesData ==
    ASSUME DataInv, DeployFiles
    PROVE  DataInv'
<1>1. /\ AtWork("deploy", "create") /\ Same
      /\ disk' = disk \/ disk' = [disk EXCEPT !.web[job.domain] = job.no]
      /\ \/ step' = "database" /\ disk' = [disk EXCEPT !.web[job.domain] = job.no]
         \/ step' = "rollback"
  BY DeployFilesEnds DEF DataInv
<1>2. job # None /\ job.kind = "create" /\ step = "deploy" /\ disk \in Disk /\ job' = job
      /\ job.domain \in Domain /\ User' = User
  BY <1>1, NoneAssumption DEF AtWork, Same, User
<1>3. /\ disk'.user = disk.user /\ disk'.db = disk.db /\ disk'.cred = disk.cred
      /\ \A d \in Domain \ {job.domain} : disk'.web[d] = disk.web[d]
      /\ step' = "database" => disk'.web[job.domain] = job.no
  BY <1>1, <1>2 DEF Disk
<1>4. OwnData  BY <1>3 DEF OwnData
<1>5. NoneShares  BY <1>2 DEF DataInv, CreationAlone
<1>6. CreationProgress'
  BY <1>1, <1>2, <1>3 DEF DataInv, CreationProgress, HasDatabase, HasFiles
<1>7. QED  BY <1>1, <1>2, <1>4, <1>5, <1>6, CreationStep

LEMMA CreateDatabaseData ==
    ASSUME DataInv, CreateDatabase
    PROVE  DataInv'
<1>1. /\ AtWork("database", "create") /\ Same
      /\ \E b \in {disk.db, disk.db \cup {Database}},
            c \in {disk.cred[Database], None, job.no} :
            disk' = [disk EXCEPT !.db = b, !.cred[Database] = c]
      /\ \/ /\ disk' = [disk EXCEPT !.db = @ \cup {Database}, !.cred[Database] = job.no]
            /\ step' = "config"
         \/ step' = "rollback"
  BY CreateDatabaseEnds DEF DataInv
<1>2. job # None /\ job.kind = "create" /\ step = "database" /\ disk \in Disk /\ job' = job
      /\ Database \in Base /\ User' = User /\ Database' = Database
  BY <1>1, NoneAssumption DEF AtWork, Same, Database, User
<1>3. /\ disk'.user = disk.user /\ disk'.web = disk.web
      /\ \A b \in Base \ {Database} : /\ disk'.cred[b] = disk.cred[b]
                                      /\ b \in disk'.db <=> b \in disk.db
  BY <1>1, <1>2 DEF Disk
<1>4. ASSUME step' = "config" PROVE Database \in disk'.db /\ disk'.cred[Database] = job.no
  <2>1. disk' = [disk EXCEPT !.db = @ \cup {Database}, !.cred[Database] = job.no]
    BY <1>1, <1>4
  <2>2. disk'.db = disk.db \cup {Database} /\ disk'.cred = [disk.cred EXCEPT ![Database] = job.no]
    BY <1>2, <2>1 DEF Disk
  <2>3. disk.cred \in [Base -> Site \cup {None}]  BY <1>2 DEF Disk
  <2>4. QED  BY <1>2, <2>2, <2>3
<1>5. OwnData  BY <1>3 DEF OwnData
<1>6. NoneShares  BY <1>2 DEF DataInv, CreationAlone
<1>7. CreationProgress'
  BY <1>1, <1>2, <1>3, <1>4 DEF DataInv, CreationProgress, HasDatabase, HasFiles
<1>8. QED  BY <1>1, <1>2, <1>5, <1>6, <1>7, CreationStep

\* The steps after the database, up to the row, change nothing of the data.
LEMMA CreationKeeps ==
    ASSUME DataInv, NEW s, s \in HasDatabase, AtWork(s, "create"), Same, DataKept,
           step' \in HasDatabase \cup {"rollback"}
    PROVE  DataInv'
<1>1. job # None /\ job.kind = "create" /\ step = s /\ job' = job
  BY NoneAssumption DEF AtWork, Same
<1>2. s \notin {"user", "rollback"} /\ s \in HasFiles  BY DEF HasDatabase, HasFiles
<1>3. NoneShares  BY <1>1, <1>2 DEF DataInv, CreationAlone
<1>4. User' = User /\ Database' = Database  BY <1>1 DEF User, Database
<1>5. CreationProgress'
  BY <1>1, <1>2, <1>4
     DEF DataInv, CreationProgress, DataKept, HasDatabase, HasFiles
<1>6. QED  BY <1>1, <1>2, <1>3, <1>5, KeptIsOwn, CreationStep

LEMMA LateCreationData ==
    ASSUME DataInv, WriteConfig \/ CreatePool \/ ApplyHttp \/ ObtainFirstCert \/ ApplyHttps
    PROVE  DataInv'
<1>1. SiteShape  BY DEF DataInv
<1>2. CASE WriteConfig
  <2>1. AtWork("config", "create") /\ Same /\ disk' = disk /\ step' \in {"pool", "rollback"}
    BY <1>1, <1>2, WriteConfigEnds
  <2>2. QED  BY <2>1, CreationKeeps DEF DataKept, HasDatabase, HasFiles
<1>3. CASE CreatePool
  <2>1. /\ AtWork("pool", "create") /\ Same /\ step' \in {"http", "rollback"}
        /\ disk' = disk \/ disk' = [disk EXCEPT !.pool = @ \cup {job.domain}]
    BY <1>1, <1>3, CreatePoolEnds
  <2>2. DataKept  BY <2>1 DEF AtWork, Disk, DataKept
  <2>3. QED  BY <2>1, <2>2, CreationKeeps DEF HasDatabase, HasFiles
<1>4. CASE ApplyHttp
  <2>1. /\ AtWork("http", "create") /\ Same /\ step' \in {"cert", "row", "rollback"}
        /\ \E o \in ApplyNginxConfig(Plain(job.domain)) : disk' = o.disk
    BY <1>1, <1>4, ApplyHttpEnds
  <2>2. DataKept  BY <2>1, NginxConfs, NginxData DEF AtWork
  <2>3. QED  BY <2>1, <2>2, CreationKeeps DEF HasDatabase, HasFiles
<1>5. CASE ObtainFirstCert
  <2>1. /\ AtWork("cert", "create") /\ Same /\ step' \in {"https", "rollback"}
        /\ disk' = disk \/ \E c \in {"none", "empty", "valid"} :
                              disk' = [disk EXCEPT !.cert[job.domain] = c]
    BY <1>1, <1>5, ObtainFirstCertEnds
  <2>2. DataKept  BY <2>1, CertData DEF AtWork, DataKept
  <2>3. QED  BY <2>1, <2>2, CreationKeeps DEF HasDatabase, HasFiles
<1>6. CASE ApplyHttps
  <2>1. /\ AtWork("https", "create") /\ Same /\ step' \in {"row", "rollback"}
        /\ \E o \in ApplyNginxConfig(Secure(job.domain)) : disk' = o.disk
    BY <1>1, <1>6, ApplyHttpsEnds
  <2>2. DataKept  BY <2>1, NginxConfs, NginxData DEF AtWork
  <2>3. QED  BY <2>1, <2>2, CreationKeeps DEF HasDatabase, HasFiles
<1>7. QED  BY <1>2, <1>3, <1>4, <1>5, <1>6

LEMMA InsertRowData ==
    ASSUME DataInv, InsertRow
    PROVE  DataInv'
<1> PICK d : d = job.domain  OBVIOUS
<1>1. /\ AtWork("row", "create") /\ SiteShape' /\ disk' = disk /\ job' = job
      /\ UNCHANGED outside /\ step' = "rollback" /\ NewRow \in Row
      /\ \/ rows[d] = None /\ rows' = [rows EXCEPT ![d] = NewRow] /\ ToUndo' = {}
         \/ rows' = rows
  BY InsertRowEnds DEF DataInv
<1>2. job # None /\ job.kind = "create" /\ step = "row" /\ d \in Domain
      /\ rows \in [Domain -> Row \cup {None}] /\ NewRow # None
  BY <1>1, NoneAssumption DEF AtWork, DataInv, SiteShape, SiteTypes
<1>3. CASE rows' = rows
  <2>1. Same /\ DataKept  BY <1>1, <1>3 DEF Same, DataKept
  <2>2. QED  BY <1>1, <2>1, CreationKeeps DEF HasDatabase, HasFiles
<1>4. CASE rows[d] = None /\ rows' = [rows EXCEPT ![d] = NewRow] /\ ToUndo' = {}
  <2>1. rows'[d] = NewRow /\ \A e \in Domain \ {d} : rows'[e] = rows[e]  BY <1>2, <1>4
  <2>2. Registered' = Registered \cup {d} /\ d \notin Registered
    BY <1>2, <1>4, <2>1 DEF Registered
  <2>3. NoneShares  BY <1>2 DEF DataInv, CreationAlone
  <2>4. OwnDatabase'  BY <2>2, <2>3 DEF DataInv, OwnDatabase, NoneShares
  <2>5. RequestsCurrent'
    BY <1>1, <1>2, <1>4 DEF DataInv, RequestsCurrent, Alone, outside
  <2>6. NothingBroken'  BY <1>1 DEF DataInv, NothingBroken, NothingCut, outside
  <2>7. CreationAlone' /\ CreationProgress' /\ MoveTracked'
    BY <1>1, <1>2, <1>4
       DEF CreationAlone, CreationProgress, MoveTracked, HasDatabase, HasFiles
  <2>8. SitesIntact'
    <3>1. NewRow.id = job.no /\ NewRow.type = job.type  BY DEF NewRow
    <3>2. /\ User \in disk.user /\ disk.web[d] = job.no /\ Database \in disk.db
          /\ disk.cred[Database] = job.no
      BY <1>2 DEF DataInv, CreationProgress, HasDatabase, HasFiles
    <3>3. Intact(d)'  BY <1>1, <2>1, <3>1, <3>2 DEF Intact, User, Database
    <3>4. ASSUME NEW e \in Registered
          PROVE  Intact(e)' \/ rows'[e].id \in broken'
      <4>1. e \in Domain \ {d}  BY <2>2 DEF Registered
      <4>2. rows'[e] = rows[e] /\ ~Underway(e) /\ broken' = broken
        BY <1>1, <1>2, <2>1, <4>1 DEF Underway, Away, outside
      <4>3. Intact(e) \/ rows[e].id \in broken  BY <4>2 DEF DataInv, SitesIntact
      <4>4. QED  BY <1>1, <4>2, <4>3 DEF Intact
    <3>5. \A e \in Registered' : (Intact(e) \/ rows[e].id \in broken)'
      BY <2>2, <3>3, <3>4
    <3>6. QED  BY <3>5 DEF SitesIntact
  <2>9. QED  BY <1>1, <2>4, <2>5, <2>6, <2>7, <2>8 DEF DataInv
<1>5. QED  BY <1>1, <1>3, <1>4

\* The rollback of a creation takes what is the creation's own.
LEMMA CreationUndone ==
    ASSUME DataInv, Rollback, job.kind = "create"
    PROVE  DataInv'
<1>1. /\ AtWork("rollback", "create") /\ Same /\ step' = "rollback"
      /\ Head(undo) \in CreateUndo /\ Head(undo) \in ToUndo
      /\ disk' = disk \/ disk' = Undone(Head(undo))
  BY RollbackEnds DEF DataInv
<1>2. job # None /\ job' = job /\ disk \in Disk /\ Database \in Base /\ step = "rollback"
  BY <1>1, NoneAssumption DEF AtWork, Same, Database
<1>3. NoneShares  BY <1>1, <1>2 DEF DataInv, CreationAlone
<1>4. OwnData
  <2>1. PICK name \in UndoNames : name = Head(undo) /\ name \in CreateUndo
    BY <1>1 DEF UndoNames
  <2>2. CASE disk' = disk  BY <2>2 DEF OwnData
  <2>3. CASE disk' = Undone(name) /\ name \in {"user", "web"}
    <3>1. CASE disk' = [disk EXCEPT !.user = @ \ {User}]
      <4>1. /\ disk'.user = disk.user \ {User} /\ disk'.web = disk.web
            /\ disk'.db = disk.db /\ disk'.cred = disk.cred
        BY <1>2, <3>1 DEF Disk
      <4>2. QED  BY <4>1 DEF OwnData
    <3>2. CASE disk' = [disk EXCEPT !.web[job.domain] = None]
      BY <1>2, <3>2 DEF OwnData, Disk
    <3>3. QED  BY <2>3, <3>1, <3>2, UndoneMeans
  <2>4. CASE disk' = Undone(name) /\ name \in {"logs", "pool", "nginx", "cert"}
    <3>1. CASE name \in {"logs", "pool"}
      BY <1>2, <2>4, <3>1, UndoneMeans, KeptIsOwn DEF DataKept, Disk
    <3>2. CASE name = "nginx"
      <4>1. disk' = [disk EXCEPT !.link = @ \ {job.domain}, !.conf[job.domain] = None]
        BY <2>4, <3>2, UndoneMeans
      <4>2. QED  BY <1>2, <4>1, KeptIsOwn DEF DataKept, Disk
    <3>3. CASE name = "cert"
      <4>1. disk' = [disk EXCEPT !.cert[job.domain] = "none"]
        BY <2>4, <3>3, UndoneMeans
      <4>2. QED  BY <1>2, <4>1, KeptIsOwn DEF DataKept, Disk
    <3>4. QED  BY <2>4, <3>1, <3>2, <3>3
  <2>5. CASE disk' = Undone(name) /\ name = "db"
    <3>1. disk' = [disk EXCEPT !.db = @ \ {Database}, !.cred[Database] = None]
      BY <2>5, UndoneMeans
    <3>2. QED  BY <1>2, <3>1 DEF OwnData, Disk
  <2>6. QED  BY <1>1, <2>1, <2>2, <2>3, <2>4, <2>5 DEF CreateUndo
<1>5. CreationProgress'  BY <1>1 DEF CreationProgress, HasDatabase, HasFiles
<1>6. QED  BY <1>1, <1>2, <1>3, <1>4, <1>5, CreationStep

\* A deletion or a rename works on a row that is still as it was read.
LEMMA RowIsCurrent ==
    ASSUME DataInv, Careful, NEW s, NEW k, AtWork(s, k), k \in {"delete", "rename"},
           s # "rollback" \/ k = "rename"
    PROVE  /\ Alone /\ pending = {} /\ ~NothingMoves /\ k \in Kind
           /\ job.domain \in Registered /\ rows[job.domain].id = job.site
           /\ rows[job.domain].type = job.type /\ HasRow
           /\ k = "rename" => rows[job.to] = None /\ job.to # job.domain
<1>1. job # None /\ k \in Kind /\ job.kind = k /\ step = s /\ job.domain \in Domain
  BY NoneAssumption DEF AtWork, DataInv, SiteShape, SiteTypes
<1>2. ~NothingMoves  BY <1>1 DEF NothingMoves
<1>3. Alone  BY <1>2 DEF Careful
<1>4. pending = {} /\ Current(job)  BY <1>1, <1>3 DEF DataInv, RequestsCurrent
<1>5. QED  BY <1>1, <1>2, <1>3, <1>4 DEF Current, Registered, HasRow

LEMMA OthersOwnName ==
    ASSUME DataInv, job.domain \in Registered, NEW e \in Registered, e # job.domain
    PROVE  SiteName[e] # SiteName[job.domain]
BY DEF DataInv, OwnDatabase

LEMMA DeletionStep ==
    ASSUME DataInv, Careful, NEW s, AtWork(s, "delete"), s # "rollback", Same, OwnData,
           step' # "rollback"
    PROVE  DataInv'
<1>1. SiteShape' /\ rows' = rows /\ job' = job /\ pending' = pending /\ broken' = broken
  BY DEF Same, outside
<1>2. RowsKept /\ Registered' = Registered  BY <1>1, SameRows, RegisteredKept
<1>3. job # None /\ job.kind = "delete" /\ step # "rollback" /\ job.domain \in Registered
  BY NoneAssumption, RowIsCurrent DEF AtWork
<1>4. RequestsCurrent'  BY <1>1, <1>2, <1>3, RequestsKept DEF DataInv
<1>5. NothingBroken' /\ OwnDatabase'
  BY <1>1, <1>2 DEF DataInv, NothingBroken, NothingCut, OwnDatabase
<1>6. CreationAlone' /\ CreationProgress' /\ MoveTracked'
  BY <1>1, <1>3 DEF CreationAlone, CreationProgress, MoveTracked
<1>7. SitesIntact'
  <2>1. ASSUME NEW e \in Registered
        PROVE  Intact(e)' \/ rows[e].id \in broken \/ Underway(e)'
    <3>1. CASE e = job.domain  BY <1>1, <1>3, <3>1 DEF Underway
    <3>2. CASE e # job.domain
      <4>1. SiteName[e] # SiteName[job.domain]  BY <1>3, <3>2, OthersOwnName
      <4>2. Intact(e)' <=> Intact(e)  BY <1>1, <4>1, OthersKept
      <4>3. Intact(e) \/ rows[e].id \in broken
        BY <3>2 DEF DataInv, SitesIntact, Underway
      <4>4. QED  BY <4>2, <4>3
    <3>3. QED  BY <3>1, <3>2
  <2>2. QED  BY <1>1, <1>2, <2>1 DEF SitesIntact
<1>8. QED  BY <1>1, <1>4, <1>5, <1>6, <1>7 DEF DataInv

LEMMA DeleteData ==
    ASSUME DataInv, Careful, RemoveFiles \/ DropDatabase \/ RemoveConfs
    PROVE  DataInv'
<1>1. SiteShape  BY DEF DataInv
<1>2. CASE RemoveFiles
  <2>1. /\ AtWork("remove_files", "delete") /\ Same /\ step' = "drop_db"
        /\ \/ disk' = [disk EXCEPT !.web[job.domain] = None, !.logs = @ \ {job.domain},
                                   !.user = @ \ {User}]
           \/ disk' = [disk EXCEPT !.web[job.domain] = None, !.logs = @ \ {job.domain}]
    BY <1>1, <1>2, RemoveFilesEnds
  <2>2. disk \in Disk /\ job.domain \in Domain  BY <2>1 DEF AtWork
  <2>3. ASSUME disk' = [disk EXCEPT !.web[job.domain] = None, !.logs = @ \ {job.domain},
                                    !.user = @ \ {User}]
        PROVE  OwnData
    <3>1. /\ disk'.db = disk.db /\ disk'.cred = disk.cred /\ disk'.user = disk.user \ {User}
          /\ \A d \in Domain \ {job.domain} : disk'.web[d] = disk.web[d]
      BY <2>2, <2>3 DEF Disk
    <3>2. QED  BY <3>1 DEF OwnData
  <2>4. ASSUME disk' = [disk EXCEPT !.web[job.domain] = None, !.logs = @ \ {job.domain}]
        PROVE  OwnData
    <3>1. /\ disk'.db = disk.db /\ disk'.cred = disk.cred /\ disk'.user = disk.user
          /\ \A d \in Domain \ {job.domain} : disk'.web[d] = disk.web[d]
      BY <2>2, <2>4 DEF Disk
    <3>2. QED  BY <3>1 DEF OwnData
  <2>5. OwnData  BY <2>1, <2>3, <2>4
  <2>6. QED  BY <2>1, <2>5, DeletionStep
<1>3. CASE DropDatabase
  <2>1. /\ AtWork("drop_db", "delete") /\ Same /\ step' = "remove_conf"
        /\ \/ disk' = [disk EXCEPT !.db = @ \ {Database}, !.cred[Database] = None]
           \/ disk' = disk
           \/ disk' = [disk EXCEPT !.db = @ \ {Database}]
    BY <1>1, <1>3, DropDatabaseEnds
  <2>2. disk \in Disk /\ Database \in Base  BY <2>1 DEF AtWork, Database
  <2>3. disk'.web = disk.web /\ disk'.user = disk.user  BY <2>1, <2>2 DEF Disk
  <2>4. /\ \A b \in Base \ {Database} : disk'.cred[b] = disk.cred[b]
        /\ disk'.db = disk.db \/ disk'.db = disk.db \ {Database}
    <3>1. CASE disk' = [disk EXCEPT !.db = @ \ {Database}, !.cred[Database] = None]
      BY <2>2, <3>1 DEF Disk
    <3>2. CASE disk' = [disk EXCEPT !.db = @ \ {Database}]  BY <2>2, <3>2 DEF Disk
    <3>3. QED  BY <2>1, <3>1, <3>2
  <2>5. OwnData  BY <2>3, <2>4 DEF OwnData
  <2>6. QED  BY <2>1, <2>5, DeletionStep
<1>4. CASE RemoveConfs
  <2>1. /\ AtWork("remove_conf", "delete") /\ Same /\ step' = "delete_row"
        /\ disk' = [disk EXCEPT !.pool = @ \ {job.domain}, !.link = @ \ {job.domain},
                                !.conf[job.domain] = None]
    BY <1>1, <1>4, RemoveConfsEnds
  <2>2. OwnData  BY <2>1 DEF AtWork, Disk, OwnData
  <2>3. QED  BY <2>1, <2>2, DeletionStep
<1>5. QED  BY <1>2, <1>3, <1>4

LEMMA DeleteRowData ==
    ASSUME DataInv, Careful, DeleteRow
    PROVE  DataInv'
<1> PICK d : d = job.domain  OBVIOUS
<1>1. /\ AtWork("delete_row", "delete") /\ SiteShape' /\ job' = job /\ step' = "rollback"
      /\ pending' = pending
      /\ disk' = [disk EXCEPT !.cert[d] = "none"]
      /\ \/ rows' = [rows EXCEPT ![d] = None] /\ broken' = broken
         \/ ~HasRow
         \/ "sqlite" \in Faults /\ rows' = rows /\ broken' = broken \cup {job.site}
  BY DeleteRowEnds DEF DataInv
<1>2. /\ Alone /\ pending = {} /\ ~NothingMoves /\ d \in Registered /\ rows[d].id = job.site
      /\ HasRow /\ job # None /\ job.kind = "delete" /\ d \in Domain
      /\ rows \in [Domain -> Row \cup {None}]
  BY <1>1, RowIsCurrent, NoneAssumption DEF AtWork, DataInv, SiteShape, SiteTypes
<1>3. DataKept  BY <1>1, <1>2, CertData DEF AtWork
<1>4. /\ \A e \in Registered' : e \in Registered /\ rows'[e] = rows[e]
      /\ d \in Registered' => rows[d].id \in broken'
      /\ broken \subseteq broken' /\ (NothingCut => broken' = broken)
  BY <1>1, <1>2, NoneAssumption DEF Registered, NothingCut
<1>5. RequestsCurrent'  BY <1>1, <1>2 DEF RequestsCurrent, Alone
<1>6. NothingBroken'  BY <1>4 DEF DataInv, NothingBroken, NothingCut
<1>7. OwnDatabase'  BY <1>4 DEF DataInv, OwnDatabase
<1>8. CreationAlone' /\ CreationProgress' /\ MoveTracked'
  BY <1>1, <1>2 DEF CreationAlone, CreationProgress, MoveTracked
<1>9. SitesIntact'
  <2>1. ASSUME NEW e \in Registered' PROVE Intact(e)' \/ rows'[e].id \in broken'
    <3>1. e \in Registered /\ rows'[e] = rows[e]  BY <1>4
    <3>2. CASE e = d  BY <1>4, <3>1, <3>2
    <3>3. CASE e # d
      <4>1. Intact(e) \/ rows[e].id \in broken
        BY <3>1, <3>3 DEF DataInv, SitesIntact, Underway
      <4>2. Intact(e) => Intact(e)'  BY <1>3, <3>1 DEF Intact, DataKept
      <4>3. QED  BY <1>4, <3>1, <4>1, <4>2
    <3>4. QED  BY <3>2, <3>3
  <2>2. QED  BY <2>1 DEF SitesIntact
<1>10. QED  BY <1>1, <1>5, <1>6, <1>7, <1>8, <1>9 DEF DataInv

LEMMA RenameStep ==
    ASSUME DataInv, NEW s, AtWork(s, "rename"), Same, s # "rollback" \/ step' = "rollback",
           MoveTracked', SitesIntact'
    PROVE  DataInv'
<1>1. SiteShape' /\ rows' = rows /\ job' = job /\ pending' = pending /\ broken' = broken
  BY DEF Same, outside
<1>2. RowsKept /\ Registered' = Registered  BY <1>1, SameRows, RegisteredKept
<1>3. job # None /\ job.kind = "rename" /\ step = s  BY NoneAssumption DEF AtWork
<1>4. RequestsCurrent'  BY <1>1, <1>2, <1>3, RequestsKept DEF DataInv
<1>5. NothingBroken' /\ OwnDatabase'
  BY <1>1, <1>2 DEF DataInv, NothingBroken, NothingCut, OwnDatabase
<1>6. CreationAlone' /\ CreationProgress'
  BY <1>1, <1>3 DEF CreationAlone, CreationProgress
<1>7. QED  BY <1>1, <1>4, <1>5, <1>6 DEF DataInv

\* A step that leaves the files of the site where they are.
LEMMA RenameKeeps ==
    ASSUME DataInv, NEW s, AtWork(s, "rename"), Same, DataKept,
           s # "rollback" \/ step' = "rollback", step' # "move_logs", ~Away, ~Away',
           step' # "rollback" => "old_web" \notin ToUndo',
           \A i \in 2..Len(undo') : undo'[i] # "old_web"
    PROVE  DataInv'
<1>1. rows' = rows /\ job' = job /\ broken' = broken  BY DEF Same, outside
<1>2. job # None /\ job.kind = "rename"  BY NoneAssumption DEF AtWork
<1>3. MoveTracked'  BY <1>1, <1>2 DEF MoveTracked
<1>4. SitesIntact'
  <2>1. Registered' = Registered  BY <1>1 DEF Registered
  <2>2. \A d \in Registered : Intact(d)' <=> Intact(d)  BY <1>1 DEF Intact, DataKept
  <2>3. \A d \in Registered : ~Underway(d)  BY <1>2 DEF Underway
  <2>4. QED  BY <1>1, <2>1, <2>2, <2>3 DEF DataInv, SitesIntact
<1>5. QED  BY <1>3, <1>4, RenameStep

LEMMA LaterNames ==
    ASSUME NEW s \in Seq(UndoNames), NEW i \in 2..Len(s)
    PROVE  s[i] \in {s[j] : j \in 1..Len(s)}
<1>1. i \in 1..Len(s)  BY LenProperties
<1>2. QED  BY <1>1

LEMMA MoveConfData ==
    ASSUME DataInv, MoveConf \/ MovePool
    PROVE  DataInv'
<1>1. SiteShape  BY DEF DataInv
<1>2. CASE MoveConf
  <2>1. /\ AtWork("move_conf", "rename") /\ Same /\ DataKept /\ SiteShape'
        /\ \/ step' = "move_pool" /\ ToUndo' = {"conf"} \cup ToUndo
           \/ step' = "rollback" /\ ToUndo' = {}
    BY <1>1, <1>2, MoveConfEnds DEF Same
  <2>2. job # None /\ job.kind = "rename" /\ step = "move_conf" /\ "old_web" \notin ToUndo
    BY <2>1, NoneAssumption DEF AtWork, DataInv, MoveTracked
  <2>3. "old_web" \notin ToUndo'  BY <2>1, <2>2
  <2>4. \A i \in 2..Len(undo') : undo'[i] # "old_web"
    <3>1. \A i \in 2..Len(undo') : undo'[i] \in ToUndo'
      BY <2>1, LaterNames DEF Same, SiteShape, TaskShape, ToUndo
    <3>2. QED  BY <2>3, <3>1
  <2>5. ~Away /\ ~Away'  BY <2>2, <2>3 DEF Away
  <2>6. QED  BY <2>1, <2>3, <2>4, <2>5, RenameKeeps
<1>3. CASE MovePool
  <2>1. /\ AtWork("move_pool", "rename") /\ Same /\ DataKept
        /\ \/ step' = "move_web" /\ ToUndo' = {"old_pool"} \cup ToUndo
           \/ step' = "rollback" /\ undo' = undo
    BY <1>1, <1>3, MovePoolEnds
  <2>2. job # None /\ job.kind = "rename" /\ step = "move_pool" /\ "old_web" \notin ToUndo
    BY <2>1, NoneAssumption DEF AtWork, DataInv, MoveTracked
  <2>3. "old_web" \notin ToUndo'
    <3>1. ToUndo' = ToUndo \/ ToUndo' = {"old_pool"} \cup ToUndo  BY <2>1 DEF ToUndo
    <3>2. QED  BY <2>2, <3>1
  <2>4. \A i \in 2..Len(undo') : undo'[i] # "old_web"
    <3>1. \A i \in 2..Len(undo') : undo'[i] \in ToUndo'
      BY <2>1, LaterNames DEF Same, SiteShape, TaskShape, ToUndo
    <3>2. QED  BY <2>3, <3>1
  <2>5. ~Away /\ ~Away'  BY <2>2, <2>3 DEF Away
  <2>6. QED  BY <2>1, <2>3, <2>4, <2>5, RenameKeeps
<1>4. QED  BY <1>2, <1>3

LEMMA MoveWebData ==
    ASSUME DataInv, Careful, MoveWeb
    PROVE  DataInv'
<1> PICK d, e : d = job.domain /\ e = job.to  OBVIOUS
<1>1. /\ AtWork("move_web", "rename") /\ Same
      /\ \/ /\ disk' = [disk EXCEPT !.web[e] = disk.web[d], !.web[d] = None]
            /\ step' = "move_logs" /\ ToUndo' = {"old_web"} \cup ToUndo
            /\ \A i \in 2..Len(undo') : undo'[i] \in ToUndo
         \/ disk' = disk /\ step' = "rollback" /\ undo' = undo
  BY MoveWebEnds DEF DataInv
<1>2. /\ job # None /\ job.kind = "rename" /\ step = "move_web" /\ "old_web" \notin ToUndo
      /\ d \in Domain /\ e \in Domain /\ disk \in Disk /\ job' = job /\ rows' = rows
      /\ broken' = broken
  BY <1>1, NoneAssumption DEF AtWork, DataInv, MoveTracked, Same, outside
<1>3. CASE disk' = disk /\ step' = "rollback" /\ undo' = undo
  <2>1. ToUndo' = ToUndo /\ DataKept  BY <1>3 DEF ToUndo, DataKept
  <2>2. ~Away /\ ~Away'  BY <1>2, <2>1 DEF Away
  <2>3. \A i \in 2..Len(undo') : undo'[i] # "old_web"
    BY <1>2, <1>3 DEF DataInv, MoveTracked
  <2>4. QED  BY <1>1, <1>3, <2>1, <2>2, <2>3, RenameKeeps
<1>4. CASE /\ disk' = [disk EXCEPT !.web[e] = disk.web[d], !.web[d] = None]
           /\ step' = "move_logs" /\ ToUndo' = {"old_web"} \cup ToUndo
           /\ \A i \in 2..Len(undo') : undo'[i] \in ToUndo
  <2>1. rows[e] = None /\ e # d /\ d \in Registered  BY <1>1, RowIsCurrent
  <2>2. /\ disk'.user = disk.user /\ disk'.db = disk.db /\ disk'.cred = disk.cred
        /\ \A x \in Domain \ {d, e} : disk'.web[x] = disk.web[x]
        /\ disk'.web[e] = disk.web[d]
    <3> DEFINE web == [disk.web EXCEPT ![e] = disk.web[d], ![d] = None]
    <3>1. disk' = [disk EXCEPT !.web = web]  BY <1>2, <1>4 DEF Disk
    <3>2. /\ web[e] = disk.web[d]
          /\ \A x \in Domain \ {d, e} : web[x] = disk.web[x]
      BY <1>2, <2>1 DEF Disk
    <3> HIDE DEF web
    <3>3. QED  BY <1>2, <3>1, <3>2 DEF Disk
  <2>3. Away' /\ Underway(d)'
    BY <1>2, <1>4 DEF Away, Underway
  <2>4. Intact(d) \/ rows[d].id \in broken
    BY <1>2, <2>1 DEF DataInv, SitesIntact, Underway, Away
  <2>5. Intact(d) => disk'.web[e] = rows[d].id /\ OthersIntact(d)'
    BY <1>2, <2>2 DEF Intact, OthersIntact
  <2>6. MoveTracked'
    <3>1. \A i \in 2..Len(undo') : undo'[i] # "old_web"  BY <1>2, <1>4
    <3>2. job'.domain = d /\ job'.to = e  BY <1>2
    <3>3. rows'[d].id \in broken' \/ (disk'.web[e] = rows'[d].id /\ OthersIntact(d)')
      BY <1>2, <2>4, <2>5
    <3>4. OthersIntact(d)' => OthersIntact(job.domain)'  BY <3>2 DEF OthersIntact
    <3>5. QED  BY <1>2, <1>4, <3>1, <3>2, <3>3, <3>4 DEF MoveTracked
  <2>7. SitesIntact'
    <3>1. ASSUME NEW x \in Registered
          PROVE  Intact(x)' \/ rows[x].id \in broken \/ Underway(x)'
      <4>1. CASE x = d  BY <2>3, <4>1
      <4>2. CASE x # d
        <5>1. x \in Domain \ {d, e}  BY <2>1, <4>2 DEF Registered
        <5>2. Intact(x) => Intact(x)'  BY <1>2, <2>2, <5>1 DEF Intact
        <5>3. ~Underway(x)  BY <1>2 DEF Underway, Away
        <5>4. QED  BY <5>2, <5>3 DEF DataInv, SitesIntact
      <4>3. QED  BY <4>1, <4>2
    <3>2. Registered' = Registered  BY <1>2 DEF Registered
    <3>3. QED  BY <1>2, <3>1, <3>2 DEF SitesIntact
  <2>8. QED  BY <1>1, <2>6, <2>7, RenameStep
<1>5. QED  BY <1>1, <1>3, <1>4

LEMMA MoveLogsData ==
    ASSUME DataInv, MoveLogs
    PROVE  DataInv'
<1>1. /\ AtWork("move_logs", "rename") /\ Same /\ disk' = disk
      /\ step' = "rollback" /\ undo' = undo
  BY MoveLogsEnds DEF DataInv
<1>2. /\ job # None /\ job.kind = "rename" /\ step = "move_logs" /\ job' = job /\ rows' = rows
      /\ broken' = broken /\ ToUndo' = ToUndo
  BY <1>1, NoneAssumption DEF AtWork, Same, outside, ToUndo
<1>3. Away' <=> Away  BY <1>1, <1>2 DEF Away
<1>4. OthersIntact(job.domain)' <=> OthersIntact(job.domain)  BY <1>1, <1>2 DEF OthersIntact
<1>5. MoveTracked'
  BY <1>1, <1>2, <1>3, <1>4 DEF DataInv, MoveTracked
<1>6. SitesIntact'
  <2>1. Registered' = Registered  BY <1>2 DEF Registered
  <2>2. \A d \in Registered : Intact(d)' <=> Intact(d)  BY <1>1, <1>2 DEF Intact
  <2>3. \A d \in Registered : Underway(d)' <=> Underway(d)
    BY <1>2, <1>3 DEF Underway
  <2>4. QED  BY <1>2, <2>1, <2>2, <2>3 DEF DataInv, SitesIntact
<1>7. QED  BY <1>1, <1>5, <1>6, RenameStep

\* The rollback of a rename: the files come back first.
LEMMA RenameUndone ==
    ASSUME DataInv, Careful, Rollback, job.kind = "rename"
    PROVE  DataInv'
<1> PICK d, e : d = job.domain /\ e = job.to  OBVIOUS
<1>1. /\ AtWork("rollback", "rename") /\ Same /\ step' = "rollback" /\ undo # <<>>
      /\ Head(undo) \in RenameUndo /\ Head(undo) = undo[1] /\ Head(undo) \in ToUndo
      /\ ToUndo' \subseteq ToUndo /\ ToUndo \subseteq {Head(undo)} \cup ToUndo'
      /\ \A i \in 1..Len(undo') : \E j \in 2..Len(undo) : undo'[i] = undo[j]
      /\ disk' = Undone(Head(undo))
  BY RollbackEnds DEF DataInv, RenameUndo
<1>2. /\ job # None /\ job.kind = "rename" /\ step = "rollback" /\ d \in Domain /\ e \in Domain
      /\ disk \in Disk /\ job' = job /\ rows' = rows /\ broken' = broken
  BY <1>1, NoneAssumption DEF AtWork, Same, outside
<1>3. \A i \in 2..Len(undo) : undo[i] # "old_web"  BY <1>2 DEF DataInv, MoveTracked
<1>4. "old_web" \notin ToUndo'
  <2>1. \A i \in 1..Len(undo') : undo'[i] # "old_web"  BY <1>1, <1>3
  <2>2. QED  BY <2>1 DEF ToUndo
<1>5. ~Away' /\ \A i \in 2..Len(undo') : undo'[i] # "old_web"
  <2>1. \A i \in 2..Len(undo') : undo'[i] \in ToUndo'
    BY <1>1, LaterNames DEF Same, SiteShape, TaskShape, ToUndo
  <2>2. QED  BY <1>4, <2>1 DEF Away
<1>6. CASE Head(undo) # "old_web"
  <2>1. ~Away  BY <1>1, <1>4, <1>6 DEF Away
  <2>2. PICK name \in UndoNames : name = Head(undo) /\ name \in {"conf", "old_pool"}
    BY <1>1, <1>6 DEF UndoNames, RenameUndo
  <2>3. ASSUME name = "old_pool" PROVE DataKept
    <3>1. disk' = [disk EXCEPT !.pool = (@ \ {e}) \cup {d}]
      BY <1>1, <2>2, <2>3, UndoneMeans
    <3>2. QED  BY <1>2, <3>1 DEF DataKept, Disk
  <2>4. ASSUME name = "conf" PROVE DataKept
    <3>1. disk' = [disk EXCEPT !.link = @ \cup {d}, !.conf[e] = None,
                     !.conf[d] = IF disk.conf[e] = None THEN @ ELSE disk.conf[e]]
      BY <1>1, <2>2, <2>4, UndoneMeans
    <3>2. QED  BY <1>2, <3>1 DEF DataKept, Disk
  <2>5. DataKept  BY <2>2, <2>3, <2>4
  <2>6. QED  BY <1>1, <1>5, <2>1, <2>5, RenameKeeps
<1>7. CASE Head(undo) = "old_web"
  <2>1. rows[e] = None /\ e # d /\ d \in Registered  BY <1>1, RowIsCurrent
  <2>2. Away  BY <1>1, <1>2, <1>7 DEF Away
  <2>3. \/ rows[d].id \in broken
        \/ disk.web[e] = rows[d].id /\ OthersIntact(d)
    BY <1>2, <2>2 DEF DataInv, MoveTracked
  <2>4. disk' = [disk EXCEPT !.web[d] = disk.web[e], !.web[e] = None]
    <3>1. "old_web" \in UndoNames  BY DEF UndoNames, RenameUndo
    <3>2. QED  BY <1>1, <1>7, <3>1, UndoneMeans
  <2>5. /\ disk'.user = disk.user /\ disk'.db = disk.db /\ disk'.cred = disk.cred
        /\ \A x \in Domain \ {d, e} : disk'.web[x] = disk.web[x]
        /\ disk'.web[d] = disk.web[e]
    <3> DEFINE web == [disk.web EXCEPT ![d] = disk.web[e], ![e] = None]
    <3>1. disk' = [disk EXCEPT !.web = web]  BY <1>2, <2>4 DEF Disk
    <3>2. /\ web[d] = disk.web[e]
          /\ \A x \in Domain \ {d, e} : web[x] = disk.web[x]
      BY <1>2, <2>1 DEF Disk
    <3> HIDE DEF web
    <3>3. QED  BY <1>2, <3>1, <3>2 DEF Disk
  <2>6. MoveTracked'  BY <1>1, <1>2, <1>5 DEF MoveTracked
  <2>7. SitesIntact'
    <3>1. ASSUME NEW x \in Registered
          PROVE  Intact(x)' \/ rows[x].id \in broken
      <4>1. CASE x = d
        <5>1. disk.web[e] = rows[d].id /\ OthersIntact(d) => Intact(d)'
          BY <1>2, <2>5 DEF OthersIntact, Intact
        <5>2. QED  BY <2>3, <4>1, <5>1
      <4>2. CASE x # d
        <5>1. x \in Domain \ {d, e}  BY <2>1, <4>2 DEF Registered
        <5>2. Intact(x) => Intact(x)'  BY <1>2, <2>5, <5>1 DEF Intact
        <5>3. ~Underway(x)  BY <1>2, <4>2 DEF Underway
        <5>4. QED  BY <5>2, <5>3 DEF DataInv, SitesIntact
      <4>3. QED  BY <4>1, <4>2
    <3>2. Registered' = Registered  BY <1>2 DEF Registered
    <3>3. QED  BY <1>2, <3>1, <3>2 DEF SitesIntact
  <2>8. QED  BY <1>1, <2>6, <2>7, RenameStep
<1>8. QED  BY <1>6, <1>7

LEMMA TakeData ==
    ASSUME DataInv, NEW r \in pending, Take(r)
    PROVE  DataInv'
<1>1. /\ SiteShape' /\ job = None /\ job' = r /\ r \in Request /\ r.kind \in AllKinds
      /\ step' = FirstStep[r.kind] /\ undo' = <<>> /\ ToUndo' = {}
      /\ UNCHANGED <<rows, disk, regens, broken>>
      /\ MaxInFlight \in {0, 1} => pending' = {}
  BY TakeEnds DEF DataInv
<1>2. /\ r.kind = "create" => step' = "user"
      /\ r.kind = "rename" => step' = "move_conf"
  BY <1>1 DEF FirstStep
<1>3. RequestsCurrent'
  <2>1. Alone => Current(r)  BY DEF DataInv, RequestsCurrent
  <2>2. Current(r)' <=> Current(r)  BY <1>1 DEF Current
  <2>3. QED  BY <1>1, <2>1, <2>2 DEF RequestsCurrent, Alone, Current
<1>4. NothingBroken' /\ OwnDatabase'
  BY <1>1 DEF DataInv, NothingBroken, NothingCut, OwnDatabase, Registered
<1>5. CreationAlone' /\ CreationProgress'
  BY <1>1, <1>2 DEF CreationAlone, CreationProgress, HasDatabase, HasFiles
<1>6. ~Away' /\ MoveTracked'  BY <1>1, <1>2, EmptySeq DEF Away, MoveTracked
<1>7. SitesIntact'
  <2>1. Registered' = Registered /\ \A d \in Registered : ~Underway(d)
    BY <1>1 DEF Registered, Underway
  <2>2. \A d \in Registered : Intact(d)' <=> Intact(d)  BY <1>1 DEF Intact
  <2>3. QED  BY <1>1, <2>1, <2>2 DEF DataInv, SitesIntact
<1>8. QED  BY <1>1, <1>3, <1>4, <1>5, <1>6, <1>7 DEF DataInv

LEMMA AskData ==
    ASSUME DataInv, Ask
    PROVE  DataInv'
<1>1. /\ SiteShape' /\ UNCHANGED <<rows, disk, work, regens, broken>>
      /\ MaxInFlight \in {0, 1} => pending = {} /\ job = None
  BY AskEnds DEF DataInv
<1>2. PICK r \in Request :
        /\ pending' = pending \cup {r}
        /\ r.kind = "create" => rows[r.domain] = None
        /\ r.kind # "create" => /\ rows[r.domain] # None /\ r.site = rows[r.domain].id
                                /\ r.type = rows[r.domain].type
        /\ r.kind = "rename" => rows[r.to] = None
  BY AskEnds DEF DataInv
<1>3. job' = job /\ step' = step /\ undo' = undo /\ ToUndo' = ToUndo  BY <1>1 DEF work, ToUndo
<1>4. Current(r)'  BY <1>1, <1>2 DEF Current
<1>5. RequestsCurrent'
  <2>1. ASSUME Alone PROVE pending' = {r} /\ job' = None  BY <1>1, <1>2, <1>3, <2>1 DEF Alone
  <2>2. Alone => \A x \in pending' : x = r  BY <2>1
  <2>3. QED  BY <1>4, <2>1, <2>2 DEF RequestsCurrent, Alone, Current
<1>6. NothingBroken' /\ OwnDatabase' /\ CreationAlone' /\ CreationProgress'
  BY <1>1, <1>3
     DEF DataInv, NothingBroken, NothingCut, OwnDatabase, Registered, CreationAlone, NoneShares,
         CreationProgress, User, Database
<1>7. (Away' <=> Away) /\ MoveTracked'
  BY <1>1, <1>3 DEF DataInv, Away, MoveTracked, OthersIntact
<1>8. SitesIntact'
  BY <1>1, <1>3, <1>7 DEF DataInv, SitesIntact, Registered, Underway, Intact
<1>9. QED  BY <1>1, <1>5, <1>6, <1>7, <1>8 DEF DataInv

LEMMA FinishData ==
    ASSUME DataInv, Finish
    PROVE  DataInv'
<1>1. /\ SiteShape' /\ job # None /\ job' = None /\ step = "rollback"
      /\ undo = <<>> /\ rows' = rows /\ disk' = disk /\ UNCHANGED outside
  BY FinishEnds DEF DataInv
<1>2. RequestsCurrent'
  BY <1>1 DEF DataInv, RequestsCurrent, Alone, Current, outside
<1>3. NothingBroken' /\ OwnDatabase' /\ CreationAlone' /\ CreationProgress' /\ MoveTracked'
  BY <1>1 DEF DataInv, NothingBroken, NothingCut, OwnDatabase, Registered, CreationAlone,
              CreationProgress, MoveTracked, outside
<1>4. SitesIntact'
  <2>1. ToUndo = {}  BY <1>1 DEF ToUndo
  <2>2. \A d \in Registered : ~Underway(d)  BY <1>1, <2>1 DEF Underway, Away
  <2>3. QED  BY <1>1, <2>2 DEF DataInv, SitesIntact, Registered, Intact, outside
<1>5. QED  BY <1>1, <1>2, <1>3, <1>4 DEF DataInv

\* A goroutine that regenerates a configuration, and a step of nobody.
LEMMA BesideData ==
    ASSUME DataInv, SiteShape', DataKept, UNCHANGED <<rows, work, pending, broken>>
    PROVE  DataInv'
<1>1. job' = job /\ step' = step /\ undo' = undo /\ ToUndo' = ToUndo  BY DEF work, ToUndo
<1>2. RequestsCurrent'
  BY <1>1 DEF DataInv, RequestsCurrent, Alone, Current
<1>3. NothingBroken' /\ OwnDatabase' /\ CreationAlone' /\ CreationProgress'
  BY <1>1 DEF DataInv, NothingBroken, NothingCut, OwnDatabase, Registered, CreationAlone,
              NoneShares, CreationProgress, User, Database, DataKept
<1>4. (Away' <=> Away) /\ MoveTracked'
  BY <1>1 DEF DataInv, Away, MoveTracked, OthersIntact, DataKept
<1>5. SitesIntact'
  BY <1>1, <1>4 DEF DataInv, SitesIntact, Registered, Underway, Intact, DataKept
<1>6. QED  BY <1>2, <1>3, <1>4, <1>5 DEF DataInv

LEMMA RegenerateData ==
    ASSUME DataInv, Regenerate
    PROVE  DataInv'
<1>1. SiteShape  BY DEF DataInv
<1>2. CASE \E d \in Domain : StartRegen(d)
  <2>1. SiteShape' /\ UNCHANGED <<rows, disk, work, pending, broken>>
    BY <1>1, <1>2, StartRegenEnds
  <2>2. QED  BY <2>1, BesideData DEF DataKept
<1>3. CASE \E c \in regens : FinishRegen(c)
  <2>1. PICK c \in regens : FinishRegen(c)  BY <1>3
  <2>2. /\ SiteShape' /\ c \in Conf /\ \E o \in ApplyNginxConfig(c) : disk' = o.disk
        /\ UNCHANGED <<rows, work, pending, broken>>
    BY <1>1, <2>1, FinishRegenEnds
  <2>3. disk \in Disk  BY <1>1 DEF SiteShape, SiteTypes
  <2>4. QED  BY <2>2, <2>3, NginxData, BesideData
<1>4. QED  BY <1>2, <1>3 DEF Regenerate

\* A crash cuts off the deletion or the rename of the site that is broken then.
LEMMA CrashData ==
    ASSUME DataInv, Careful, Crash
    PROVE  DataInv'
<1>1. /\ SiteShape' /\ MaxCrashes # 0 /\ pending' = {} /\ job' = None
      /\ rows' = rows /\ disk' = disk
      /\ broken' = broken \cup (IF job # None /\ job.kind \in {"delete", "rename"}
                                THEN {job.site} ELSE {})
  BY CrashEnds DEF DataInv
<1>2. RequestsCurrent' /\ CreationAlone' /\ CreationProgress' /\ MoveTracked' /\ OwnDatabase'
  BY <1>1 DEF DataInv, RequestsCurrent, CreationAlone, CreationProgress, MoveTracked,
              OwnDatabase, Registered
<1>3. NothingBroken'
  <2>1. job # None => job.kind \in Kind  BY DEF DataInv, SiteShape, SiteTypes
  <2>2. NothingCut => NothingMoves  BY <1>1 DEF NothingCut
  <2>3. NothingCut => broken' = broken  BY <1>1, <2>1, <2>2 DEF NothingMoves
  <2>4. QED  BY <2>3 DEF DataInv, NothingBroken, NothingCut
<1>4. SitesIntact'
  <2>1. ASSUME NEW d \in Registered
        PROVE  Intact(d)' \/ rows[d].id \in broken'
    <3>1. CASE Underway(d)
      <4>1. PICK k \in AllKinds, s \in {step} : /\ k = job.kind /\ s = step
                                     /\ s \in StepsOf[k] \cup {"rollback"}
                                     /\ k \in {"delete", "rename"}
                                     /\ (s # "rollback" \/ k = "rename")
        BY <3>1 DEF Underway, Away, AllKinds, DataInv, SiteShape, TaskShape
      <4>2. AtWork(s, k)  BY <4>1, Working DEF DataInv
      <4>3. rows[job.domain].id = job.site  BY <4>1, <4>2, RowIsCurrent
      <4>4. QED  BY <1>1, <3>1, <4>1, <4>3 DEF Underway
    <3>2. CASE ~Underway(d)
      BY <1>1, <3>2 DEF DataInv, SitesIntact, Intact
    <3>3. QED  BY <3>1, <3>2
  <2>2. QED  BY <1>1, <2>1 DEF SitesIntact, Registered
<1>5. QED  BY <1>1, <1>2, <1>3, <1>4 DEF DataInv

LEMMA DataStep ==
    ASSUME DataInv, Careful, [Next]_vars
    PROVE  DataInv'
<1>1. CASE Ask  BY <1>1, AskData
<1>2. CASE Worker
  <2>1. CASE \E r \in pending : Take(r)  BY <2>1, TakeData
  <2>2. CASE Create
    BY <2>2, CreateUserData, CreateDirectoriesData, DeployFilesData, CreateDatabaseData,
       LateCreationData, InsertRowData DEF Create
  <2>3. CASE Delete  BY <2>3, DeleteData, DeleteRowData DEF Delete
  <2>4. CASE Toggle \/ Secured  BY <2>4, HarmlessTasks
  <2>5. CASE Rename  BY <2>5, MoveConfData, MoveWebData, MoveLogsData DEF Rename
  <2>6. CASE Rollback
    <3>1. job.kind \in {"create", "rename"}  BY <2>6, RollbackEnds DEF DataInv
    <3>2. QED  BY <2>6, <3>1, CreationUndone, RenameUndone
  <2>7. CASE Finish  BY <2>7, FinishData
  <2>8. QED  BY <1>2, <2>1, <2>2, <2>3, <2>4, <2>5, <2>6, <2>7 DEF Worker
<1>3. CASE Regenerate  BY <1>3, RegenerateData
<1>4. CASE Crash  BY <1>4, CrashData
<1>5. CASE UNCHANGED vars
  <2>1. SiteShape'  BY <1>5, ShapeStep DEF DataInv
  <2>2. QED  BY <1>5, <2>1, BesideData DEF vars, work, outside, DataKept
<1>6. QED  BY <1>1, <1>2, <1>3, <1>4, <1>5 DEF Next

\* What the tasks of the worker and the regenerations keep of the sites.
THEOREM SitesDataHolds ==
    ASSUME Careful
    PROVE  Spec => []DataInv
<1>1. Init => DataInv  BY DataInit
<1>2. DataInv /\ [Next]_vars => DataInv'  BY DataStep
<1>3. QED  BY <1>1, <1>2, PTL DEF Spec

\* No task that fails, is rolled back or loses a race for a domain costs a
\* registered site its files, its database, its password or its user.
THEOREM SitesKeepData ==
    ASSUME Careful
    PROVE  Spec => []DataIntact
<1>1. DataInv => DataIntact
  <2>1. ASSUME DataInv, NEW d \in Registered
        PROVE  InWork(d) \/ rows[d].id \in broken \/ Intact(d)
    <3>1. CASE Underway(d)
      <4>1. PICK k \in AllKinds, s \in {step} : /\ k = job.kind /\ s = step
                                     /\ s \in StepsOf[k] \cup {"rollback"}
                                     /\ k \in {"delete", "rename"}
                                     /\ (s # "rollback" \/ k = "rename")
        BY <2>1, <3>1 DEF Underway, Away, AllKinds, DataInv, SiteShape, TaskShape
      <4>2. AtWork(s, k)  BY <2>1, <4>1, Working DEF DataInv
      <4>3. rows[job.domain].id = job.site  BY <2>1, <4>1, <4>2, RowIsCurrent
      <4>4. QED  BY <3>1, <4>3 DEF Underway, InWork
    <3>2. CASE ~Underway(d)  BY <2>1, <3>2 DEF DataInv, SitesIntact
    <3>3. QED  BY <3>1, <3>2
  <2>2. QED  BY <2>1 DEF DataIntact
<1>2. QED  BY <1>1, SitesDataHolds, PTL

\* No two registered sites have one MariaDB database, as their names differ or
\* useradd, which refuses a name twice, keeps sites of one type apart.
THEOREM SitesShareNoDatabase ==
    ASSUME Careful
    PROVE  Spec => []OwnDatabase
<1>1. DataInv => OwnDatabase  BY DEF DataInv
<1>2. QED  BY <1>1, SitesDataHolds, PTL

(* What is left on the host.  A creation that fails takes away what it made, *)
(* and a deletion what the site had, when the commands they run do: the user *)
(* and the database can be made and dropped, and directories can be made.    *)

Tidy == /\ Careful /\ MaxCrashes = 0
        /\ Kind \subseteq {"create", "delete", "pause", "enable", "rewrite"}
        /\ Faults \subseteq {"deploy", "fpm", "acme", "sqlite"}
        /\ "delete" \in Kind => Alone /\ MaxRegens = 0 /\ "sqlite" \notin Faults

\* What a creation has registered to undo, and the sites that have a row.
Creating(name) == job # None /\ job.kind = "create" /\ name \in ToUndo
Claimed(d, name) == d \in Registered \/ (Creating(name) /\ d = job.domain)

UserNames == {<<rows[d].type, SiteName[d]>> : d \in Registered}
DatabaseNames == {SiteName[d] : d \in Registered}

Belongs ==
  /\ \A u \in disk.user : u \in UserNames \/ (Creating("user") /\ u = User)
  /\ \A d \in Domain : /\ disk.web[d] # None => Claimed(d, "web")
                       /\ d \in disk.logs => Claimed(d, "logs")
                       /\ d \in disk.pool => Claimed(d, "pool")
                       /\ disk.conf[d] # None => Claimed(d, "nginx")
                       /\ d \in disk.link => Claimed(d, "nginx")
                       /\ disk.cert[d] # "none" => Claimed(d, "cert")
  /\ \A b \in Base : b \in disk.db \/ disk.cred[b] # None
                        => b \in DatabaseNames \/ (Creating("db") /\ b = Database)

\* A creation can take back what its next step makes without registering it,
\* and before its row it has the configuration and the certificate of the row.
CreationReady ==
  job # None /\ job.kind = "create" =>
    /\ step = "user" => ToUndo = {}
    /\ step = "deploy" => "web" \in ToUndo
    /\ step \in {"cert", "https", "row"} => "nginx" \in ToUndo
    /\ step \in {"cert", "https"} => job.ssl
    /\ step = "https" => disk.cert[job.domain] = "valid"
    /\ step = "row" => /\ disk.conf[job.domain] = ConfOf(job)
                       /\ job.ssl => disk.cert[job.domain] = "valid"

DeletionProgress ==
  job # None /\ job.kind = "delete" =>
    /\ step \in {"drop_db", "remove_conf", "delete_row"} =>
          disk.web[job.domain] = None /\ job.domain \notin disk.logs /\ User \notin disk.user
    /\ step \in {"remove_conf", "delete_row"} =>
          Database \notin disk.db /\ disk.cred[Database] = None
    /\ step = "delete_row" => /\ job.domain \notin disk.pool /\ job.domain \notin disk.link
                              /\ disk.conf[job.domain] = None

\* Requests and regenerations are for sites that are there, as they are.
Live(r) == rows[r.domain] # None /\ rows[r.domain].ssl = r.ssl
Lives ==
  /\ \A r \in pending : r.kind # "create" => Live(r)
  /\ job # None /\ job.kind # "create" /\ step # "rollback" => Live(job)
  /\ \A c \in regens : rows[c.server] # None /\ rows[c.server].ssl = c.tls
  /\ MaxRegens = 0 => regens = {}

\* Each site has the configuration its row says, with its certificate, unless
\* its deletion has come past it.
ConfFits(d) == /\ disk.conf[d] = [server |-> d, tls |-> rows[d].ssl]
               /\ rows[d].ssl => disk.cert[d] = "valid"
ConfGone(d) == job # None /\ job.kind = "delete" /\ step = "delete_row" /\ d = job.domain
ConfsFit == \A d \in Registered : ConfFits(d) \/ ConfGone(d)

\* nginx loads what is enabled, but for the site of a creation that is about to
\* remove its link.
Loads(d) == disk.conf[d] # None /\ Valid(disk, disk.conf[d])
Unlinking(d) == /\ job # None /\ job.kind = "create" /\ step = "rollback"
                /\ d = job.domain /\ "nginx" \in ToUndo
LinksLoad == \A d \in disk.link : Loads(d) \/ Unlinking(d)

TidyInv == DataInv /\ Belongs /\ CreationReady /\ DeletionProgress /\ Lives /\ ConfsFit
           /\ LinksLoad

LEMMA TidyInit ==
    ASSUME Init
    PROVE  TidyInv
<1>1. DataInv  BY DataInit
<1>2. /\ disk.user = {} /\ disk.logs = {} /\ disk.db = {} /\ disk.pool = {} /\ disk.link = {}
      /\ \A d \in Domain : disk.web[d] = None /\ disk.conf[d] = None /\ disk.cert[d] = "none"
      /\ \A b \in Base : disk.cred[b] = None
  BY DEF Init
<1>3. job = None /\ pending = {} /\ regens = {} /\ Registered = {}
  BY DEF Init, Registered
<1>4. QED
  BY <1>1, <1>2, <1>3 DEF TidyInv, Belongs, CreationReady, DeletionProgress, Lives, ConfsFit,
                          LinksLoad

LEMMA TidyRules ==
    ASSUME Tidy, DataInv
    PROVE  /\ Careful /\ {"useradd", "mariadb", "nginx", "disk"} \cap Faults = {}
           /\ job # None => job.kind \in {"create", "delete", "pause", "enable", "rewrite"}
           /\ MaxCrashes = 0
<1>1. job # None => job.kind \in Kind  BY DEF DataInv, SiteShape, SiteTypes
<1>2. QED  BY <1>1 DEF Tidy

\* What a task does with what is its own.
OwnHost ==
  /\ OwnData
  /\ \A d \in Domain \ {job.domain} :
        /\ d \in disk'.logs <=> d \in disk.logs
        /\ d \in disk'.pool <=> d \in disk.pool
        /\ d \in disk'.link <=> d \in disk.link
        /\ disk'.conf[d] = disk.conf[d] /\ disk'.cert[d] = disk.cert[d]

\* Of what is there after a step of a task, of its own: it was there, or the
\* step has registered to undo it, or the site has its row.
Registers(name) == job.kind = "create" /\ name \in ToUndo'
Lost(name) == job.kind = "create" /\ name \in ToUndo /\ name \notin ToUndo'
Accounted ==
  /\ User \in disk'.user => (User \in disk.user /\ ~Lost("user")) \/ Registers("user")
  /\ Database \in disk'.db \/ disk'.cred[Database] # None
        => \/ (Database \in disk.db \/ disk.cred[Database] # None) /\ ~Lost("db")
           \/ Registers("db")
  /\ job.domain \notin Registered =>
        /\ disk'.web[job.domain] # None
              => (disk.web[job.domain] # None /\ ~Lost("web")) \/ Registers("web")
        /\ job.domain \in disk'.logs
              => (job.domain \in disk.logs /\ ~Lost("logs")) \/ Registers("logs")
        /\ job.domain \in disk'.pool
              => (job.domain \in disk.pool /\ ~Lost("pool")) \/ Registers("pool")
        /\ disk'.conf[job.domain] # None
              => (disk.conf[job.domain] # None /\ ~Lost("nginx")) \/ Registers("nginx")
        /\ job.domain \in disk'.link
              => (job.domain \in disk.link /\ ~Lost("nginx")) \/ Registers("nginx")
        /\ disk'.cert[job.domain] # "none"
              => (disk.cert[job.domain] # "none" /\ ~Lost("cert")) \/ Registers("cert")

LEMMA NamesKept ==
    ASSUME RowsKept
    PROVE  UserNames' = UserNames /\ DatabaseNames' = DatabaseNames /\ Registered' = Registered
<1>1. /\ Registered' = Registered
      /\ \A d \in Registered : rows'[d].type = rows[d].type
  BY RegisteredKept
<1>2. QED  BY <1>1 DEF UserNames, DatabaseNames

LEMMA TaskBelongs ==
    ASSUME Belongs, job # None, job' = job, RowsKept, OwnHost, Accounted
    PROVE  Belongs'
<1>1. UserNames' = UserNames /\ DatabaseNames' = DatabaseNames /\ Registered' = Registered
  BY NamesKept
<1>2. User' = User /\ Database' = Database  BY DEF User, Database
<1>3. \A u \in disk'.user : u \in UserNames' \/ (Creating("user")' /\ u = User')
  BY <1>1, <1>2 DEF OwnHost, OwnData, Accounted, Registers, Lost, Belongs, Creating
<1>4. \A b \in Base : b \in disk'.db \/ disk'.cred[b] # None
         => b \in DatabaseNames' \/ (Creating("db")' /\ b = Database')
  BY <1>1, <1>2 DEF OwnHost, OwnData, Accounted, Registers, Lost, Belongs, Creating
<1>5. ASSUME NEW d \in Domain
      PROVE  /\ disk'.web[d] # None => Claimed(d, "web")'
             /\ d \in disk'.logs => Claimed(d, "logs")'
             /\ d \in disk'.pool => Claimed(d, "pool")'
             /\ disk'.conf[d] # None => Claimed(d, "nginx")'
             /\ d \in disk'.link => Claimed(d, "nginx")'
             /\ disk'.cert[d] # "none" => Claimed(d, "cert")'
  <2>1. CASE d # job.domain
    <3>1. \A name : Claimed(d, name) => d \in Registered  BY <2>1 DEF Claimed
    <3>2. \A name : d \in Registered => Claimed(d, name)'  BY <1>1 DEF Claimed
    <3>3. /\ disk'.web[d] = disk.web[d] /\ (d \in disk'.logs <=> d \in disk.logs)
          /\ (d \in disk'.pool <=> d \in disk.pool) /\ (d \in disk'.link <=> d \in disk.link)
          /\ disk'.conf[d] = disk.conf[d] /\ disk'.cert[d] = disk.cert[d]
      BY <2>1 DEF OwnHost, OwnData
    <3>4. QED  BY <3>1, <3>2, <3>3 DEF Belongs
  <2>2. CASE d = job.domain /\ d \in Registered  BY <1>1, <2>2 DEF Claimed
  <2>3. CASE d = job.domain /\ d \notin Registered
    <3>1. \A name : Claimed(d, name) /\ ~Lost(name) => Claimed(d, name)'
      BY <1>1, <2>3 DEF Claimed, Creating, Lost
    <3>2. \A name : Registers(name) => Claimed(d, name)'
      BY <2>3 DEF Claimed, Creating, Registers
    <3>3. QED  BY <2>3, <3>1, <3>2 DEF Accounted, Belongs
  <2>4. QED  BY <2>1, <2>2, <2>3
<1>6. QED  BY <1>3, <1>4, <1>5 DEF Belongs

\* The configurations of the other sites stay in order.
LEMMA OthersFit ==
    ASSUME TidyInv, OwnHost, job # None, NEW d \in Domain, d # job.domain, rows'[d] = rows[d]
    PROVE  /\ d \in Registered => ConfFits(d)'
           /\ d \in disk'.link => Loads(d)' /\ d \in Registered
<1>1. disk'.conf[d] = disk.conf[d] /\ disk'.cert[d] = disk.cert[d]
      /\ (d \in disk'.link <=> d \in disk.link)
  BY DEF OwnHost
<1>2. d \in Registered => ConfFits(d)  BY DEF TidyInv, ConfsFit, ConfGone
<1>3. ConfFits(d) => ConfFits(d)'  BY <1>1 DEF ConfFits
<1>4. d \in disk.link => d \in Registered  BY DEF TidyInv, Belongs, Claimed
<1>5. ASSUME ConfFits(d), d \in Registered PROVE Loads(d)'
  <2>1. disk'.conf[d] = [server |-> d, tls |-> rows[d].ssl]
        /\ (rows[d].ssl => disk'.cert[d] = "valid")
    BY <1>1, <1>5 DEF ConfFits
  <2>2. rows[d] \in Row  BY <1>5 DEF TidyInv, DataInv, SiteShape, SiteTypes, Registered
  <2>3. disk'.conf[d] \in Conf /\ disk'.conf[d] # None
    BY <2>1, <2>2, NoneAssumption DEF Row, Conf
  <2>4. QED  BY <2>1, <2>3 DEF Loads, Valid
<1>6. QED  BY <1>1, <1>2, <1>3, <1>4, <1>5

\* A step of a task that is not the last one and does not change the rows'
\* identity keeps everything when it keeps its own.
LEMMA TaskStep ==
    ASSUME TidyInv, DataInv', Same, job # None, NEW own \in Domain, own = job.domain,
           OwnHost, Accounted,
           step # "rollback" \/ step' = "rollback", CreationReady', DeletionProgress',
           own \in Registered => ConfFits(own)' \/ ConfGone(own)',
           own \in disk'.link => Loads(own)' \/ Unlinking(own)'
    PROVE  TidyInv'
<1>1. rows' = rows /\ job' = job /\ UNCHANGED <<pending, regens>>  BY DEF Same, outside
<1>2. RowsKept /\ Registered' = Registered  BY <1>1, SameRows, RegisteredKept
<1>3. Belongs'  BY <1>1, <1>2, TaskBelongs DEF TidyInv
<1>4. Lives'  BY <1>1 DEF TidyInv, Lives, Live
<1>5. ConfsFit'
  <2>1. ASSUME NEW d \in Registered PROVE ConfFits(d)' \/ ConfGone(d)'
    <3>1. d \in Domain  BY DEF Registered
    <3>2. CASE d = job.domain  BY <3>2
    <3>3. CASE d # job.domain  BY <1>1, <3>1, <3>3, OthersFit
    <3>4. QED  BY <3>2, <3>3
  <2>2. QED  BY <1>2, <2>1 DEF ConfsFit
<1>6. LinksLoad'
  <2>1. ASSUME NEW d \in disk'.link PROVE Loads(d)' \/ Unlinking(d)'
    <3>1. d \in Domain  BY <1>1 DEF DataInv, SiteShape, SiteTypes, Disk
    <3>2. CASE d = job.domain  BY <3>2
    <3>3. CASE d # job.domain  BY <1>1, <3>1, <3>3, OthersFit
    <3>4. QED  BY <3>2, <3>3
  <2>2. QED  BY <2>1 DEF LinksLoad
<1>7. QED  BY <1>3, <1>4, <1>5, <1>6 DEF TidyInv

NginxKept == disk'.conf = disk.conf /\ disk'.link = disk.link /\ disk'.cert = disk.cert
PlacesKept == disk'.logs = disk.logs /\ disk'.pool = disk.pool

\* A step of a creation, or of a task that is done, that leaves nginx alone.
LEMMA QuietStep ==
    ASSUME TidyInv, DataInv', Same, job # None, NEW own \in Domain, own = job.domain,
           OwnHost, Accounted, NginxKept, job.kind # "delete", ~Unlinking(own),
           step # "rollback" \/ step' = "rollback", CreationReady'
    PROVE  TidyInv'
<1>1. rows' = rows /\ job' = job  BY DEF Same
<1>2. DeletionProgress'  BY <1>1 DEF DeletionProgress
<1>3. own \in Registered => ConfFits(own)'
  BY <1>1 DEF TidyInv, ConfsFit, ConfGone, ConfFits, NginxKept
<1>4. own \in disk'.link => Loads(own)'
  BY <1>1 DEF TidyInv, LinksLoad, Loads, Valid, NginxKept
<1>5. QED  BY <1>2, <1>3, <1>4, TaskStep

LEMMA CreateUserTidy ==
    ASSUME Tidy, TidyInv, DataInv', CreateUser
    PROVE  TidyInv'
<1> PICK own : own = job.domain  OBVIOUS
<1>1. /\ AtWork("user", "create") /\ Same
      /\ \/ /\ disk' = [disk EXCEPT !.user = @ \cup {User}]
            /\ step' = "dirs" /\ ToUndo' = {"user"} \cup ToUndo
         \/ step' = "rollback" /\ ToUndo' = {} /\ disk' = disk
  BY CreateUserEnds, TidyRules DEF TidyInv, DataInv
<1>2. /\ job # None /\ job.kind = "create" /\ step = "user" /\ own \in Domain /\ disk \in Disk
      /\ job' = job /\ ~Unlinking(own) /\ ToUndo = {}
  BY <1>1, NoneAssumption DEF AtWork, Same, Unlinking, TidyInv, CreationReady
<1>3. \A name : ~Lost(name)  BY <1>2 DEF Lost
<1>4. /\ disk'.web = disk.web /\ disk'.db = disk.db /\ disk'.cred = disk.cred
      /\ PlacesKept /\ NginxKept
      /\ \A u : u # User => (u \in disk'.user <=> u \in disk.user)
  BY <1>1, <1>2 DEF Disk, PlacesKept, NginxKept
<1>5. User \in disk'.user => User \in disk.user \/ Registers("user")
  BY <1>1, <1>2 DEF Registers
<1>6. OwnHost  BY <1>4 DEF OwnHost, OwnData, PlacesKept, NginxKept
<1>7. Accounted  BY <1>3, <1>4, <1>5 DEF Accounted, PlacesKept, NginxKept
<1>8. CreationReady'  BY <1>1, <1>2 DEF CreationReady
<1>9. QED  BY <1>1, <1>2, <1>4, <1>6, <1>7, <1>8, QuietStep

LEMMA CreateDirectoriesTidy ==
    ASSUME Tidy, TidyInv, DataInv', CreateDirectories
    PROVE  TidyInv'
<1> PICK own : own = job.domain  OBVIOUS
<1>1. /\ AtWork("dirs", "create") /\ Same /\ step' = "deploy"
      /\ \E w, l : disk' = [disk EXCEPT !.web[own] = w, !.logs = l]
                   /\ l \in {disk.logs, disk.logs \cup {own}}
      /\ ToUndo' = {"logs", "web"} \cup ToUndo
  <2>1. "disk" \notin Faults  BY TidyRules DEF TidyInv
  <2>2. QED  BY <2>1, CreateDirectoriesEnds DEF TidyInv, DataInv
<1>2. /\ job # None /\ job.kind = "create" /\ step = "dirs" /\ own \in Domain /\ disk \in Disk
      /\ job' = job /\ ~Unlinking(own)
  BY <1>1, NoneAssumption DEF AtWork, Same, Unlinking
<1>3. \A name : ~Lost(name)  BY <1>1 DEF Lost
<1>4. PICK w, l : disk' = [disk EXCEPT !.web[own] = w, !.logs = l]
                  /\ l \in {disk.logs, disk.logs \cup {own}}
  BY <1>1
<1>5. /\ disk'.user = disk.user /\ disk'.db = disk.db /\ disk'.cred = disk.cred
      /\ disk'.pool = disk.pool /\ NginxKept
      /\ \A d \in Domain \ {own} : disk'.web[d] = disk.web[d]
      /\ \A d \in Domain \ {own} : d \in disk'.logs <=> d \in disk.logs
  BY <1>2, <1>4 DEF Disk, NginxKept
<1>6. Registers("web") /\ Registers("logs")  BY <1>1, <1>2 DEF Registers
<1>7. OwnHost  BY <1>5 DEF OwnHost, OwnData, NginxKept
<1>8. Accounted  BY <1>3, <1>5, <1>6 DEF Accounted, NginxKept
<1>9. CreationReady'  BY <1>1, <1>2 DEF CreationReady
<1>10. QED  BY <1>1, <1>2, <1>5, <1>7, <1>8, <1>9, QuietStep

LEMMA DeployFilesTidy ==
    ASSUME Tidy, TidyInv, DataInv', DeployFiles
    PROVE  TidyInv'
<1> PICK own : own = job.domain  OBVIOUS
<1>1. /\ AtWork("deploy", "create") /\ Same /\ ToUndo' = ToUndo
      /\ disk' = disk \/ disk' = [disk EXCEPT !.web[own] = job.no]
      /\ step' \in {"database", "rollback"}
  BY DeployFilesEnds DEF TidyInv, DataInv
<1>2. /\ job # None /\ job.kind = "create" /\ step = "deploy" /\ own \in Domain
      /\ disk \in Disk /\ job' = job /\ ~Unlinking(own) /\ "web" \in ToUndo
  BY <1>1, NoneAssumption DEF AtWork, Same, Unlinking, TidyInv, CreationReady
<1>3. \A name : ~Lost(name)  BY <1>1 DEF Lost
<1>4. /\ disk'.user = disk.user /\ disk'.db = disk.db /\ disk'.cred = disk.cred
      /\ PlacesKept /\ NginxKept
      /\ \A d \in Domain \ {own} : disk'.web[d] = disk.web[d]
  <2>1. CASE disk' = disk  BY <2>1 DEF PlacesKept, NginxKept
  <2>2. CASE disk' = [disk EXCEPT !.web[own] = job.no]
    BY <1>2, <2>2 DEF Disk, PlacesKept, NginxKept
  <2>3. QED  BY <1>1, <2>1, <2>2
<1>5. Registers("web")  BY <1>1, <1>2 DEF Registers
<1>6. OwnHost  BY <1>4 DEF OwnHost, OwnData, PlacesKept, NginxKept
<1>7. Accounted  BY <1>3, <1>4, <1>5 DEF Accounted, PlacesKept, NginxKept
<1>8. CreationReady'  BY <1>1, <1>2 DEF CreationReady
<1>9. QED  BY <1>1, <1>2, <1>4, <1>6, <1>7, <1>8, QuietStep

LEMMA CreateDatabaseTidy ==
    ASSUME Tidy, TidyInv, DataInv', CreateDatabase
    PROVE  TidyInv'
<1> PICK own : own = job.domain  OBVIOUS
<1>1. /\ AtWork("database", "create") /\ Same /\ step' = "config"
      /\ disk' = [disk EXCEPT !.db = @ \cup {Database}, !.cred[Database] = job.no]
      /\ ToUndo' = {"db"} \cup ToUndo
  <2>1. "mariadb" \notin Faults  BY TidyRules DEF TidyInv
  <2>2. QED  BY <2>1, CreateDatabaseEnds DEF TidyInv, DataInv
<1>2. /\ job # None /\ job.kind = "create" /\ step = "database" /\ own \in Domain
      /\ disk \in Disk /\ job' = job /\ ~Unlinking(own) /\ Database \in Base
  BY <1>1, NoneAssumption DEF AtWork, Same, Unlinking, Database
<1>3. \A name : ~Lost(name)  BY <1>1 DEF Lost
<1>4. /\ disk'.user = disk.user /\ disk'.web = disk.web /\ PlacesKept /\ NginxKept
      /\ \A b \in Base \ {Database} : /\ disk'.cred[b] = disk.cred[b]
                                      /\ b \in disk'.db <=> b \in disk.db
  BY <1>1, <1>2 DEF Disk, PlacesKept, NginxKept
<1>5. Registers("db")  BY <1>1, <1>2 DEF Registers
<1>6. OwnHost  BY <1>4 DEF OwnHost, OwnData, PlacesKept, NginxKept
<1>7. Accounted  BY <1>3, <1>4, <1>5 DEF Accounted, PlacesKept, NginxKept
<1>8. CreationReady'  BY <1>1, <1>2 DEF CreationReady
<1>9. QED  BY <1>1, <1>2, <1>4, <1>6, <1>7, <1>8, QuietStep

LEMMA CreatePoolTidy ==
    ASSUME Tidy, TidyInv, DataInv', WriteConfig \/ CreatePool
    PROVE  TidyInv'
<1> PICK own : own = job.domain  OBVIOUS
<1>1. \E s \in {"config", "pool"} :
      /\ AtWork(s, "create") /\ Same /\ step' \in {"pool", "http", "rollback"}
      /\ \/ disk' = disk /\ ToUndo' = ToUndo
         \/ /\ disk' = [disk EXCEPT !.pool = @ \cup {own}]
            /\ ToUndo' = {"pool"} \cup ToUndo
  <2>1. SiteShape  BY DEF TidyInv, DataInv
  <2>2. CASE WriteConfig
    <3>1. /\ AtWork("config", "create") /\ Same /\ disk' = disk /\ ToUndo' = ToUndo
          /\ step' = "pool" \/ step' = "rollback"
      BY <2>1, <2>2, WriteConfigEnds
    <3>2. QED  BY <3>1
  <2>3. CASE CreatePool
    <3>1. /\ AtWork("pool", "create") /\ Same
          /\ \/ /\ disk' = [disk EXCEPT !.pool = @ \cup {own}]
                /\ step' = "http" /\ ToUndo' = {"pool"} \cup ToUndo
             \/ disk' = disk /\ step' = "rollback" /\ ToUndo' = ToUndo
      BY <2>1, <2>3, CreatePoolEnds
    <3>2. QED  BY <3>1
  <2>4. QED  BY <2>2, <2>3
<1>2. /\ job # None /\ job.kind = "create" /\ step # "rollback" /\ own \in Domain
      /\ disk \in Disk /\ job' = job /\ ~Unlinking(own) /\ Same
      /\ step' \in {"pool", "http", "rollback"}
  BY <1>1, NoneAssumption DEF AtWork, Same, Unlinking
<1>3. \A name : ~Lost(name)  BY <1>1 DEF Lost
<1>4. DataKept /\ disk'.logs = disk.logs /\ NginxKept
      /\ \A d \in Domain \ {own} : d \in disk'.pool <=> d \in disk.pool
  <2>1. CASE disk' = disk  BY <2>1 DEF DataKept, NginxKept
  <2>2. CASE disk' = [disk EXCEPT !.pool = @ \cup {own}]
    BY <1>2, <2>2 DEF Disk, DataKept, NginxKept
  <2>3. QED  BY <1>1, <2>1, <2>2
<1>5. own \in disk'.pool => own \in disk.pool \/ Registers("pool")
  BY <1>1, <1>2 DEF Registers
<1>6. OwnHost  BY <1>4, KeptIsOwn DEF OwnHost, NginxKept
<1>7. Accounted  BY <1>3, <1>4, <1>5 DEF Accounted, DataKept, NginxKept
<1>8. CreationReady'  BY <1>2 DEF CreationReady
<1>9. QED  BY <1>2, <1>4, <1>6, <1>7, <1>8, QuietStep

\* Without faults ApplyNginxConfig writes a configuration that loads by itself,
\* and succeeds when the other ones load.
LEMMA NginxApplies ==
    ASSUME disk \in Disk, NEW c \in Conf, NEW o \in ApplyNginxConfig(c),
           "nginx" \notin Faults, "disk" \notin Faults
    PROVE  \/ ~Valid(disk, c) /\ o.disk = disk /\ ~o.ok
           \/ /\ Valid(disk, c)
              /\ o.disk = [disk EXCEPT !.conf[c.server] = c, !.link = @ \cup {c.server}]
              /\ Loadable(o.disk) => o.ok
<1> DEFINE written == [disk EXCEPT !.conf[c.server] = c, !.link = @ \cup {c.server}]
<1>1. CASE ~Valid(disk, c)
  <2>1. o = [disk |-> disk, ok |-> FALSE]  BY <1>1 DEF ApplyNginxConfig
  <2>2. QED  BY <1>1, <2>1
<1>2. CASE Valid(disk, c)
  <2>1. o = [disk |-> written, ok |-> Loadable(written)]  BY <1>2 DEF ApplyNginxConfig
  <2> HIDE DEF written
  <2>2. o.disk = written /\ o.ok = Loadable(written)  BY <2>1
  <2>3. QED  BY <1>2, <2>2 DEF written
<1>3. QED  BY <1>1, <1>2

LEMMA Written ==
    ASSUME disk \in Disk, NEW c \in Conf, Valid(disk, c),
           disk' = [disk EXCEPT !.conf[c.server] = c, !.link = @ \cup {c.server}]
    PROVE  /\ DataKept /\ PlacesKept /\ disk'.cert = disk.cert
           /\ disk'.conf[c.server] = c /\ disk'.link = disk.link \cup {c.server}
           /\ \A d \in Domain \ {c.server} : disk'.conf[d] = disk.conf[d]
           /\ \A d \in Domain : d = c.server => Loads(d)'
           /\ (\A d \in disk.link : Loads(d)) => Loadable(disk')
<1>1. c.server \in Domain /\ c # None  BY NoneAssumption DEF Conf
<1>2. DataKept /\ PlacesKept /\ disk'.cert = disk.cert
  BY <1>1 DEF Disk, DataKept, PlacesKept
<1>3. /\ disk'.conf[c.server] = c /\ disk'.link = disk.link \cup {c.server}
      /\ \A d \in Domain \ {c.server} : disk'.conf[d] = disk.conf[d]
  BY <1>1 DEF Disk
<1>4. \A d \in Domain : d = c.server => Loads(d)'
  BY <1>1, <1>2, <1>3 DEF Loads, Valid
<1>5. ASSUME \A d \in disk.link : Loads(d), NEW d \in disk'.link
      PROVE  disk'.conf[d] # None /\ Valid(disk', disk'.conf[d])
  <2>1. d \in Domain /\ disk.link \subseteq Domain  BY <1>1, <1>3 DEF Disk
  <2>2. CASE d = c.server  BY <1>4, <2>1, <2>2 DEF Loads
  <2>3. CASE d # c.server
    <3>1. disk'.conf[d] = disk.conf[d] /\ Loads(d)  BY <1>3, <1>5, <2>1, <2>3
    <3>2. QED  BY <1>2, <3>1 DEF Loads, Valid
  <2>4. QED  BY <2>2, <2>3
<1>6. (\A d \in disk.link : Loads(d)) => Loadable(disk')  BY <1>5 DEF Loadable
<1>7. QED  BY <1>2, <1>3, <1>4, <1>6

\* While a creation makes its site, its domain has no row.
LEMMA CreationFree ==
    ASSUME TidyInv, NEW s, AtWork(s, "create"), s \notin {"user", "rollback"}
    PROVE  /\ job # None /\ job.kind = "create" /\ step = s /\ job.domain \in Domain
           /\ job.domain \notin Registered /\ NoneShares /\ disk \in Disk
           /\ \A d : ~Unlinking(d)
           /\ \A d \in disk.link : Loads(d)
<1>1. job # None /\ job.kind = "create" /\ step = s /\ job.domain \in Domain /\ disk \in Disk
  BY NoneAssumption DEF AtWork
<1>2. NoneShares  BY <1>1 DEF TidyInv, DataInv, CreationAlone
<1>3. \A d : ~Unlinking(d)  BY <1>1 DEF Unlinking
<1>4. QED  BY <1>1, <1>2, <1>3 DEF NoneShares, TidyInv, LinksLoad

LEMMA ApplyHttpTidy ==
    ASSUME Tidy, TidyInv, DataInv', ApplyHttp
    PROVE  TidyInv'
<1> PICK own : own = job.domain  OBVIOUS
<1>1. /\ AtWork("http", "create") /\ Same
      /\ \E o \in ApplyNginxConfig(Plain(own)) :
           /\ disk' = o.disk
           /\ \/ /\ o.ok /\ step' = (IF job.ssl THEN "cert" ELSE "row")
                 /\ ToUndo' = {"nginx"} \cup ToUndo
              \/ ~o.ok /\ step' = "rollback" /\ ToUndo' = ToUndo
  BY ApplyHttpEnds DEF TidyInv, DataInv
<1>2. /\ job # None /\ job.kind = "create" /\ step = "http" /\ own \in Domain
      /\ own \notin Registered /\ disk \in Disk /\ \A d \in disk.link : Loads(d)
  BY <1>1, CreationFree
<1>3. PICK c \in Conf : c = Plain(own) /\ c.server = own /\ c.tls = FALSE
  BY <1>2, NginxConfs
<1>4. Valid(disk, c)  BY <1>3 DEF Valid
<1>5. /\ disk' = [disk EXCEPT !.conf[own] = c, !.link = @ \cup {own}]
      /\ step' = (IF job.ssl THEN "cert" ELSE "row") /\ ToUndo' = {"nginx"} \cup ToUndo
  <2>1. PICK o \in ApplyNginxConfig(c) :
           /\ disk' = o.disk
           /\ \/ /\ o.ok /\ step' = (IF job.ssl THEN "cert" ELSE "row")
                 /\ ToUndo' = {"nginx"} \cup ToUndo
              \/ ~o.ok
    BY <1>1, <1>3
  <2>2. "nginx" \notin Faults /\ "disk" \notin Faults  BY TidyRules DEF TidyInv
  <2>3. /\ o.disk = [disk EXCEPT !.conf[c.server] = c, !.link = @ \cup {c.server}]
        /\ Loadable(o.disk) => o.ok
    BY <1>2, <1>4, <2>2, NginxApplies
  <2>4. Loadable(disk')  BY <1>2, <1>4, <2>1, <2>3, Written
  <2>5. QED  BY <1>3, <2>1, <2>3, <2>4
<1>6. /\ DataKept /\ PlacesKept /\ disk'.cert = disk.cert
      /\ disk'.conf[own] = c /\ disk'.link = disk.link \cup {own} /\ Loads(own)'
      /\ \A d \in Domain \ {own} : disk'.conf[d] = disk.conf[d]
  BY <1>2, <1>3, <1>4, <1>5, Written
<1>7. OwnHost  BY <1>6, KeptIsOwn DEF OwnHost, PlacesKept
<1>8. \A name : ~Lost(name)  BY <1>5 DEF Lost
<1>9. Registers("nginx")  BY <1>2, <1>5 DEF Registers
<1>10. Accounted  BY <1>6, <1>8, <1>9 DEF Accounted, DataKept, PlacesKept
<1>11. job' = job  BY <1>1 DEF Same
<1>12. CreationReady'
  <2>1. job.ssl \in BOOLEAN  BY <1>1 DEF AtWork
  <2>2. step' = "row" => ~job.ssl  BY <1>5
  <2>3. ~job.ssl => c = ConfOf(job)  BY <1>3, <2>1 DEF Plain, ConfOf
  <2>4. step' \in {"cert", "row"} /\ (step' = "cert" => job.ssl)  BY <1>5
  <2>5. ConfOf(job)' = ConfOf(job)  BY <1>11 DEF ConfOf
  <2>6. QED
    BY <1>5, <1>6, <1>11, <2>2, <2>3, <2>4, <2>5 DEF CreationReady
<1>13. DeletionProgress'  BY <1>2, <1>11 DEF DeletionProgress
<1>14. step # "rollback"  BY <1>2
<1>15. QED  BY <1>1, <1>2, <1>6, <1>7, <1>10, <1>12, <1>13, <1>14, TaskStep

LEMMA ObtainFirstCertTidy ==
    ASSUME Tidy, TidyInv, DataInv', ObtainFirstCert
    PROVE  TidyInv'
<1> PICK own : own = job.domain  OBVIOUS
<1>1. /\ AtWork("cert", "create") /\ Same /\ ToUndo' = {"cert"} \cup ToUndo
      /\ \E c \in {"none", "empty", "valid"} :
            /\ disk' = [disk EXCEPT !.cert[own] = c]
            /\ (step' = "https" /\ c = "valid") \/ step' = "rollback"
  <2>1. "disk" \notin Faults  BY TidyRules DEF TidyInv
  <2>2. QED  BY <2>1, ObtainFirstCertEnds DEF TidyInv, DataInv
<1>2. /\ job # None /\ job.kind = "create" /\ step = "cert" /\ own \in Domain
      /\ own \notin Registered /\ disk \in Disk /\ \A d \in disk.link : Loads(d)
  BY <1>1, CreationFree
<1>3. "nginx" \in ToUndo /\ job.ssl  BY <1>2 DEF TidyInv, CreationReady
<1>4. PICK c \in {"none", "empty", "valid"} :
         /\ disk' = [disk EXCEPT !.cert[own] = c]
         /\ (step' = "https" /\ c = "valid") \/ step' = "rollback"
  BY <1>1
<1>5. /\ DataKept /\ PlacesKept /\ disk'.conf = disk.conf /\ disk'.link = disk.link
      /\ disk'.cert[own] = c /\ \A d \in Domain \ {own} : disk'.cert[d] = disk.cert[d]
  BY <1>2, <1>4 DEF Disk, DataKept, PlacesKept
<1>6. OwnHost  BY <1>5, KeptIsOwn DEF OwnHost, PlacesKept
<1>7. \A name : ~Lost(name)  BY <1>1 DEF Lost
<1>8. Registers("cert")  BY <1>1, <1>2 DEF Registers
<1>9. Accounted  BY <1>5, <1>7, <1>8 DEF Accounted, DataKept, PlacesKept
<1>10. job' = job  BY <1>1 DEF Same
<1>11. CreationReady' /\ DeletionProgress'
  BY <1>1, <1>2, <1>3, <1>4, <1>5, <1>10 DEF CreationReady, DeletionProgress
<1>12. own \in disk'.link => Loads(own)' \/ Unlinking(own)'
  <2>1. CASE step' = "rollback"
    BY <1>1, <1>2, <1>3, <1>10, <2>1 DEF Unlinking
  <2>2. CASE c = "valid"
    <3>1. ASSUME own \in disk.link PROVE Loads(own)'
      <4>1. Loads(own)  BY <1>2, <3>1
      <4>2. disk.conf[own] \in Conf  BY <1>2, <4>1 DEF Loads, Disk
      <4>3. disk.conf[own].server \in Domain  BY <4>2 DEF Conf
      <4>4. QED  BY <1>5, <2>2, <4>1, <4>3 DEF Loads, Valid
    <3>2. QED  BY <1>5, <3>1
  <2>3. QED  BY <1>4, <2>1, <2>2
<1>13. step # "rollback"  BY <1>2
<1>14. QED  BY <1>1, <1>2, <1>6, <1>9, <1>11, <1>12, <1>13, TaskStep

LEMMA ApplyHttpsTidy ==
    ASSUME Tidy, TidyInv, DataInv', ApplyHttps
    PROVE  TidyInv'
<1> PICK own : own = job.domain  OBVIOUS
<1>1. /\ AtWork("https", "create") /\ Same /\ ToUndo' = ToUndo
      /\ \E o \in ApplyNginxConfig(Secure(own)) :
           disk' = o.disk /\ step' = (IF o.ok THEN "row" ELSE "rollback")
  BY ApplyHttpsEnds DEF TidyInv, DataInv
<1>2. /\ job # None /\ job.kind = "create" /\ step = "https" /\ own \in Domain
      /\ own \notin Registered /\ disk \in Disk /\ \A d \in disk.link : Loads(d)
  BY <1>1, CreationFree
<1>3. PICK c \in Conf : c = Secure(own) /\ c.server = own /\ c.tls = TRUE
  BY <1>2, NginxConfs
<1>4. "nginx" \in ToUndo /\ job.ssl /\ disk.cert[own] = "valid"
  BY <1>2 DEF TidyInv, CreationReady
<1>5. Valid(disk, c)  BY <1>3, <1>4 DEF Valid
<1>6. disk' = [disk EXCEPT !.conf[own] = c, !.link = @ \cup {own}] /\ step' = "row"
  <2>1. PICK o \in ApplyNginxConfig(c) :
           disk' = o.disk /\ step' = (IF o.ok THEN "row" ELSE "rollback")
    BY <1>1, <1>3
  <2>2. "nginx" \notin Faults /\ "disk" \notin Faults  BY TidyRules DEF TidyInv
  <2>3. /\ o.disk = [disk EXCEPT !.conf[c.server] = c, !.link = @ \cup {c.server}]
        /\ Loadable(o.disk) => o.ok
    BY <1>2, <1>5, <2>2, NginxApplies
  <2>4. Loadable(disk')  BY <1>2, <1>5, <2>1, <2>3, Written
  <2>5. QED  BY <1>3, <2>1, <2>3, <2>4
<1>7. /\ DataKept /\ PlacesKept /\ disk'.cert = disk.cert
      /\ disk'.conf[own] = c /\ disk'.link = disk.link \cup {own} /\ Loads(own)'
      /\ \A d \in Domain \ {own} : disk'.conf[d] = disk.conf[d]
  BY <1>2, <1>3, <1>5, <1>6, Written
<1>8. OwnHost  BY <1>7, KeptIsOwn DEF OwnHost, PlacesKept
<1>9. \A name : ~Lost(name)  BY <1>1 DEF Lost
<1>10. Registers("nginx")  BY <1>1, <1>2, <1>4 DEF Registers
<1>11. Accounted  BY <1>7, <1>9, <1>10 DEF Accounted, DataKept, PlacesKept
<1>12. job' = job  BY <1>1 DEF Same
<1>13. CreationReady' /\ DeletionProgress'
  <2>1. job.ssl = TRUE  BY <1>1, <1>4 DEF AtWork
  <2>2. c = ConfOf(job)  BY <1>3, <2>1 DEF Secure, ConfOf
  <2>3. ConfOf(job)' = ConfOf(job)  BY <1>12 DEF ConfOf
  <2>4. QED
    BY <1>1, <1>2, <1>4, <1>6, <1>7, <1>12, <2>2, <2>3 DEF CreationReady, DeletionProgress
<1>14. step # "rollback"  BY <1>2
<1>15. QED  BY <1>1, <1>2, <1>7, <1>8, <1>11, <1>13, <1>14, TaskStep

LEMMA InsertRowTidy ==
    ASSUME Tidy, TidyInv, DataInv', InsertRow
    PROVE  TidyInv'
<1> PICK own : own = job.domain  OBVIOUS
<1>1. /\ AtWork("row", "create") /\ SiteShape' /\ disk' = disk /\ job' = job
      /\ UNCHANGED outside /\ step' = "rollback" /\ NewRow \in Row
      /\ \/ rows' = [rows EXCEPT ![own] = NewRow] /\ ToUndo' = {}
         \/ rows' = rows /\ ToUndo' = ToUndo
  BY InsertRowEnds DEF TidyInv, DataInv
<1>2. /\ job # None /\ job.kind = "create" /\ step = "row" /\ own \in Domain
      /\ own \notin Registered /\ disk \in Disk /\ \A d \in disk.link : Loads(d)
  BY <1>1, CreationFree
<1>3. OwnHost  BY <1>1 DEF OwnHost, OwnData
<1>4. CreationReady' /\ DeletionProgress'
  BY <1>1, <1>2 DEF CreationReady, DeletionProgress
<1>5. \A d : Loads(d)' <=> Loads(d)  BY <1>1 DEF Loads, Valid
<1>6. CASE rows' = rows /\ ToUndo' = ToUndo
  <2>1. Accounted  BY <1>1, <1>6 DEF Accounted, Lost
  <2>2. Same  BY <1>1, <1>6 DEF Same
  <2>3. own \in disk'.link => Loads(own)'  BY <1>1, <1>2, <1>5
  <2>4. QED  BY <1>2, <1>3, <1>4, <1>1, <2>1, <2>2, <2>3, TaskStep
<1>7. CASE rows' = [rows EXCEPT ![own] = NewRow] /\ ToUndo' = {}
  <2>1. /\ rows'[own] = NewRow /\ \A d \in Domain \ {own} : rows'[d] = rows[d]
        /\ NewRow # None /\ NewRow.ssl = job.ssl /\ NewRow.type = job.type
    BY <1>1, <1>2, <1>7, NoneAssumption DEF TidyInv, DataInv, SiteShape, SiteTypes, NewRow
  <2>2. Registered' = Registered \cup {own}  BY <1>2, <2>1 DEF Registered
  <2>3. \A d \in Registered : d \in Domain \ {own}  BY <1>2 DEF Registered
  <2>4. UserNames \subseteq UserNames' /\ User \in UserNames'
    BY <2>1, <2>2, <2>3 DEF UserNames, User
  <2>5. DatabaseNames \subseteq DatabaseNames' /\ Database \in DatabaseNames'
    BY <2>2 DEF DatabaseNames, Database
  <2>6. \A d, name : Claimed(d, name) => Claimed(d, name)'
    BY <2>2 DEF Claimed
  <2>7. Belongs'
    BY <1>1, <2>4, <2>5, <2>6 DEF TidyInv, Belongs
  <2>8. Lives'
    <3>1. \A r \in pending : r.domain \in Domain
      BY DEF TidyInv, DataInv, SiteShape, SiteTypes, Request
    <3>2. \A r \in pending : r.kind # "create" => r.domain \in Domain \ {own} /\ Live(r)
      BY <2>3, <3>1 DEF TidyInv, Lives, Live, Registered
    <3>3. \A r \in pending : r.kind # "create" => Live(r)'  BY <2>1, <3>2 DEF Live
    <3>4. \A c \in regens : c.server \in Domain
      BY DEF TidyInv, DataInv, SiteShape, SiteTypes, Conf
    <3>5. \A c \in regens : c.server \in Domain \ {own} /\ rows[c.server] # None
                            /\ rows[c.server].ssl = c.tls
      BY <2>3, <3>4 DEF TidyInv, Lives, Registered
    <3>6. pending' = pending /\ regens' = regens  BY <1>1 DEF outside
    <3>7. QED  BY <1>1, <1>2, <2>1, <3>3, <3>5, <3>6 DEF TidyInv, Lives
  <2>9. ConfsFit'
    <3>1. ConfFits(own)'
      <4>1. /\ disk.conf[own] = [server |-> own, tls |-> job.ssl]
            /\ job.ssl => disk.cert[own] = "valid"
        BY <1>2 DEF TidyInv, CreationReady, ConfOf
      <4>2. QED  BY <1>1, <2>1, <4>1 DEF ConfFits
    <3>2. \A d \in Registered : ConfFits(d)'  BY <1>2, <1>3, <2>1, <2>3, OthersFit
    <3>3. QED  BY <2>2, <3>1, <3>2 DEF ConfsFit
  <2>10. LinksLoad'  BY <1>1, <1>2, <1>5 DEF LinksLoad
  <2>11. QED  BY <1>4, <2>7, <2>8, <2>9, <2>10 DEF TidyInv
<1>8. QED  BY <1>1, <1>6, <1>7

\* What a rollback step of a creation takes away.
LEMMA UndoneHost ==
    ASSUME disk \in Disk, NEW own \in Domain, own = job.domain, Database \in Base,
           NEW name \in CreateUndo, disk' = Undone(name)
    PROVE  /\ OwnHost /\ disk'.link \subseteq disk.link
           /\ User \in disk'.user => User \in disk.user /\ name # "user"
           /\ Database \in disk'.db => Database \in disk.db /\ name # "db"
           /\ disk'.cred[Database] # None => disk.cred[Database] # None /\ name # "db"
           /\ disk'.web[own] # None => disk.web[own] # None /\ name # "web"
           /\ own \in disk'.logs => own \in disk.logs /\ name # "logs"
           /\ own \in disk'.pool => own \in disk.pool /\ name # "pool"
           /\ disk'.conf[own] # None => disk.conf[own] # None /\ name # "nginx"
           /\ own \in disk'.link => own \in disk.link /\ name # "nginx"
           /\ disk'.cert[own] # "none" => disk.cert[own] # "none" /\ name # "cert"
<1>0. name \in UndoNames  BY DEF UndoNames
<1>1. CASE name = "user"
  <2>1. disk' = [disk EXCEPT !.user = @ \ {User}]  BY <1>0, <1>1, UndoneMeans
  <2>2. /\ disk'.user = disk.user \ {User} /\ disk'.web = disk.web /\ disk'.db = disk.db
        /\ disk'.cred = disk.cred /\ PlacesKept /\ NginxKept
    BY <2>1 DEF Disk, PlacesKept, NginxKept
  <2>3. QED  BY <1>1, <2>2 DEF OwnHost, OwnData, PlacesKept, NginxKept
<1>2. CASE name = "web"
  <2>1. disk' = [disk EXCEPT !.web[own] = None]  BY <1>0, <1>2, UndoneMeans
  <2>2. /\ disk'.user = disk.user /\ disk'.db = disk.db /\ disk'.cred = disk.cred
        /\ PlacesKept /\ NginxKept /\ disk'.web[own] = None
        /\ \A d \in Domain \ {own} : disk'.web[d] = disk.web[d]
    BY <2>1 DEF Disk, PlacesKept, NginxKept
  <2>3. QED  BY <1>2, <2>2 DEF OwnHost, OwnData, PlacesKept, NginxKept
<1>3. CASE name = "logs"
  <2>1. disk' = [disk EXCEPT !.logs = @ \ {own}]  BY <1>0, <1>3, UndoneMeans
  <2>2. DataKept /\ NginxKept /\ disk'.logs = disk.logs \ {own} /\ disk'.pool = disk.pool
    BY <2>1 DEF Disk, DataKept, NginxKept
  <2>3. QED  BY <1>3, <2>2, KeptIsOwn DEF OwnHost, DataKept, NginxKept
<1>4. CASE name = "pool"
  <2>1. disk' = [disk EXCEPT !.pool = @ \ {own}]  BY <1>0, <1>4, UndoneMeans
  <2>2. DataKept /\ NginxKept /\ disk'.pool = disk.pool \ {own} /\ disk'.logs = disk.logs
    BY <2>1 DEF Disk, DataKept, NginxKept
  <2>3. QED  BY <1>4, <2>2, KeptIsOwn DEF OwnHost, DataKept, NginxKept
<1>5. CASE name = "db"
  <2>1. disk' = [disk EXCEPT !.db = @ \ {Database}, !.cred[Database] = None]
    BY <1>0, <1>5, UndoneMeans
  <2>2. /\ disk'.user = disk.user /\ disk'.web = disk.web /\ PlacesKept /\ NginxKept
        /\ disk'.db = disk.db \ {Database} /\ disk'.cred[Database] = None
        /\ \A b \in Base \ {Database} : disk'.cred[b] = disk.cred[b]
    BY <2>1 DEF Disk, PlacesKept, NginxKept
  <2>3. QED  BY <1>5, <2>2 DEF OwnHost, OwnData, PlacesKept, NginxKept
<1>6. CASE name = "nginx"
  <2>1. disk' = [disk EXCEPT !.link = @ \ {own}, !.conf[own] = None]
    BY <1>0, <1>6, UndoneMeans
  <2>2. /\ DataKept /\ PlacesKept /\ disk'.cert = disk.cert
        /\ disk'.link = disk.link \ {own} /\ disk'.conf[own] = None
        /\ \A d \in Domain \ {own} : disk'.conf[d] = disk.conf[d]
    BY <2>1 DEF Disk, DataKept, PlacesKept
  <2>3. QED  BY <1>6, <2>2, KeptIsOwn DEF OwnHost, DataKept, PlacesKept
<1>7. CASE name = "cert"
  <2>1. disk' = [disk EXCEPT !.cert[own] = "none"]  BY <1>0, <1>7, UndoneMeans
  <2>2. /\ DataKept /\ PlacesKept /\ disk'.conf = disk.conf /\ disk'.link = disk.link
        /\ disk'.cert[own] = "none"
        /\ \A d \in Domain \ {own} : disk'.cert[d] = disk.cert[d]
    BY <2>1 DEF Disk, DataKept, PlacesKept
  <2>3. QED  BY <1>7, <2>2, KeptIsOwn DEF OwnHost, DataKept, PlacesKept
<1>8. QED  BY <1>1, <1>2, <1>3, <1>4, <1>5, <1>6, <1>7 DEF CreateUndo

LEMMA RollbackTidy ==
    ASSUME Tidy, TidyInv, DataInv', Rollback
    PROVE  TidyInv'
<1> PICK own : own = job.domain  OBVIOUS
<1>1. /\ job.kind \in {"create", "rename"} /\ AtWork("rollback", job.kind) /\ Same
      /\ step' = "rollback" /\ Head(undo) \in ToUndo
      /\ Head(undo) \in (IF job.kind = "create" THEN CreateUndo ELSE RenameUndo)
      /\ ToUndo' \subseteq ToUndo /\ ToUndo \subseteq {Head(undo)} \cup ToUndo'
      /\ \/ disk' = Undone(Head(undo))
         \/ "useradd" \in Faults \/ "mariadb" \in Faults
  BY RollbackEnds DEF TidyInv, DataInv
<1>2. /\ job # None /\ own \in Domain /\ disk \in Disk /\ step = "rollback" /\ job' = job
      /\ Database \in Base
  BY <1>1, NoneAssumption DEF AtWork, Same, Database
<1>3. /\ job.kind = "create" /\ "useradd" \notin Faults /\ "mariadb" \notin Faults
  BY <1>1, <1>2, TidyRules DEF TidyInv
<1>4. PICK name \in CreateUndo :
         /\ disk' = Undone(name) /\ name \in ToUndo
         /\ ToUndo' \subseteq ToUndo /\ ToUndo \subseteq {name} \cup ToUndo'
  BY <1>1, <1>3
<1>5. own \notin Registered
  BY <1>2, <1>3, <1>4 DEF TidyInv, DataInv, CreationAlone, NoneShares
<1>6. \A x : Lost(x) => x = name  BY <1>4 DEF Lost
<1>7. OwnHost /\ disk'.link \subseteq disk.link
  BY <1>2, <1>4, UndoneHost
<1>8. Accounted  BY <1>2, <1>4, <1>6, UndoneHost DEF Accounted
<1>9. CreationReady' /\ DeletionProgress'
  BY <1>1, <1>2, <1>3 DEF CreationReady, DeletionProgress
<1>10. own \in disk'.link => Unlinking(own)'
  <2>1. own \in disk'.link => own \in disk.link /\ name # "nginx"
    BY <1>2, <1>4, UndoneHost
  <2>2. own \in disk.link => "nginx" \in ToUndo
    BY <1>2, <1>5 DEF TidyInv, Belongs, Claimed, Creating
  <2>3. QED  BY <1>1, <1>2, <1>3, <1>4, <2>1, <2>2 DEF Unlinking
<1>11. QED  BY <1>1, <1>2, <1>5, <1>7, <1>8, <1>9, <1>10, TaskStep

\* The configuration of a registered site loads.
LEMMA FitsLoads ==
    ASSUME SiteShape, NEW d \in Registered, ConfFits(d)
    PROVE  Loads(d) /\ disk.conf[d].server = d
<1>1. rows[d] \in Row  BY DEF SiteShape, SiteTypes, Registered
<1>2. disk.conf[d] \in Conf /\ disk.conf[d] # None
  BY <1>1, NoneAssumption DEF ConfFits, Row, Conf, Registered
<1>3. QED  BY <1>2 DEF ConfFits, Loads, Valid

LEMMA DeletionTidy ==
    ASSUME Tidy, TidyInv, DataInv', Same, job # None, job.kind = "delete",
           AtWork(step, "delete"), step \notin {"delete_row", "rollback"},
           NEW own \in Domain, own = job.domain, OwnHost, DeletionProgress',
           disk'.user \subseteq disk.user, disk'.db \subseteq disk.db,
           disk'.cred[Database] # None => disk.cred[Database] # None,
           NginxKept \/ (ConfGone(own)' /\ own \notin disk'.link)
    PROVE  TidyInv'
<1>1. rows' = rows /\ job' = job /\ own \in Registered
  BY RowIsCurrent DEF Same, Tidy, TidyInv
<1>2. Accounted  BY <1>1 DEF Accounted, Lost
<1>3. CreationReady'  BY <1>1 DEF CreationReady
<1>4. ConfFits(own)' \/ ConfGone(own)'
  BY <1>1 DEF TidyInv, ConfsFit, ConfGone, ConfFits, NginxKept
<1>5. own \in disk'.link => Loads(own)'
  BY <1>1 DEF TidyInv, LinksLoad, Loads, Valid, Unlinking, NginxKept
<1>6. QED  BY <1>1, <1>2, <1>3, <1>4, <1>5, TaskStep

LEMMA RemoveFilesTidy ==
    ASSUME Tidy, TidyInv, DataInv', RemoveFiles
    PROVE  TidyInv'
<1> PICK own : own = job.domain  OBVIOUS
<1>1. /\ AtWork("remove_files", "delete") /\ Same /\ step' = "drop_db"
      /\ disk' = [disk EXCEPT !.web[own] = None, !.logs = @ \ {own}, !.user = @ \ {User}]
  <2>1. "useradd" \notin Faults  BY TidyRules DEF TidyInv
  <2>2. QED  BY <2>1, RemoveFilesEnds DEF TidyInv, DataInv
<1>2. /\ own \in Domain /\ disk \in Disk /\ job' = job /\ job # None
      /\ job.kind = "delete" /\ step = "remove_files"
  BY <1>1, NoneAssumption DEF AtWork, Same
<1>3. /\ disk'.user = disk.user \ {User} /\ disk'.db = disk.db /\ disk'.cred = disk.cred
      /\ disk'.logs = disk.logs \ {own} /\ disk'.pool = disk.pool /\ NginxKept
      /\ disk'.web[own] = None /\ \A d \in Domain \ {own} : disk'.web[d] = disk.web[d]
  BY <1>1, <1>2 DEF Disk, NginxKept
<1>4. OwnHost  BY <1>3 DEF OwnHost, OwnData, NginxKept
<1>5. User' = User  BY <1>2 DEF User
<1>6. DeletionProgress'  BY <1>1, <1>2, <1>3, <1>5 DEF DeletionProgress
<1>7. QED  BY <1>1, <1>2, <1>3, <1>4, <1>6, DeletionTidy

LEMMA DropDatabaseTidy ==
    ASSUME Tidy, TidyInv, DataInv', DropDatabase
    PROVE  TidyInv'
<1> PICK own : own = job.domain  OBVIOUS
<1>1. /\ AtWork("drop_db", "delete") /\ Same /\ step' = "remove_conf"
      /\ disk' = [disk EXCEPT !.db = @ \ {Database}, !.cred[Database] = None]
  <2>1. "mariadb" \notin Faults  BY TidyRules DEF TidyInv
  <2>2. QED  BY <2>1, DropDatabaseEnds DEF TidyInv, DataInv
<1>2. /\ own \in Domain /\ disk \in Disk /\ job' = job /\ Database \in Base /\ job # None
      /\ job.kind = "delete" /\ step = "drop_db"
  BY <1>1, NoneAssumption DEF AtWork, Same, Database
<1>3. /\ disk'.user = disk.user /\ disk'.web = disk.web /\ PlacesKept /\ NginxKept
      /\ disk'.db = disk.db \ {Database} /\ disk'.cred[Database] = None
      /\ \A b \in Base \ {Database} : disk'.cred[b] = disk.cred[b]
  BY <1>1, <1>2 DEF Disk, PlacesKept, NginxKept
<1>4. OwnHost  BY <1>3 DEF OwnHost, OwnData, PlacesKept, NginxKept
<1>5. User' = User /\ Database' = Database  BY <1>2 DEF User, Database
<1>6. DeletionProgress'
  <2>1. disk.web[own] = None /\ own \notin disk.logs /\ User \notin disk.user
    BY <1>2 DEF TidyInv, DeletionProgress
  <2>2. QED  BY <1>1, <1>2, <1>3, <1>5, <2>1 DEF DeletionProgress, PlacesKept
<1>7. QED  BY <1>1, <1>2, <1>3, <1>4, <1>6, DeletionTidy

LEMMA RemoveConfsTidy ==
    ASSUME Tidy, TidyInv, DataInv', RemoveConfs
    PROVE  TidyInv'
<1> PICK own : own = job.domain  OBVIOUS
<1>1. /\ AtWork("remove_conf", "delete") /\ Same /\ step' = "delete_row"
      /\ disk' = [disk EXCEPT !.pool = @ \ {own}, !.link = @ \ {own}, !.conf[own] = None]
  BY RemoveConfsEnds DEF TidyInv, DataInv
<1>2. /\ own \in Domain /\ disk \in Disk /\ job' = job /\ Database \in Base /\ job # None
      /\ job.kind = "delete" /\ step = "remove_conf"
  BY <1>1, NoneAssumption DEF AtWork, Same, Database
<1>3. /\ DataKept /\ disk'.logs = disk.logs /\ disk'.pool = disk.pool \ {own}
      /\ disk'.link = disk.link \ {own} /\ disk'.conf[own] = None /\ disk'.cert = disk.cert
      /\ \A d \in Domain \ {own} : disk'.conf[d] = disk.conf[d]
  BY <1>1, <1>2 DEF Disk, DataKept
<1>4. OwnHost  BY <1>3, KeptIsOwn DEF OwnHost
<1>5. User' = User /\ Database' = Database  BY <1>2 DEF User, Database
<1>6. DeletionProgress'
  <2>1. /\ disk.web[own] = None /\ own \notin disk.logs /\ User \notin disk.user
        /\ Database \notin disk.db /\ disk.cred[Database] = None
    BY <1>2 DEF TidyInv, DeletionProgress
  <2>2. QED  BY <1>1, <1>2, <1>3, <1>5, <2>1 DEF DeletionProgress, DataKept
<1>7. ConfGone(own)' /\ own \notin disk'.link  BY <1>1, <1>2, <1>3 DEF ConfGone
<1>8. QED  BY <1>1, <1>2, <1>3, <1>4, <1>6, <1>7, DeletionTidy DEF DataKept

LEMMA DeleteRowTidy ==
    ASSUME Tidy, TidyInv, DataInv', DeleteRow
    PROVE  TidyInv'
<1> PICK own : own = job.domain  OBVIOUS
<1>1. /\ AtWork("delete_row", "delete") /\ job' = job /\ step' = "rollback"
      /\ UNCHANGED <<pending, regens>>
      /\ disk' = [disk EXCEPT !.cert[own] = "none"]
      /\ \/ rows' = [rows EXCEPT ![own] = None]
         \/ ~HasRow
         \/ "sqlite" \in Faults
  BY DeleteRowEnds DEF TidyInv, DataInv
<1>2. /\ Alone /\ pending = {} /\ own \in Registered /\ HasRow /\ rows[own].type = job.type
      /\ "delete" \in Kind /\ own \in Domain
  BY <1>1, RowIsCurrent DEF Tidy, TidyInv, AtWork
<1>3. "sqlite" \notin Faults /\ regens = {}  BY <1>2 DEF Tidy, TidyInv, Lives
<1>4. /\ job # None /\ job.kind = "delete" /\ step = "delete_row" /\ disk \in Disk
      /\ rows \in [Domain -> Row \cup {None}]
  BY <1>1, NoneAssumption DEF AtWork, TidyInv, DataInv, SiteShape, SiteTypes
<1>5. rows'[own] = None /\ \A d \in Domain \ {own} : rows'[d] = rows[d]
  BY <1>1, <1>2, <1>3, <1>4
<1>6. Registered' = Registered \ {own}  BY <1>2, <1>5 DEF Registered
<1>7. /\ DataKept /\ PlacesKept /\ disk'.conf = disk.conf /\ disk'.link = disk.link
      /\ disk'.cert[own] = "none" /\ \A d \in Domain \ {own} : disk'.cert[d] = disk.cert[d]
  BY <1>1, <1>2, <1>4 DEF Disk, DataKept, PlacesKept
<1>8. OwnHost  BY <1>7, KeptIsOwn DEF OwnHost, PlacesKept
<1>9. /\ disk.web[own] = None /\ own \notin disk.logs /\ User \notin disk.user
      /\ Database \notin disk.db /\ disk.cred[Database] = None
      /\ own \notin disk.pool /\ own \notin disk.link /\ disk.conf[own] = None
  BY <1>2, <1>4 DEF TidyInv, DeletionProgress
<1>10. Belongs'
  <2>1. ASSUME NEW u \in disk.user PROVE u \in UserNames'
    <3>1. PICK d \in Registered : u = <<rows[d].type, SiteName[d]>>
      BY <1>4 DEF TidyInv, Belongs, Creating, UserNames
    <3>2. d # own  BY <1>2, <1>9, <3>1 DEF User
    <3>3. d \in Registered' /\ rows'[d] = rows[d]  BY <1>5, <1>6, <3>2 DEF Registered
    <3>4. QED  BY <3>1, <3>3 DEF UserNames
  <2>2. ASSUME NEW b \in Base, b \in disk.db \/ disk.cred[b] # None
        PROVE  b \in DatabaseNames'
    <3>1. PICK d \in Registered : b = SiteName[d]
      BY <1>4, <2>2 DEF TidyInv, Belongs, Creating, DatabaseNames
    <3>2. d # own  BY <1>9, <2>2, <3>1 DEF Database
    <3>3. d \in Registered'  BY <1>6, <3>2
    <3>4. QED  BY <3>1, <3>3 DEF DatabaseNames
  <2>3. \A d, name : Claimed(d, name) /\ d # own => Claimed(d, name)'
    BY <1>4, <1>6 DEF Claimed, Creating
  <2>4. ASSUME NEW d \in Domain
        PROVE  /\ disk'.web[d] # None => Claimed(d, "web")'
               /\ d \in disk'.logs => Claimed(d, "logs")'
               /\ d \in disk'.pool => Claimed(d, "pool")'
               /\ disk'.conf[d] # None => Claimed(d, "nginx")'
               /\ d \in disk'.link => Claimed(d, "nginx")'
               /\ disk'.cert[d] # "none" => Claimed(d, "cert")'
    <3>1. CASE d = own  BY <1>7, <1>9, <3>1 DEF DataKept, PlacesKept
    <3>2. CASE d # own
      BY <1>7, <2>3, <3>2 DEF TidyInv, Belongs, DataKept, PlacesKept
    <3>3. QED  BY <3>1, <3>2
  <2>5. QED  BY <1>7, <2>1, <2>2, <2>4 DEF Belongs, DataKept
<1>11. CreationReady' /\ DeletionProgress'
  BY <1>1, <1>4 DEF CreationReady, DeletionProgress
<1>12. Lives'  BY <1>1, <1>2, <1>3 DEF Lives
<1>13. ConfsFit'
  <2>1. \A d \in Registered' : ConfFits(d)'
    BY <1>4, <1>5, <1>6, <1>8, OthersFit DEF Registered
  <2>2. QED  BY <2>1 DEF ConfsFit
<1>14. LinksLoad'
  <2>1. \A d \in disk'.link : d \in Domain /\ d # own  BY <1>4, <1>7, <1>9 DEF Disk
  <2>2. \A d \in disk'.link : Loads(d)'  BY <1>4, <1>5, <1>8, <2>1, OthersFit
  <2>3. QED  BY <2>2 DEF LinksLoad
<1>15. QED  BY <1>10, <1>11, <1>12, <1>13, <1>14 DEF TidyInv

\* The tasks that change neither data nor directories find their site there,
\* and keep it as its row says.
LEMMA ServingTidy ==
    ASSUME TidyInv, DataInv', Same, NEW k, k \in {"pause", "enable", "rewrite"},
           AtWork(step, k), step # "rollback", NEW own \in Domain, own = job.domain,
           DataKept, PlacesKept, disk'.cert = disk.cert,
           \A d \in Domain \ {own} : /\ disk'.conf[d] = disk.conf[d]
                                     /\ d \in disk'.link <=> d \in disk.link,
           own \in Registered => ConfFits(own)'
    PROVE  TidyInv'
<1>1. /\ job # None /\ job.kind = k /\ job.kind \notin {"create", "delete"}
      /\ rows' = rows /\ job' = job
  BY NoneAssumption DEF AtWork, Same
<1>2. own \in Registered  BY <1>1 DEF TidyInv, Lives, Live, Registered
<1>3. OwnHost  BY KeptIsOwn DEF OwnHost, PlacesKept
<1>4. \A name : ~Lost(name)  BY <1>1 DEF Lost
<1>5. Accounted  BY <1>2, <1>4 DEF Accounted, DataKept
<1>6. CreationReady' /\ DeletionProgress'
  BY <1>1 DEF CreationReady, DeletionProgress
<1>7. own \in Registered'  BY <1>1, <1>2 DEF Registered
<1>8. (own \in Registered)' /\ SiteShape'  BY <1>7 DEF DataInv
<1>9. Loads(own)'
  <2>1. rows'[own] \in Row  BY <1>7 DEF DataInv, SiteShape, SiteTypes, Registered
  <2>2. /\ disk'.conf[own] = [server |-> own, tls |-> rows'[own].ssl]
        /\ rows'[own].ssl => disk'.cert[own] = "valid"
    BY <1>2 DEF ConfFits
  <2>3. disk'.conf[own] \in Conf /\ disk'.conf[own] # None
    BY <2>1, <2>2, NoneAssumption DEF Row, Conf
  <2>4. QED  BY <2>2, <2>3 DEF Loads, Valid
<1>10. QED  BY <1>1, <1>2, <1>3, <1>5, <1>6, <1>9, TaskStep

LEMMA RelinkTidy ==
    ASSUME Tidy, TidyInv, DataInv', Unlink \/ Link
    PROVE  TidyInv'
<1> PICK own : own = job.domain  OBVIOUS
<1>1. /\ Same
      /\ \/ AtWork("unlink", "pause") /\ disk' = [disk EXCEPT !.link = @ \ {own}]
         \/ AtWork("link", "enable") /\ disk' = [disk EXCEPT !.link = @ \cup {own}]
  BY UnlinkEnds, LinkEnds DEF TidyInv, DataInv
<1>2. PICK k \in {"pause", "enable"} : AtWork(step, k) /\ step # "rollback"
  BY <1>1 DEF AtWork
<1>3. /\ own \in Domain /\ disk \in Disk /\ job # None /\ job.kind = k
      /\ job' = job /\ rows' = rows
  BY <1>1, <1>2, NoneAssumption DEF AtWork, Same
<1>4. /\ DataKept /\ PlacesKept /\ disk'.cert = disk.cert /\ disk'.conf = disk.conf
      /\ \A d \in Domain \ {own} : d \in disk'.link <=> d \in disk.link
  <2>1. CASE disk' = [disk EXCEPT !.link = @ \ {own}]
    BY <1>3, <2>1 DEF Disk, DataKept, PlacesKept
  <2>2. CASE disk' = [disk EXCEPT !.link = @ \cup {own}]
    BY <1>3, <2>2 DEF Disk, DataKept, PlacesKept
  <2>3. QED  BY <1>1, <2>1, <2>2
<1>5. own \in Registered => ConfFits(own)'
  BY <1>2, <1>3, <1>4 DEF TidyInv, ConfsFit, ConfGone, ConfFits
<1>6. QED  BY <1>1, <1>2, <1>3, <1>4, <1>5, ServingTidy

LEMMA RewriteTidy ==
    ASSUME Tidy, TidyInv, DataInv', Rewrite
    PROVE  TidyInv'
<1> PICK own : own = job.domain  OBVIOUS
<1>1. /\ AtWork("apply", "rewrite") /\ Same
      /\ \E o \in ApplyNginxConfig(ConfOf(job)) : disk' = o.disk
  BY RewriteEnds DEF TidyInv, DataInv
<1>2. /\ own \in Domain /\ disk \in Disk /\ job # None /\ job.kind = "rewrite"
      /\ job' = job /\ rows' = rows /\ step = "apply" /\ job \in Request
  BY <1>1, NoneAssumption DEF AtWork, Same
<1>3. own \in Registered /\ rows[own].ssl = job.ssl /\ ConfFits(own)
  BY <1>2 DEF TidyInv, Lives, Live, Registered, ConfsFit, ConfGone
<1>4. PICK c \in Conf : c = ConfOf(job) /\ c.server = own /\ c.tls = job.ssl
                        /\ c = [server |-> own, tls |-> job.ssl]
  BY <1>2, RequestConf DEF ConfOf
<1>5. Valid(disk, c)  BY <1>3, <1>4 DEF Valid, ConfFits
<1>6. disk' = [disk EXCEPT !.conf[c.server] = c, !.link = @ \cup {c.server}]
  <2>1. "nginx" \notin Faults /\ "disk" \notin Faults  BY TidyRules DEF TidyInv
  <2>2. PICK o \in ApplyNginxConfig(c) : disk' = o.disk  BY <1>1, <1>4
  <2>3. QED  BY <1>2, <1>5, <2>1, <2>2, NginxApplies
<1>7. /\ DataKept /\ PlacesKept /\ disk'.cert = disk.cert
      /\ disk'.conf[own] = c /\ disk'.link = disk.link \cup {own}
      /\ \A d \in Domain \ {own} : disk'.conf[d] = disk.conf[d]
  BY <1>2, <1>4, <1>5, <1>6, Written
<1>8. ConfFits(own)'  BY <1>2, <1>3, <1>4, <1>7 DEF ConfFits
<1>9. \A d \in Domain \ {own} : d \in disk'.link <=> d \in disk.link  BY <1>7
<1>10. AtWork(step, "rewrite") /\ step # "rollback"  BY <1>1, <1>2
<1>11. QED  BY <1>1, <1>2, <1>7, <1>8, <1>9, <1>10, ServingTidy

LEMMA SetStatusTidy ==
    ASSUME Tidy, TidyInv, DataInv', NEW paused \in BOOLEAN, SetStatus(paused)
    PROVE  TidyInv'
<1>1. /\ \/ AtWork("set_paused", "pause") \/ AtWork("set_active", "enable")
      /\ disk' = disk /\ job' = job /\ UNCHANGED outside
      /\ RowsKept /\ SslKept /\ step' = "rollback"
  BY SetStatusEnds DEF TidyInv, DataInv
<1>2. job # None /\ job.kind \notin {"create", "delete"}  BY <1>1, NoneAssumption DEF AtWork
<1>3. UNCHANGED <<pending, regens>>  BY <1>1 DEF outside
<1>4. OwnHost  BY <1>1 DEF OwnHost, OwnData
<1>5. Accounted  BY <1>1, <1>2 DEF Accounted, Lost
<1>6. Belongs'  BY <1>1, <1>2, <1>4, <1>5, TaskBelongs DEF TidyInv
<1>7. CreationReady' /\ DeletionProgress'
  BY <1>1, <1>2 DEF CreationReady, DeletionProgress
<1>8. \A d \in Domain : rows[d] # None => rows'[d] # None /\ rows'[d].ssl = rows[d].ssl
  BY <1>1 DEF RowsKept, SslKept
<1>9. pending \subseteq Request /\ regens \subseteq Conf
  BY DEF TidyInv, DataInv, SiteShape, SiteTypes
<1>10. Lives'  BY <1>1, <1>3, <1>8, <1>9 DEF TidyInv, Lives, Live, Request, Conf
<1>11. Registered' = Registered  BY <1>1, RegisteredKept
<1>12. ConfsFit'
  BY <1>1, <1>2, <1>8, <1>11 DEF TidyInv, ConfsFit, ConfFits, ConfGone, Registered
<1>13. LinksLoad'
  BY <1>1, <1>2 DEF TidyInv, LinksLoad, Loads, Unlinking
<1>14. QED  BY <1>6, <1>7, <1>10, <1>12, <1>13 DEF TidyInv

\* A request, the start of a regeneration, a step of nobody: the host stays.
LEMMA StillTidy ==
    ASSUME TidyInv, DataInv', UNCHANGED <<rows, disk, work>>, Lives'
    PROVE  TidyInv'
<1>1. rows' = rows /\ disk' = disk /\ job' = job /\ step' = step /\ undo' = undo
      /\ ToUndo' = ToUndo
  BY DEF work, ToUndo
<1>2. UserNames' = UserNames /\ DatabaseNames' = DatabaseNames /\ Registered' = Registered
  BY <1>1 DEF UserNames, DatabaseNames, Registered
<1>3. /\ User' = User /\ Database' = Database
      /\ \A name : Creating(name)' <=> Creating(name)
  BY <1>1 DEF User, Database, Creating
<1>4. Belongs'  BY <1>1, <1>2, <1>3 DEF TidyInv, Belongs, Claimed
<1>5. CreationReady' /\ DeletionProgress'
  BY <1>1, <1>3 DEF TidyInv, CreationReady, DeletionProgress, ConfOf
<1>6. ConfsFit' /\ LinksLoad'
  BY <1>1, <1>2 DEF TidyInv, ConfsFit, ConfFits, ConfGone, LinksLoad, Loads, Valid, Unlinking
<1>7. QED  BY <1>4, <1>5, <1>6 DEF TidyInv

LEMMA AskTidy ==
    ASSUME Tidy, TidyInv, DataInv', Ask
    PROVE  TidyInv'
<1>1. /\ UNCHANGED <<rows, disk, work, regens>>
      /\ \E r \in Request :
           /\ pending' = pending \cup {r}
           /\ r.kind # "create" => rows[r.domain] # None /\ r.ssl = rows[r.domain].ssl
  BY AskEnds DEF TidyInv, DataInv
<1>2. rows' = rows /\ job' = job /\ step' = step /\ regens' = regens  BY <1>1 DEF work
<1>3. Lives'  BY <1>1, <1>2 DEF TidyInv, Lives, Live
<1>4. QED  BY <1>1, <1>3, StillTidy

LEMMA StartRegenTidy ==
    ASSUME Tidy, TidyInv, DataInv', NEW d \in Domain, StartRegen(d)
    PROVE  TidyInv'
<1>1. /\ rows[d] # None /\ MaxRegens # 0
      /\ regens' = regens \cup {[server |-> d, tls |-> rows[d].ssl]}
      /\ UNCHANGED <<rows, disk, work, pending>>
  BY StartRegenEnds DEF TidyInv, DataInv
<1>2. rows' = rows /\ job' = job /\ step' = step  BY <1>1 DEF work
<1>3. Lives'  BY <1>1, <1>2 DEF TidyInv, Lives, Live
<1>4. QED  BY <1>1, <1>3, StillTidy

\* A regeneration writes what is there: its row is as it was read.
LEMMA FinishRegenTidy ==
    ASSUME Tidy, TidyInv, DataInv', NEW c \in regens, FinishRegen(c)
    PROVE  TidyInv'
<1> PICK own : own = c.server  OBVIOUS
<1>1. /\ c \in Conf /\ regens' = regens \ {c} /\ UNCHANGED <<rows, work, pending>>
      /\ \E o \in ApplyNginxConfig(c) : disk' = o.disk
  BY FinishRegenEnds DEF TidyInv, DataInv
<1>2. /\ rows' = rows /\ job' = job /\ step' = step /\ undo' = undo /\ ToUndo' = ToUndo
  BY <1>1 DEF work, ToUndo
<1>3. /\ own \in Domain /\ rows[own] # None /\ rows[own].ssl = c.tls /\ own \in Registered
      /\ c = [server |-> own, tls |-> rows[own].ssl] /\ disk \in Disk
  BY <1>1 DEF TidyInv, Lives, Conf, Registered, DataInv, SiteShape, SiteTypes
<1>4. job # None => job.kind # "delete"
  <2>1. MaxRegens # 0  BY DEF TidyInv, Lives
  <2>2. job # None => job.kind \in Kind  BY DEF TidyInv, DataInv, SiteShape, SiteTypes
  <2>3. QED  BY <2>1, <2>2 DEF Tidy
<1>5. ConfFits(own)  BY <1>3, <1>4 DEF TidyInv, ConfsFit, ConfGone
<1>6. Valid(disk, c)  BY <1>3, <1>5 DEF Valid, ConfFits
<1>7. disk' = [disk EXCEPT !.conf[c.server] = c, !.link = @ \cup {c.server}]
  <2>1. "nginx" \notin Faults /\ "disk" \notin Faults  BY TidyRules DEF TidyInv
  <2>2. PICK o \in ApplyNginxConfig(c) : disk' = o.disk  BY <1>1
  <2>3. QED  BY <1>1, <1>3, <1>6, <2>1, <2>2, NginxApplies
<1>8. /\ DataKept /\ PlacesKept /\ disk'.cert = disk.cert
      /\ disk'.conf[own] = c /\ disk'.link = disk.link \cup {own} /\ Loads(own)'
      /\ \A d \in Domain \ {own} : disk'.conf[d] = disk.conf[d]
  BY <1>1, <1>3, <1>6, <1>7, Written
<1>9. UserNames' = UserNames /\ DatabaseNames' = DatabaseNames /\ Registered' = Registered
  BY <1>2 DEF UserNames, DatabaseNames, Registered
<1>10. /\ User' = User /\ Database' = Database
       /\ \A name : Creating(name)' <=> Creating(name)
       /\ \A d : Unlinking(d)' <=> Unlinking(d)
  BY <1>2 DEF User, Database, Creating, Unlinking
<1>11. Belongs'
  <2>1. \A d, name : Claimed(d, name)' <=> Claimed(d, name)
    BY <1>2, <1>9, <1>10 DEF Claimed
  <2>2. \A name : Claimed(own, name)'  BY <1>3, <2>1 DEF Claimed
  <2>3. \A d \in Domain : /\ disk'.conf[d] # None => Claimed(d, "nginx")'
                          /\ d \in disk'.link => Claimed(d, "nginx")'
    <3>1. ASSUME NEW d \in Domain
          PROVE  /\ disk'.conf[d] # None => Claimed(d, "nginx")'
                 /\ d \in disk'.link => Claimed(d, "nginx")'
      <4>1. CASE d = own  BY <2>2, <4>1
      <4>2. CASE d # own
        <5>1. disk'.conf[d] = disk.conf[d] /\ (d \in disk'.link => d \in disk.link)
          BY <1>8, <4>2
        <5>2. QED  BY <2>1, <5>1 DEF TidyInv, Belongs
      <4>3. QED  BY <4>1, <4>2
    <3>2. QED  BY <3>1
  <2>4. \A d \in Domain : /\ disk'.web[d] # None => Claimed(d, "web")'
                          /\ d \in disk'.logs => Claimed(d, "logs")'
                          /\ d \in disk'.pool => Claimed(d, "pool")'
                          /\ disk'.cert[d] # "none" => Claimed(d, "cert")'
    BY <1>8, <2>1 DEF TidyInv, Belongs, DataKept, PlacesKept
  <2>5. /\ \A u \in disk'.user : u \in UserNames' \/ (Creating("user")' /\ u = User')
        /\ \A b \in Base : b \in disk'.db \/ disk'.cred[b] # None
              => b \in DatabaseNames' \/ (Creating("db")' /\ b = Database')
    BY <1>8, <1>9, <1>10 DEF TidyInv, Belongs, DataKept
  <2>6. QED  BY <2>3, <2>4, <2>5 DEF Belongs
<1>12. CreationReady'
  <2>1. ASSUME job # None, job.kind = "create", step = "row" PROVE job.domain # own
    BY <1>3, <2>1 DEF TidyInv, DataInv, CreationAlone, NoneShares
  <2>2. job # None => job.domain \in Domain
    BY DEF TidyInv, DataInv, SiteShape, SiteTypes, Request
  <2>3. QED
    BY <1>2, <1>8, <2>1, <2>2 DEF TidyInv, CreationReady, ConfOf
<1>13. DeletionProgress'  BY <1>2, <1>4 DEF DeletionProgress
<1>14. Lives'  BY <1>1, <1>2 DEF TidyInv, Lives, Live
<1>15. ConfsFit'
  <2>1. ASSUME NEW d \in Registered PROVE ConfFits(d)'
    <3>1. d \in Domain /\ ConfFits(d)  BY <1>4 DEF Registered, TidyInv, ConfsFit, ConfGone
    <3>2. CASE d = own  BY <1>2, <1>3, <1>5, <1>8, <3>2 DEF ConfFits
    <3>3. CASE d # own  BY <1>2, <1>8, <3>1, <3>3 DEF ConfFits
    <3>4. QED  BY <3>2, <3>3
  <2>2. QED  BY <1>9, <2>1 DEF ConfsFit
<1>16. LinksLoad'
  <2>1. ASSUME NEW d \in disk'.link PROVE Loads(d)' \/ Unlinking(d)'
    <3>1. d \in Domain  BY <1>3, <1>8 DEF Disk
    <3>2. CASE d = own  BY <1>8, <3>2
    <3>3. CASE d # own
      <4>1. Loads(d) \/ Unlinking(d)  BY <1>8, <3>3 DEF TidyInv, LinksLoad
      <4>2. Loads(d) => Loads(d)'  BY <1>8, <3>1, <3>3 DEF Loads, Valid
      <4>3. QED  BY <1>10, <4>1, <4>2
    <3>4. QED  BY <3>2, <3>3
  <2>2. QED  BY <2>1 DEF LinksLoad
<1>17. QED  BY <1>11, <1>12, <1>13, <1>14, <1>15, <1>16 DEF TidyInv

LEMMA TakeTidy ==
    ASSUME Tidy, TidyInv, DataInv', NEW r \in pending, Take(r)
    PROVE  TidyInv'
<1>1. /\ job = None /\ job' = r /\ r \in Request /\ r.kind \in Kind
      /\ step' = FirstStep[r.kind] /\ ToUndo' = {}
      /\ pending' = pending \ {r} /\ UNCHANGED <<rows, disk, regens>>
  BY TakeEnds DEF TidyInv, DataInv
<1>2. r.kind \in {"create", "delete", "pause", "enable", "rewrite"}  BY <1>1 DEF Tidy
<1>3. /\ r.kind = "create" => step' = "user"
      /\ r.kind = "delete" => step' = "remove_files"
      /\ step' # "rollback" /\ step' # "delete_row"
  BY <1>1, <1>2 DEF FirstStep
<1>4. UserNames' = UserNames /\ DatabaseNames' = DatabaseNames /\ Registered' = Registered
  BY <1>1 DEF UserNames, DatabaseNames, Registered
<1>5. Belongs'
  BY <1>1, <1>4 DEF TidyInv, Belongs, Claimed, Creating
<1>6. CreationReady' /\ DeletionProgress'
  BY <1>1, <1>3 DEF CreationReady, DeletionProgress
<1>7. Lives'  BY <1>1 DEF TidyInv, Lives, Live
<1>8. ConfsFit' /\ LinksLoad'
  BY <1>1, <1>4 DEF TidyInv, ConfsFit, ConfFits, ConfGone, LinksLoad, Loads, Valid, Unlinking
<1>9. QED  BY <1>5, <1>6, <1>7, <1>8 DEF TidyInv

\* What a creation has not undone when it ends has its row.
LEMMA FinishTidy ==
    ASSUME Tidy, TidyInv, DataInv', Finish
    PROVE  TidyInv'
<1>1. /\ job # None /\ job' = None /\ step = "rollback" /\ undo = <<>>
      /\ rows' = rows /\ disk' = disk /\ UNCHANGED <<pending, regens>>
  BY FinishEnds DEF TidyInv, DataInv, outside
<1>2. \A name : ~Creating(name)  BY <1>1 DEF Creating, ToUndo
<1>3. \A d : ~Unlinking(d) /\ ~ConfGone(d)  BY <1>1 DEF Unlinking, ConfGone, ToUndo
<1>4. UserNames' = UserNames /\ DatabaseNames' = DatabaseNames /\ Registered' = Registered
  BY <1>1 DEF UserNames, DatabaseNames, Registered
<1>5. Belongs'  BY <1>1, <1>2, <1>4 DEF TidyInv, Belongs, Claimed
<1>6. CreationReady' /\ DeletionProgress'  BY <1>1 DEF CreationReady, DeletionProgress
<1>7. Lives'  BY <1>1 DEF TidyInv, Lives, Live
<1>8. ConfsFit' /\ LinksLoad'
  BY <1>1, <1>3, <1>4 DEF TidyInv, ConfsFit, ConfFits, LinksLoad, Loads, Valid
<1>9. QED  BY <1>5, <1>6, <1>7, <1>8 DEF TidyInv

LEMMA TidyStep ==
    ASSUME Tidy, TidyInv, [Next]_vars
    PROVE  TidyInv'
<1>1. DataInv' /\ SiteShape  BY DataStep DEF Tidy, TidyInv, DataInv
<1>2. /\ job # None => job.kind \notin {"ssl", "unssl", "rename"}
      /\ MaxCrashes = 0
  BY TidyRules DEF TidyInv
<1>3. CASE Ask  BY <1>1, <1>3, AskTidy
<1>4. CASE Worker
  <2>1. CASE \E r \in pending : Take(r)  BY <1>1, <2>1, TakeTidy
  <2>2. CASE Create
    BY <1>1, <2>2, CreateUserTidy, CreateDirectoriesTidy, DeployFilesTidy, CreateDatabaseTidy,
       CreatePoolTidy, ApplyHttpTidy, ObtainFirstCertTidy, ApplyHttpsTidy, InsertRowTidy
       DEF Create
  <2>3. CASE Delete
    BY <1>1, <2>3, RemoveFilesTidy, DropDatabaseTidy, RemoveConfsTidy, DeleteRowTidy DEF Delete
  <2>4. CASE Toggle  BY <1>1, <2>4, RelinkTidy, SetStatusTidy DEF Toggle
  <2>5. CASE Secured
    <3>1. ~(ObtainCert \/ ApplySecure \/ SetSSL)
      BY <1>1, <1>2, SecuredHarmless DEF Harmless
    <3>2. ~(RemoveCert \/ ApplyPlain \/ ClearSSL)
      BY <1>1, <1>2, UnsecuredHarmless DEF Harmless
    <3>3. QED  BY <1>1, <2>5, <3>1, <3>2, RewriteTidy DEF Secured
  <2>6. CASE Rename
    BY <1>1, <1>2, <2>6, NoneAssumption, MoveConfEnds, MovePoolEnds, MoveWebEnds, MoveLogsEnds
       DEF Rename, AtWork
  <2>7. CASE Rollback  BY <1>1, <2>7, RollbackTidy
  <2>8. CASE Finish  BY <1>1, <2>8, FinishTidy
  <2>9. QED  BY <1>4, <2>1, <2>2, <2>3, <2>4, <2>5, <2>6, <2>7, <2>8 DEF Worker
<1>5. CASE Regenerate  BY <1>1, <1>5, StartRegenTidy, FinishRegenTidy DEF Regenerate
<1>6. CASE Crash  BY <1>1, <1>2, <1>6, CrashEnds
<1>7. CASE UNCHANGED vars
  <2>1. UNCHANGED <<rows, disk, work>> /\ UNCHANGED <<pending, regens>>
    BY <1>7 DEF vars, outside
  <2>2. Lives'  BY <2>1 DEF work, TidyInv, Lives, Live
  <2>3. QED  BY <1>1, <2>1, <2>2, StillTidy
<1>8. QED  BY <1>3, <1>4, <1>5, <1>6, <1>7 DEF Next

\* What is on the host, step by step, with what takes it away again.
THEOREM TidyHolds ==
    ASSUME Tidy
    PROVE  Spec => []TidyInv
<1>1. Init => TidyInv  BY TidyInit
<1>2. TidyInv /\ [Next]_vars => TidyInv'  BY TidyStep
<1>3. QED  BY <1>1, <1>2, PTL DEF Spec

\* Between tasks the host holds nothing that no registered site owns: a creation
\* that failed at any step, or lost the race for its name, and a deletion leave
\* no user, directory, database, password, pool, configuration or certificate.
THEOREM SitesLeaveNothing ==
    ASSUME Tidy
    PROVE  Spec => []NoResidue
<1>1. ASSUME TidyInv PROVE NoResidue
  <2>1. ASSUME job = None
        PROVE  /\ disk.user \subseteq UserNames
               /\ \A d \in Domain :
                     (disk.web[d] # None \/ disk.conf[d] # None \/ disk.cert[d] # "none"
                      \/ d \in disk.logs \/ d \in disk.pool \/ d \in disk.link)
                         => d \in Registered
               /\ \A b \in Base : b \in disk.db \/ disk.cred[b] # None => b \in DatabaseNames
    BY <1>1, <2>1 DEF TidyInv, Belongs, Claimed, Creating
  <2>2. /\ disk.logs \subseteq Domain /\ disk.pool \subseteq Domain
        /\ disk.link \subseteq Domain /\ disk.db \subseteq Base
    BY <1>1 DEF TidyInv, DataInv, SiteShape, SiteTypes, Disk
  <2>3. QED  BY <2>1, <2>2 DEF NoResidue, UserNames, DatabaseNames
<1>2. QED  BY <1>1, TidyHolds, PTL

\* Between tasks nginx can load every configuration that is enabled, so that the
\* reload of one site's task is never refused for what another site left.
THEOREM SitesNeverBlockReload ==
    ASSUME Tidy
    PROVE  Spec => []ReloadNeverBlocked
<1>1. ASSUME TidyInv PROVE ReloadNeverBlocked
  <2>1. job = None => \A d \in disk.link : Loads(d)
    BY <1>1 DEF TidyInv, LinksLoad, Unlinking
  <2>2. QED  BY <2>1 DEF ReloadNeverBlocked, Loadable, Loads
<1>2. QED  BY <1>1, TidyHolds, PTL

(* The sites as the registry of SiteRegistry.                                *)

\* A request has a number of its own, which only its creation gives to a row, and
\* gives once.
Numbered ==
  /\ \A r \in pending : r.no <= sent /\ (r.kind = "create" => r.site = r.no)
  /\ \A r, q \in pending : r.no = q.no => r = q
  /\ job # None => /\ job.no <= sent /\ (job.kind = "create" => job.site = job.no)
                   /\ \A r \in pending : r.no # job.no
  /\ \A d \in Registered :
        /\ rows[d].id <= sent
        /\ \A r \in pending : r.kind = "create" => rows[d].id # r.no
        /\ job # None /\ job.kind = "create" /\ step # "rollback" => rows[d].id # job.no
  /\ \A d, e \in Registered : rows[d].id = rows[e].id => d = e

NumberInv == SiteShape /\ Numbered

\* Nothing but the rows that are there, and no new task.
LEMMA FewerRows ==
    ASSUME Numbered, pending' \subseteq pending, sent' = sent,
           job' = None \/ (job' = job /\ (step # "rollback" \/ step' = "rollback")),
           \A d \in Registered' : d \in Registered /\ rows'[d].id = rows[d].id
    PROVE  Numbered'
<1>1. /\ \A r \in pending' : r.no <= sent /\ (r.kind = "create" => r.site = r.no)
      /\ \A r, q \in pending' : r.no = q.no => r = q
  BY DEF Numbered
<1>2. job' # None => /\ job'.no <= sent /\ (job'.kind = "create" => job'.site = job'.no)
                     /\ \A r \in pending' : r.no # job'.no
  BY DEF Numbered
<1>3. ASSUME NEW d \in Registered'
      PROVE  /\ rows'[d].id <= sent
             /\ \A r \in pending' : r.kind = "create" => rows'[d].id # r.no
             /\ job' # None /\ job'.kind = "create" /\ step' # "rollback" => rows'[d].id # job'.no
  BY <1>3 DEF Numbered
<1>4. \A d, e \in Registered' : rows'[d].id = rows'[e].id => d = e  BY DEF Numbered
<1>5. QED  BY <1>1, <1>2, <1>3, <1>4 DEF Numbered

\* What a step of a task keeps, but for the row of a new site.
OnTask == /\ job' = job /\ pending' = pending /\ sent' = sent
          /\ step # "rollback" \/ step' = "rollback"

LEMMA RowsNumbered ==
    ASSUME NumberInv, OnTask, RowsKept
    PROVE  Numbered'
<1>1. \A d \in Registered' : d \in Registered /\ rows'[d].id = rows[d].id
  BY DEF RowsKept, Registered
<1>2. QED  BY <1>1, FewerRows DEF NumberInv, OnTask

\* The steps that touch no row.
LEMMA SameOnTask ==
    ASSUME Same, step # "rollback" \/ step' = "rollback"
    PROVE  OnTask /\ RowsKept
BY SameRows DEF Same, OnTask, outside

LEMMA CreateNumbered == ASSUME NumberInv, Create PROVE NumberInv'
<1>0. SiteShape  BY DEF NumberInv
<1>1. CASE InsertRow
  <2>1. /\ AtWork("row", "create") /\ SiteShape' /\ job' = job
        /\ UNCHANGED outside /\ step' = "rollback"
        /\ \/ rows[job.domain] = None /\ rows' = [rows EXCEPT ![job.domain] = NewRow]
           \/ rows' = rows
    BY <1>0, <1>1, InsertRowEnds
  <2>2. OnTask  BY <2>1 DEF OnTask, outside
  <2>3. CASE rows' = rows  BY <1>0, <2>1, <2>2, <2>3, SameRows, RowsNumbered DEF NumberInv
  <2>4. CASE rows[job.domain] = None /\ rows' = [rows EXCEPT ![job.domain] = NewRow]
    <3>1. /\ rows \in [Domain -> Row \cup {None}] /\ job.domain \in Domain /\ job # None
          /\ job.kind = "create" /\ step = "row" /\ job.no \in Site
      BY <1>0, <2>1, NoneAssumption DEF SiteShape, SiteTypes, AtWork
    <3>2. /\ \A d \in Registered' : d \in Registered \/ d = job.domain
          /\ \A d \in Registered : d # job.domain /\ rows'[d] = rows[d]
          /\ rows'[job.domain].id = job.no
      BY <2>4, <3>1 DEF Registered, NewRow
    <3>3. /\ job.no <= sent /\ \A r \in pending : r.no # job.no
          /\ \A d \in Registered : rows[d].id # job.no
      BY <3>1 DEF NumberInv, Numbered
    <3>4. Numbered'
      <4>1. ASSUME NEW d \in Registered'
            PROVE  /\ rows'[d].id <= sent
                   /\ \A r \in pending : r.kind = "create" => rows'[d].id # r.no
        BY <3>2, <3>3, <4>1 DEF NumberInv, Numbered
      <4>2. \A d, e \in Registered' : rows'[d].id = rows'[e].id => d = e
        BY <3>2, <3>3 DEF NumberInv, Numbered
      <4>3. QED  BY <2>1, <2>2, <3>1, <4>1, <4>2 DEF NumberInv, Numbered, OnTask
    <3>5. QED  BY <2>1, <3>4 DEF NumberInv
  <2>5. QED  BY <2>1, <2>3, <2>4
<1>2. CASE ~InsertRow
  <2>1. Same /\ step # "rollback"
    BY <1>0, <1>2, CreateUserEnds, CreateDirectoriesEnds, DeployFilesEnds, CreateDatabaseEnds,
       WriteConfigEnds, CreatePoolEnds, ApplyHttpEnds, ObtainFirstCertEnds, ApplyHttpsEnds
       DEF Create, AtWork
  <2>2. QED  BY <2>1, SameOnTask, RowsNumbered DEF NumberInv, Same
<1>3. QED  BY <1>1, <1>2

LEMMA DeleteNumbered == ASSUME NumberInv, Delete PROVE NumberInv'
<1>0. SiteShape  BY DEF NumberInv
<1>1. CASE DeleteRow
  <2>1. /\ AtWork("delete_row", "delete") /\ SiteShape' /\ job' = job
        /\ UNCHANGED <<pending, sent>>
        /\ rows' = [rows EXCEPT ![job.domain] = None] \/ rows' = rows
    BY <1>0, <1>1, DeleteRowEnds
  <2>2. \A d \in Registered' : d \in Registered /\ rows'[d].id = rows[d].id
    BY <1>0, <2>1 DEF Registered, SiteShape, SiteTypes, AtWork
  <2>3. step # "rollback"  BY <2>1 DEF AtWork
  <2>4. QED  BY <2>1, <2>2, <2>3, FewerRows DEF NumberInv
<1>2. CASE ~DeleteRow
  <2>1. Same /\ step # "rollback"
    BY <1>0, <1>2, RemoveFilesEnds, DropDatabaseEnds, RemoveConfsEnds DEF Delete, AtWork
  <2>2. QED  BY <2>1, SameOnTask, RowsNumbered DEF NumberInv, Same
<1>3. QED  BY <1>1, <1>2

LEMMA ServiceNumbered == ASSUME NumberInv, Toggle \/ Secured PROVE NumberInv'
<1>0. SiteShape  BY DEF NumberInv
<1>1. CASE Unlink \/ Link \/ Rewrite
  <2>1. Same /\ step # "rollback"
    BY <1>0, <1>1, UnlinkEnds, LinkEnds, RewriteEnds DEF AtWork
  <2>2. QED  BY <2>1, SameOnTask, RowsNumbered DEF NumberInv, Same
<1>2. CASE \E p \in BOOLEAN : SetStatus(p)
  <2>1. /\ SiteShape' /\ job' = job /\ UNCHANGED outside /\ RowsKept /\ step' = "rollback"
    BY <1>0, <1>2, SetStatusEnds
  <2>2. QED  BY <2>1, RowsNumbered DEF NumberInv, OnTask, outside
<1>3. CASE ObtainCert \/ ApplySecure \/ SetSSL
  <2>1. Harmless("ssl")  BY <1>0, <1>3, SecuredHarmless
  <2>2. QED  BY <2>1, RowsNumbered DEF NumberInv, OnTask, outside, Harmless
<1>4. CASE RemoveCert \/ ApplyPlain \/ ClearSSL
  <2>1. Harmless("unssl")  BY <1>0, <1>4, UnsecuredHarmless
  <2>2. QED  BY <2>1, RowsNumbered DEF NumberInv, OnTask, outside, Harmless
<1>5. QED  BY <1>1, <1>2, <1>3, <1>4 DEF Toggle, Secured

LEMMA AskNumbered == ASSUME NumberInv, Ask PROVE NumberInv'
<1>1. SiteShape' /\ UNCHANGED <<rows, work>>  BY AskEnds DEF NumberInv
<1>2. PICK k \in AllKinds, s \in Site, d \in Domain, t \in Type, ssl \in BOOLEAN,
           to \in Domain : /\ Submit(k, s, d, t, ssl, to)
                           /\ k = "create" => s = sent + 1
  <2>1. rows \in [Domain -> Row \cup {None}] /\ sent \in 0..MaxRequests
        /\ MaxRequests \in Nat /\ Kind \subseteq AllKinds
    BY SiteAssumption DEF NumberInv, SiteShape, SiteTypes
  <2>2. \A k, s, d, t, ssl, to : Submit(k, s, d, t, ssl, to) => k \in AllKinds /\ sent + 1 \in Site
    BY <2>1 DEF Submit, Site
  <2>3. \A d \in Domain : rows[d] # None =>
           rows[d].id \in Site /\ rows[d].type \in Type /\ rows[d].ssl \in BOOLEAN
    BY <2>1 DEF Row
  <2>4. CASE \E d \in Domain, t \in Type, ssl \in BOOLEAN : RequestCreate(d, t, ssl)
    BY <2>2, <2>4 DEF RequestCreate
  <2>5. CASE \E k \in Kind, d \in Domain : RequestChange(k, d)
    BY <2>2, <2>3, <2>5 DEF RequestChange
  <2>6. CASE \E d, e \in Domain : RequestRename(d, e)
    BY <2>2, <2>3, <2>6 DEF RequestRename
  <2>7. QED  BY <2>4, <2>5, <2>6 DEF Ask
<1> DEFINE r == [no |-> sent + 1, kind |-> k, site |-> s, domain |-> d,
                 type |-> t, ssl |-> ssl, to |-> to]
<1>3. /\ pending' = pending \cup {r} /\ sent' = sent + 1 /\ sent \in Nat
  BY <1>2, SiteAssumption DEF Submit, NumberInv, SiteShape, SiteTypes
<1>4. r.no = sent + 1 /\ (r.kind = "create" => r.site = r.no)  BY <1>2
<1> HIDE DEF r
<1>5. job' = job /\ step' = step /\ rows' = rows /\ Registered' = Registered
  BY <1>1 DEF work, Registered
<1>6. /\ \A q \in pending : q.no \in Nat /\ q.no <= sent
      /\ job # None => job.no \in Nat /\ job.no <= sent
      /\ \A e \in Registered : rows[e].id \in Nat /\ rows[e].id <= sent
  BY SiteAssumption DEF NumberInv, Numbered, SiteShape, SiteTypes, Request, Site, Registered, Row
<1>7. Numbered'
  <2>1. /\ \A q \in pending' : q.no <= sent' /\ (q.kind = "create" => q.site = q.no)
        /\ \A p, q \in pending' : p.no = q.no => p = q
    BY <1>3, <1>4, <1>6 DEF NumberInv, Numbered
  <2>2. job # None => /\ job.no <= sent' /\ (job.kind = "create" => job.site = job.no)
                      /\ \A q \in pending' : q.no # job.no
    BY <1>3, <1>4, <1>6 DEF NumberInv, Numbered
  <2>3. \A e \in Registered : /\ rows[e].id <= sent'
                              /\ \A q \in pending' : q.kind = "create" => rows[e].id # q.no
    BY <1>3, <1>4, <1>6 DEF NumberInv, Numbered
  <2>4. QED  BY <1>5, <2>1, <2>2, <2>3 DEF NumberInv, Numbered
<1>8. QED  BY <1>1, <1>7 DEF NumberInv

LEMMA TakeNumbered == ASSUME NumberInv, NEW r \in pending, Take(r) PROVE NumberInv'
<1>1. /\ SiteShape' /\ job' = r /\ pending' = pending \ {r} /\ UNCHANGED <<rows, sent>>
  BY TakeEnds DEF NumberInv, Take
<1>2. r \in Request  BY DEF NumberInv, SiteShape, SiteTypes
<1>3. Numbered'  BY <1>1 DEF NumberInv, Numbered, Registered
<1>4. QED  BY <1>1, <1>3 DEF NumberInv

LEMMA NumberStep == ASSUME NumberInv, [Next]_vars PROVE NumberInv'
<1>0. SiteShape /\ Numbered  BY DEF NumberInv
<1>1. CASE Ask  BY <1>1, AskNumbered
<1>2. CASE Worker
  <2>1. CASE \E r \in pending : Take(r)  BY <2>1, TakeNumbered
  <2>2. CASE Create \/ Delete \/ Toggle \/ Secured
    BY <2>2, CreateNumbered, DeleteNumbered, ServiceNumbered
  <2>3. CASE Rename
    <3>1. Same /\ step # "rollback"
      BY <1>0, <2>3, MoveConfEnds, MovePoolEnds, MoveWebEnds, MoveLogsEnds DEF Rename, AtWork
    <3>2. QED  BY <3>1, SameOnTask, RowsNumbered DEF NumberInv, Same
  <2>4. CASE Rollback
    <3>1. Same /\ step' = "rollback"  BY <1>0, <2>4, RollbackEnds
    <3>2. QED  BY <3>1, SameOnTask, RowsNumbered DEF NumberInv, Same
  <2>5. CASE Finish
    <3>1. SiteShape' /\ job' = None /\ rows' = rows /\ UNCHANGED outside
      BY <1>0, <2>5, FinishEnds
    <3>2. QED  BY <1>0, <3>1, FewerRows DEF NumberInv, outside, Registered
  <2>6. QED  BY <1>2, <2>1, <2>2, <2>3, <2>4, <2>5 DEF Worker
<1>3. CASE Regenerate
  <2>1. SiteShape' /\ UNCHANGED <<rows, work, pending, sent>>
    BY <1>0, <1>3, ShapeStep DEF Regenerate, StartRegen, FinishRegen, Next
  <2>2. QED  BY <1>0, <2>1, FewerRows DEF NumberInv, work, Registered
<1>4. CASE Crash
  <2>1. SiteShape' /\ job' = None /\ pending' = {} /\ UNCHANGED <<rows, sent>>
    BY <1>0, <1>4, CrashEnds DEF Crash
  <2>2. QED  BY <1>0, <2>1, FewerRows DEF NumberInv, Registered
<1>5. CASE UNCHANGED vars
  <2>1. SiteShape'  BY <1>0, <1>5, ShapeStep
  <2>2. QED  BY <1>0, <1>5, <2>1, FewerRows DEF NumberInv, vars, work, outside, Registered
<1>6. QED  BY <1>1, <1>2, <1>3, <1>4, <1>5 DEF Next

\* No two requests have one number and no two sites one id.
LEMMA NumbersHold == Spec => []NumberInv
<1>1. Init => NumberInv
  BY ShapeInit DEF Init, NumberInv, Numbered, Registered
<1>2. NumberInv /\ [Next]_vars => NumberInv'  BY NumberStep
<1>3. QED  BY <1>1, <1>2, PTL DEF Spec

(* Every step of the panel is a step of the registry, or none.               *)

RegistryInv == NumberInv /\ DataInv /\ DataIntact

\* A site's needs are those of its row.
LEMMA WholeKept ==
    ASSUME DataKept, RowsKept
    PROVE  Whole' = Whole
<1>1. Registered' = Registered /\ \A d \in Registered : rows'[d].id = rows[d].id
  BY RegisteredKept
<1>2. \A d \in Registered : Intact(d)' <=> Intact(d)
  BY RegisteredKept DEF Intact, DataKept
<1>3. QED  BY <1>1, <1>2 DEF Whole

\* A step on the disk that no site needs, or beside the tasks.
LEMMA RegistryStutters ==
    ASSUME DataKept, rows' = rows, job' = job, broken' = broken
    PROVE  UNCHANGED Registry!absVars
<1>1. Whole' = Whole  BY SameRows, WholeKept
<1>2. Served' = Served  BY DEF Served
<1>3. QED  BY <1>1, <1>2 DEF Registry!absVars

\* A task changes what its own site needs, as no other site loses anything.
LEMMA RegistryWorks ==
    ASSUME job # None, DataIntact, DataIntact', rows' = rows, job' = job, broken' = broken,
           job.site # None
    PROVE  Registry!Work
<1>1. Served = job.site /\ Served' = Served  BY DEF Served
<1>2. Registered' = Registered  BY DEF Registered
<1>3. ASSUME NEW d \in Registered, rows[d].id \notin broken, rows[d].id # job.site
      PROVE  Intact(d) /\ Intact(d)'
  <2>1. ~InWork(d) /\ ~InWork(d)'  BY <1>3 DEF InWork
  <2>2. Intact(d)  BY <1>3, <2>1 DEF DataIntact
  <2>3. InWork(d)' \/ rows'[d].id \in broken' \/ Intact(d)'  BY <1>2, <1>3 DEF DataIntact
  <2>4. QED  BY <1>3, <2>1, <2>2, <2>3
<1>4. Whole' \ (broken \cup {job.site}) = Whole \ (broken \cup {job.site})
  <2>1. ASSUME NEW x, x \notin broken \cup {job.site}
        PROVE  (\E d \in Registered : x = rows[d].id /\ Intact(d)')
                  <=> (\E d \in Registered : x = rows[d].id /\ Intact(d))
    BY <1>3, <2>1
  <2>2. \A x : x \in Whole' <=> \E d \in Registered : x = rows[d].id /\ Intact(d)'
    BY <1>2 DEF Whole
  <2>3. \A x : x \in Whole <=> \E d \in Registered : x = rows[d].id /\ Intact(d)
    BY DEF Whole
  <2>4. QED  BY <2>1, <2>2, <2>3
<1>5. Registry!OthersKept  BY <1>1, <1>4 DEF Registry!OthersKept
<1>6. QED  BY <1>1, <1>5 DEF Registry!Work

LEMMA RegistrySame ==
    ASSUME SiteShape, job # None, Same, DataIntact, DataIntact'
    PROVE  [Registry!AbsNext]_(Registry!absVars)
<1>1. job.site # None  BY NoneAssumption DEF SiteShape, SiteTypes, Request
<1>2. Registry!Work  BY <1>1, RegistryWorks DEF Same, outside
<1>3. QED  BY <1>2 DEF Registry!AbsNext

\* The row of the new site is written when it has all it needs.
LEMMA RegistryRegisters ==
    ASSUME RegistryInv, OwnDatabase', InsertRow
    PROVE  [Registry!AbsNext]_(Registry!absVars)
<1>0. NumberInv /\ DataInv /\ SiteShape  BY DEF RegistryInv, DataInv
<1>1. /\ AtWork("row", "create") /\ disk' = disk /\ job' = job /\ UNCHANGED outside
      /\ NewRow \in Row
      /\ \/ rows[job.domain] = None /\ rows' = [rows EXCEPT ![job.domain] = NewRow]
         \/ rows' = rows
  BY <1>0, InsertRowEnds
<1>2. broken' = broken /\ DataKept  BY <1>1 DEF outside, DataKept
<1>3. CASE rows' = rows  BY <1>1, <1>2, <1>3, RegistryStutters
<1>4. CASE rows[job.domain] = None /\ rows' = [rows EXCEPT ![job.domain] = NewRow]
  <2> DEFINE d == job.domain
  <2>1. /\ rows \in [Domain -> Row \cup {None}] /\ d \in Domain /\ job # None /\ job \in Request
        /\ job.kind = "create" /\ step = "row" /\ job.no \in Site /\ None \notin Row
        /\ job.no # None
    BY <1>0, <1>1, NoneAssumption DEF SiteShape, SiteTypes, AtWork
  <2>2. job.site = job.no /\ Served = job.no /\ Served' = Served
    BY <1>1, <2>1 DEF RegistryInv, NumberInv, Numbered, Served
  <2>3. /\ d \notin Registered /\ Registered' = Registered \cup {d}
        /\ rows'[d] = NewRow /\ \A c \in Registered : c # d /\ rows'[c] = rows[c]
    BY <1>1, <1>4, <2>1 DEF Registered
  <2>4. \A c \in Registered : rows[c].id # job.no
    BY <1>0, <2>1 DEF NumberInv, Numbered
  <2>5. \A c \in Registered : SiteName[c] # SiteName[d]
    BY <2>3 DEF OwnDatabase
  <2>6. ASSUME NEW CONSTANT c, c = d PROVE Intact(c)'
    <3>1. /\ User \in disk.user /\ disk.web[d] = job.no /\ Database \in disk.db
          /\ disk.cred[Database] = job.no
      BY <1>0, <2>1 DEF DataInv, CreationProgress, HasFiles, HasDatabase
    <3>2. NewRow.id = job.no /\ NewRow.type = job.type  BY DEF NewRow
    <3>3. QED  BY <1>1, <2>3, <2>6, <3>1, <3>2 DEF Intact, User, Database
  <2>7. \A c \in Registered : Intact(c)' <=> Intact(c)
    BY <1>1, <2>3 DEF Intact
  <2>8. Whole' = Whole \cup {job.no}
    <3>1. \A x : x \in Whole' <=> \E c \in Registered \cup {d} : x = rows'[c].id /\ Intact(c)'
      BY <2>3 DEF Whole
    <3>2. \A x : x \in Whole <=> \E c \in Registered : x = rows[c].id /\ Intact(c)
      BY DEF Whole
    <3>3. rows'[d].id = job.no /\ \A c \in Registered : rows'[c].id = rows[c].id
      BY <2>3 DEF NewRow
    <3>4. ASSUME NEW x PROVE x \in Whole' <=> x \in Whole \cup {job.no}
      <4> HIDE DEF d
      <4>1. (\E c \in Registered \cup {d} : x = rows'[c].id /\ Intact(c)')
              <=> x = job.no \/ \E c \in Registered : x = rows[c].id /\ Intact(c)
        BY <2>6, <2>7, <3>3
      <4>2. QED  BY <3>1, <3>2, <4>1
    <3>5. QED  BY <3>4
  <2>9. NewRow.id = job.no  BY DEF NewRow
  <2>10. Registry!Register(d, NewRow)
    <3>1. \A c \in Registry!Entered : rows[c].id # Served /\ SiteName[c] # SiteName[d]
      BY <2>2, <2>4, <2>5 DEF Registry!Entered, Registered
    <3>2. QED
      BY <1>2, <1>4, <2>1, <2>2, <2>8, <2>9, <3>1 DEF Registry!Register
  <2>11. QED  BY <1>1, <2>1, <2>10 DEF Registry!AbsNext
<1>5. QED  BY <1>1, <1>3, <1>4

\* An UPDATE finds the row of the task's own site, or none.
LEMMA RegistryAdjusts ==
    ASSUME SiteShape, job # None, NEW row, UpdateRow(row), job' = job, broken' = broken,
           HasRow => /\ row \in Row /\ row.id = rows[job.domain].id
                     /\ row.type = rows[job.domain].type
    PROVE  [Registry!AbsNext]_(Registry!absVars)
<1>1. rows \in [Domain -> Row \cup {None}] /\ job.domain \in Domain /\ disk' = disk
      /\ None \notin Row
  BY NoneAssumption DEF SiteShape, SiteTypes, Request, UpdateRow, Update
<1>2. DataKept  BY <1>1 DEF DataKept
<1>3. CASE HasRow
  <2>1. rows' = [rows EXCEPT ![job.domain] = row]  BY <1>3 DEF UpdateRow, Update
  <2>2. RowsKept
    <3>1. \A d \in Domain : rows'[d] = IF d = job.domain THEN row ELSE rows[d]
      BY <1>1, <2>1
    <3>2. QED  BY <1>1, <1>3, <3>1 DEF RowsKept, HasRow
  <2>3. Whole' = Whole  BY <1>2, <2>2, WholeKept
  <2>4. Served = job.site /\ Served' = Served  BY DEF Served
  <2>5. Registry!Adjust(job.domain, row)
    BY <1>1, <1>3, <2>1, <2>3, <2>4 DEF Registry!Adjust, HasRow
  <2>6. QED  BY <1>1, <1>3, <2>5 DEF Registry!AbsNext
<1>4. CASE ~HasRow
  <2>1. rows' = [rows EXCEPT ![job.domain] = rows[job.domain]]  BY <1>4 DEF UpdateRow, Update
  <2>2. rows' = rows  BY <1>1, <2>1
  <2>3. QED  BY <1>2, <2>2, RegistryStutters
<1>5. QED  BY <1>3, <1>4

LEMMA RegistryUpdates ==
    ASSUME SiteShape, DataIntact, DataIntact',
           SetSSL \/ ClearSSL \/ \E p \in BOOLEAN : SetStatus(p)
    PROVE  [Registry!AbsNext]_(Registry!absVars)
<1>1. step \in {"set_ssl", "clear_ssl", "set_paused", "set_active"}
      /\ UNCHANGED <<job, outside>> /\ SiteShape'
  <2>1. CASE SetSSL
    BY <2>1, SecuredHarmless DEF SetSSL, At, Harmless
  <2>2. CASE ClearSSL
    BY <2>2, UnsecuredHarmless DEF ClearSSL, At, Harmless
  <2>3. CASE \E p \in BOOLEAN : SetStatus(p)
    BY <2>3, SetStatusEnds DEF SetStatus, At
  <2>4. QED  BY <2>1, <2>2, <2>3
<1>2. job # None /\ broken' = broken /\ job \in Request /\ job.domain \in Domain
      /\ rows \in [Domain -> Row \cup {None}]
  <2>1. job # None  BY <1>1, WorkerBusy
  <2>2. QED  BY <1>1, <2>1 DEF outside, SiteShape, SiteTypes, Request
<1>3. ASSUME NEW dk, Return(dk) PROVE [Registry!AbsNext]_(Registry!absVars)
  <2>1. Same  BY <1>1, <1>3 DEF Same, Return
  <2>2. QED  BY <1>2, <2>1, RegistrySame
<1>4. ASSUME HasRow
      PROVE  LET r == rows[job.domain]
             IN  /\ r \in Row
                 /\ \A p \in BOOLEAN : /\ [r EXCEPT !.paused = p] \in Row
                                       /\ [r EXCEPT !.paused = p].id = r.id
                                       /\ [r EXCEPT !.paused = p].type = r.type
                 /\ \A b \in BOOLEAN : /\ [r EXCEPT !.ssl = b] \in Row
                                       /\ [r EXCEPT !.ssl = b].id = r.id
                                       /\ [r EXCEPT !.ssl = b].type = r.type
  BY <1>2, <1>4 DEF HasRow, Row
<1>5. ASSUME NEW row, UpdateRow(row),
             \/ \E p \in BOOLEAN : row = [rows[job.domain] EXCEPT !.paused = p]
             \/ \E b \in BOOLEAN : row = [rows[job.domain] EXCEPT !.ssl = b]
      PROVE  [Registry!AbsNext]_(Registry!absVars)
  <2>1. HasRow => /\ row \in Row /\ row.id = rows[job.domain].id
                  /\ row.type = rows[job.domain].type
    BY <1>4, <1>5
  <2>2. QED  BY <1>1, <1>2, <1>5, <2>1, RegistryAdjusts
<1>6. CASE SetSSL  BY <1>3, <1>5, <1>6 DEF SetSSL
<1>7. CASE ClearSSL  BY <1>3, <1>5, <1>7 DEF ClearSSL
<1>8. CASE \E p \in BOOLEAN : SetStatus(p)  BY <1>3, <1>5, <1>8 DEF SetStatus
<1>9. QED  BY <1>6, <1>7, <1>8

\* The row of a deleted site goes last, or stays because the DELETE failed.
LEMMA RegistryWithdraws ==
    ASSUME RegistryInv, DeleteRow
    PROVE  [Registry!AbsNext]_(Registry!absVars)
<1>0. SiteShape  BY DEF RegistryInv, NumberInv
<1>1. /\ AtWork("delete_row", "delete") /\ job' = job
      /\ disk' = [disk EXCEPT !.cert[job.domain] = "none"]
      /\ \/ HasRow /\ rows' = [rows EXCEPT ![job.domain] = None] /\ broken' = broken
         \/ ~HasRow /\ rows' = rows /\ broken' = broken
         \/ "sqlite" \in Faults /\ rows' = rows /\ broken' = broken \cup {job.site}
  BY <1>0, DeleteRowEnds
<1> DEFINE d == job.domain
<1>2. /\ rows \in [Domain -> Row \cup {None}] /\ d \in Domain /\ job # None /\ job.site # None
      /\ disk \in Disk
  BY <1>0, <1>1, NoneAssumption DEF SiteShape, SiteTypes, AtWork
<1>3. DataKept  BY <1>1, <1>2, CertData
<1>4. Served = job.site /\ Served' = Served  BY <1>1, <1>2 DEF Served
<1>5. CASE ~HasRow /\ rows' = rows /\ broken' = broken  BY <1>1, <1>3, <1>5, RegistryStutters
<1>6. CASE rows' = rows /\ broken' = broken \cup {job.site}
  <2>1. Whole' = Whole  BY <1>3, <1>6, SameRows, WholeKept
  <2>2. Registry!CutOff
    BY <1>2, <1>4, <1>6, <2>1 DEF Registry!CutOff, Registry!OthersKept
  <2>3. QED  BY <2>2 DEF Registry!AbsNext
<1>7. CASE HasRow /\ rows' = [rows EXCEPT ![d] = None] /\ broken' = broken
  <2>1. /\ d \in Registered /\ Registered' = Registered \ {d} /\ rows[d].id = job.site
        /\ \A c \in Registered' : rows'[c] = rows[c]
    BY <1>2, <1>7 DEF Registered, HasRow
  <2>2. \A c \in Registered' : rows[c].id # job.site
    BY <2>1 DEF RegistryInv, NumberInv, Numbered
  <2>3. \A c \in Registered' : Intact(c)' <=> Intact(c)
    BY <1>3, <2>1 DEF Intact, DataKept
  <2>4. Whole' = Whole \ {job.site}
    <3>1. \A x : x \in Whole' <=> \E c \in Registered' : x = rows'[c].id /\ Intact(c)'
      BY DEF Whole
    <3>2. \A x : x \in Whole <=> \E c \in Registered : x = rows[c].id /\ Intact(c)
      BY DEF Whole
    <3>3. QED  BY <2>1, <2>2, <2>3, <3>1, <3>2
  <2>5. Registry!Withdraw(d)
    BY <1>2, <1>4, <1>7, <2>1, <2>4 DEF Registry!Withdraw, HasRow
  <2>6. QED  BY <1>2, <2>5 DEF Registry!AbsNext
<1>8. QED  BY <1>1, <1>5, <1>6, <1>7

\* The worker leaves a site as it should be; a crash may leave it spoiled.
LEMMA RegistryLeaves ==
    ASSUME SiteShape, job # None, job' = None, rows' = rows, disk' = disk, DataIntact',
           broken' \in {broken, broken \cup {job.site}}
    PROVE  [Registry!AbsNext]_(Registry!absVars)
<1>1. job.site # None  BY NoneAssumption DEF SiteShape, SiteTypes, Request
<1>2. Served = job.site /\ Served' = None  BY DEF Served
<1>3. Whole' = Whole  BY SameRows, WholeKept DEF DataKept
<1>4. CASE broken' = broken
  <2>1. ASSUME NEW d \in Domain, rows[d] # None, rows[d].id = job.site
        PROVE  job.site \in Whole \cup broken
    <3>1. d \in Registered /\ d \in Registered'  BY <2>1 DEF Registered
    <3>2. ~InWork(d)'  BY DEF InWork
    <3>3. InWork(d)' \/ rows'[d].id \in broken' \/ Intact(d)'  BY <3>1 DEF DataIntact
    <3>4. rows[d].id \in broken \/ Intact(d)  BY <1>4, <3>2, <3>3 DEF Intact
    <3>5. QED  BY <2>1, <3>1, <3>4 DEF Whole
  <2>2. Registry!Leave
    BY <1>1, <1>2, <1>3, <1>4, <2>1 DEF Registry!Leave, Registry!Entered
  <2>3. QED  BY <2>2 DEF Registry!AbsNext
<1>5. CASE broken' = broken \cup {job.site}
  <2>1. Registry!CutOff
    BY <1>1, <1>2, <1>3, <1>5 DEF Registry!CutOff, Registry!OthersKept
  <2>2. QED  BY <2>1 DEF Registry!AbsNext
<1>6. QED  BY <1>4, <1>5

LEMMA RegistryTasks ==
    ASSUME RegistryInv, DataIntact', OwnDatabase', Create \/ Delete \/ Toggle \/ Secured \/ Rename
    PROVE  [Registry!AbsNext]_(Registry!absVars)
<1>0. SiteShape /\ DataIntact  BY DEF RegistryInv, NumberInv
<1>1. CASE InsertRow  BY <1>1, RegistryRegisters
<1>2. CASE DeleteRow  BY <1>2, RegistryWithdraws
<1>3. CASE SetSSL \/ ClearSSL \/ \E p \in BOOLEAN : SetStatus(p)
  BY <1>0, <1>3, RegistryUpdates
<1>4. CASE Create /\ ~InsertRow
  <2>1. Same /\ job # None
    BY <1>0, <1>4, CreateUserEnds, CreateDirectoriesEnds, DeployFilesEnds, CreateDatabaseEnds,
       WriteConfigEnds, CreatePoolEnds, ApplyHttpEnds, ObtainFirstCertEnds, ApplyHttpsEnds,
       NoneAssumption DEF Create, AtWork
  <2>2. QED  BY <1>0, <2>1, RegistrySame
<1>5. CASE Delete /\ ~DeleteRow
  <2>1. Same /\ job # None
    BY <1>0, <1>5, RemoveFilesEnds, DropDatabaseEnds, RemoveConfsEnds, NoneAssumption
       DEF Delete, AtWork
  <2>2. QED  BY <1>0, <2>1, RegistrySame
<1>6. CASE Unlink \/ Link \/ Rewrite
  <2>1. Same /\ job # None
    BY <1>0, <1>6, UnlinkEnds, LinkEnds, RewriteEnds, NoneAssumption DEF AtWork
  <2>2. QED  BY <1>0, <2>1, RegistrySame
<1>7. CASE ObtainCert \/ ApplySecure \/ RemoveCert \/ ApplyPlain
  <2>1. Harmless("ssl") \/ Harmless("unssl")
    BY <1>0, <1>7, SecuredHarmless, UnsecuredHarmless
  <2>2. rows' = rows
    BY <1>7 DEF ObtainCert, ApplySecure, RemoveCert, ApplyPlain, Proceed, Return
  <2>3. QED  BY <2>1, <2>2, RegistryStutters DEF Harmless, outside
<1>8. CASE Rename
  <2>1. Same /\ job # None
    BY <1>0, <1>8, MoveConfEnds, MovePoolEnds, MoveWebEnds, MoveLogsEnds, NoneAssumption
       DEF Rename, AtWork
  <2>2. QED  BY <1>0, <2>1, RegistrySame
<1>9. QED
  BY <1>1, <1>2, <1>3, <1>4, <1>5, <1>6, <1>7, <1>8 DEF Toggle, Secured

LEMMA RegistryStep ==
    ASSUME RegistryInv, DataIntact', OwnDatabase', [Next]_vars
    PROVE  [Registry!AbsNext]_(Registry!absVars)
<1>0. SiteShape /\ DataIntact /\ DataInv /\ disk \in Disk
  BY DEF RegistryInv, NumberInv, SiteShape, SiteTypes
<1>1. CASE Ask
  <2>1. UNCHANGED <<rows, disk, work, broken>>  BY <1>0, <1>1, AskEnds
  <2>2. QED  BY <2>1, RegistryStutters DEF work, DataKept
<1>2. CASE Worker
  <2>1. CASE \E r \in pending : Take(r)
    <3>1. PICK r \in pending : Take(r)  BY <2>1
    <3>2. job = None /\ job' = r /\ r \in Request /\ UNCHANGED <<rows, disk, broken>>
      BY <1>0, <3>1, TakeEnds
    <3>3. r # None /\ r.site # None  BY <3>2, NoneAssumption DEF Request
    <3>4. Served = None /\ Served' = r.site  BY <3>2, <3>3 DEF Served
    <3>5. Whole' = Whole  BY <3>2, SameRows, WholeKept DEF DataKept
    <3>6. Served' # None /\ Registry!Serve(Served')
      BY <3>2, <3>3, <3>4, <3>5 DEF Registry!Serve
    <3>7. QED  BY <3>6 DEF Registry!AbsNext
  <2>2. CASE Create \/ Delete \/ Toggle \/ Secured \/ Rename  BY <2>2, RegistryTasks
  <2>3. CASE Rollback
    <3>1. Same /\ job # None
      BY <1>0, <2>3, RollbackEnds, NoneAssumption DEF AtWork
    <3>2. QED  BY <1>0, <3>1, RegistrySame
  <2>4. CASE Finish
    <3>1. job # None /\ job' = None /\ rows' = rows /\ disk' = disk /\ broken' = broken
      BY <1>0, <2>4, FinishEnds DEF outside
    <3>2. QED  BY <1>0, <3>1, RegistryLeaves
  <2>5. QED  BY <1>2, <2>1, <2>2, <2>3, <2>4 DEF Worker
<1>3. CASE Regenerate
  <2>1. DataKept /\ UNCHANGED <<rows, work, broken>>
    <3>1. CASE \E d \in Domain : StartRegen(d)
      BY <1>0, <3>1, StartRegenEnds DEF DataKept
    <3>2. CASE \E c \in regens : FinishRegen(c)
      BY <1>0, <3>2, FinishRegenEnds, NginxData
    <3>3. QED  BY <1>3, <3>1, <3>2 DEF Regenerate
  <2>2. QED  BY <2>1, RegistryStutters DEF work
<1>4. CASE Crash
  <2>1. /\ job' = None /\ rows' = rows /\ disk' = disk
        /\ broken' = broken \cup (IF job # None /\ job.kind \in {"delete", "rename"}
                                  THEN {job.site} ELSE {})
    BY <1>0, <1>4, CrashEnds
  <2>2. CASE job = None  BY <2>1, <2>2, RegistryStutters DEF DataKept
  <2>3. CASE job # None  BY <1>0, <2>1, <2>3, RegistryLeaves
  <2>4. QED  BY <2>2, <2>3
<1>5. CASE UNCHANGED vars
  BY <1>5, RegistryStutters DEF vars, work, outside, DataKept
<1>6. QED  BY <1>1, <1>2, <1>3, <1>4, <1>5 DEF Next

\* The tasks, the goroutines and the crashes implement SiteRegistry: each site is
\* registered once, whole and with a database of its own, and from then on only
\* its own task changes its row or takes from it anything it needs.
THEOREM SitesAreRegistry ==
    ASSUME Careful
    PROVE  Spec => ImplementsRegistry
<1>1. Init => Registry!AbsInit
  <2>1. ASSUME Init PROVE Registered = {} /\ Served = None
    BY <2>1 DEF Init, Registered, Served
  <2>2. ASSUME Init PROVE Whole = {}  BY <2>1, <2>2 DEF Whole
  <2>3. QED  BY <2>1, <2>2 DEF Init, Registry!AbsInit
<1>2. DataInv => OwnDatabase  BY DEF DataInv
<1>3. RegistryInv /\ DataIntact' /\ OwnDatabase' /\ [Next]_vars
        => [Registry!AbsNext]_(Registry!absVars)
  BY RegistryStep
<1>4. Spec => []DataIntact  BY SitesKeepData
<1>5. Spec => []DataInv  BY SitesDataHolds
<1>6. QED
  BY <1>1, <1>2, <1>3, <1>4, <1>5, NumbersHold, PTL
  DEF Spec, ImplementsRegistry, Registry!AbsSpec, RegistryInv

=============================================================================
