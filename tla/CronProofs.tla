------------------------------ MODULE CronProofs ------------------------------
(***************************************************************************)
(* Proofs about the scheduled jobs, for any number of handlers, sites,     *)
(* jobs, requests and crashes: the inductive invariant CronInv, and from   *)
(* it that a job has one execution at a time and that the cron file        *)
(* follows the rows.                                                       *)
(***************************************************************************)
EXTENDS CronJobs, SequenceTheorems, TLAPS

(* Frames: what a step that leaves most of the state alone preserves.      *)

\* A handler goes on to its next step.
LEMMA GoToFacts ==
    ASSUME TypeOK, NEW h \in Handler, request[h] # None, NEW p \in Place, GoTo(h, p)
    PROVE  /\ request' \in [Handler -> Request \cup {None}]
           /\ request'[h] # None /\ request'[h] \in Request
           /\ request'[h] = [request[h] EXCEPT !.at = p]
           /\ \A i \in Handler : i # h => request'[i] = request[i]
<1>1. request[h] \in Request  BY DEF TypeOK
<1>2. [request[h] EXCEPT !.at = p] \in Request  BY <1>1 DEF Request
<1>3. request' = [request EXCEPT ![h] = [request[h] EXCEPT !.at = p]]  BY DEF GoTo
<1>4. QED  BY <1>1, <1>2, <1>3, NoneAssumption DEF TypeOK

\* A handler that has no task changes its place: the queue does not notice.
LEMMA QueueFrame ==
    ASSUME TypeOK, QueueState, NEW h \in Handler, ~At(h, "queued"),
           \A i \in Handler : i # h => request'[i] = request[i],
           queue' = queue, worker' = worker
    PROVE  QueueState'
<1>1. \A i \in DOMAIN queue : queue[i] \in Handler  BY DEF TypeOK
<1>2. \A i \in Handler : At(i, "queued") => i # h /\ At(i, "queued")'
  BY DEF At
<1>3. QED  BY <1>1, <1>2 DEF QueueState

\* One handler's request changes.
LEMMA RequestFrame ==
    ASSUME RequestState, NEW h \in Handler, lastId' = lastId,
           \A i \in Handler : i # h => request'[i] = request[i],
           (request[h] # None => Consistent(request[h]))'
    PROVE  RequestState'
<1>1. ASSUME NEW i \in Handler, request'[i] # None, i # h
      PROVE  Consistent(request[i])'
  <2>1. Consistent(request[i])  BY <1>1 DEF RequestState
  <2>2. QED  BY <1>1, <2>1 DEF Consistent
<1>2. QED  BY <1>1 DEF RequestState

\* A step after which no job has a new claimant and every job that is left keeps
\* its flag.
LEMMA ClaimFrame ==
    ASSUME ClaimHeld, OneRunAtATime,
           \A j \in Job : Claimants(j)' \subseteq Claimants(j),
           \A j \in Job : Claimants(j)' # {} /\ rows'[j] # None =>
                              rows[j] # None /\ rows'[j].running = rows[j].running
    PROVE  ClaimHeld' /\ OneRunAtATime'
<1>1. ClaimHeld'  BY DEF ClaimHeld
<1>2. OneRunAtATime'  BY DEF OneRunAtATime
<1>3. QED  BY <1>1, <1>2

\* A step after which the rendering of some handler is to come.
LEMMA FileComing ==
    ASSUME NEW h \in Handler, RenderToCome(h)'
    PROVE  FileFollowsRows'
BY DEF FileFollowsRows

\* A step that changes neither the lines nor the file, and does away with no
\* rendering.
LEMMA FileFrame ==
    ASSUME FileFollowsRows, Lines' = Lines, stale' = stale, cronFile' = cronFile,
           worker'.step = "write" <=> worker.step = "write",
           worker'.lines = worker.lines,
           \A i \in Handler : RenderToCome(i) => RenderToCome(i)'
    PROVE  FileFollowsRows'
BY DEF FileFollowsRows

LEMMA LinesFrame == ASSUME rows' = rows PROVE Lines' = Lines
BY DEF Lines

(* The steps of the handlers.                                              *)

LEMMA InitInv == Init => CronInv
<1> SUFFICES ASSUME Init PROVE CronInv  OBVIOUS
<1> USE DEF Init, Idle
<1>1. TypeOK
  <2>1. 0 \in 0..MaxJobs /\ 0 \in 0..MaxRequests /\ 0 \in 0..MaxCrashes
    BY CronAssumption
  <2>2. worker \in Worker  BY DEF Worker
  <2>3. rows \in [Job -> Row \cup {None}] /\ request \in [Handler -> Request \cup {None}]
    OBVIOUS
  <2>4. queue \in Seq(Handler)  OBVIOUS
  <2>5. cronFile \subseteq Line /\ sites \subseteq Site /\ disabled \subseteq sites
    OBVIOUS
  <2>6. stale \in BOOLEAN  OBVIOUS
  <2>7. QED  BY <2>1, <2>2, <2>3, <2>4, <2>5, <2>6 DEF TypeOK
<1>2. RequestState  BY DEF RequestState, Consistent
<1>3. QueueState  BY DEF QueueState
<1>4. \A j \in Job : Claimants(j) = {}  BY DEF Claimants
<1>5. ClaimHeld /\ OneRunAtATime  BY <1>4 DEF ClaimHeld, OneRunAtATime
<1>6. Lines = {}  BY DEF Lines
<1>7. FileFollowsRows  BY <1>6 DEF FileFollowsRows
<1>8. QED  BY <1>1, <1>2, <1>3, <1>5, <1>7 DEF CronInv

\* A request arrives.
LEMMA AdmitStep ==
    ASSUME CronInv, NEW h \in Handler, NEW op \in Op, NEW j \in 0..MaxJobs,
           NEW at \in {"read", "write", "claim"}, NEW new \in Schedule \cup {None},
           NEW e \in BOOLEAN \cup {None}, Admit(h, op, j, at, new, e),
           op \in {"create", "update"} => new \in Schedule,
           op = "update" => at = "read", op = "run" <=> at = "claim",
           at = "read" => op \in {"update", "delete"},
           op # "create" => j \in 1..lastId,
           op = "create" => at = "write"
    PROVE  CronInv'
<1> DEFINE r == [op |-> op, job |-> j, at |-> at, new |-> new, enabled |-> e,
                 old |-> NoOld]
<1> TypeOK /\ RequestState /\ QueueState /\ ClaimHeld /\ OneRunAtATime /\ FileFollowsRows
  BY DEF CronInv
<1>1. r \in Request  BY DEF Request, Place, Old, NoOld
<1>2. /\ request' = [request EXCEPT ![h] = r] /\ request[h] = None
      /\ asked < MaxRequests /\ asked' = asked + 1
      /\ UNCHANGED <<rows, lastId, cronFile, disabled, sites, queue, worker, stale, crashes>>
  BY DEF Admit
<1>3. /\ request' \in [Handler -> Request \cup {None}]
      /\ request'[h] = r /\ r # None
      /\ \A i \in Handler : i # h => request'[i] = request[i]
  BY <1>1, <1>2, NoneAssumption DEF TypeOK
<1>4. TypeOK'
  <2>1. asked' \in 0..MaxRequests  BY <1>2, CronAssumption DEF TypeOK
  <2>2. QED  BY <1>2, <1>3, <2>1 DEF TypeOK
<1>5. RequestState'  BY <1>2, <1>3 DEF RequestState, Consistent
<1>6. QueueState'  BY <1>2, <1>3, QueueFrame DEF At
<1>7. \A k \in Job : Claimants(k)' \subseteq Claimants(k)
  BY <1>3 DEF Claimants
<1>8. ClaimHeld' /\ OneRunAtATime'  BY <1>2, <1>7, ClaimFrame
<1>9. FileFollowsRows'
  <2>1. \A i \in Handler : RenderToCome(i) => RenderToCome(i)'
    BY <1>2, <1>3 DEF RenderToCome
  <2>2. QED  BY <1>2, <2>1, FileFrame, LinesFrame
<1>10. QED  BY <1>4, <1>5, <1>6, <1>8, <1>9 DEF CronInv

\* A handler that has nothing to do with the rows goes on.
LEMMA MoveStep ==
    ASSUME CronInv, NEW h \in Handler, request[h] # None,
           request[h].at \in {"look", "config"}, NEW p \in {"config", "enqueue"},
           GoTo(h, p), disabled' \subseteq sites,
           UNCHANGED <<rows, lastId, cronFile, sites, queue, worker, stale, asked, crashes>>
    PROVE  CronInv'
<1> TypeOK /\ RequestState /\ QueueState /\ ClaimHeld /\ OneRunAtATime /\ FileFollowsRows
  BY DEF CronInv
<1>1. /\ request' \in [Handler -> Request \cup {None}]
      /\ request'[h] # None /\ request'[h] \in Request
      /\ request'[h] = [request[h] EXCEPT !.at = p]
      /\ \A i \in Handler : i # h => request'[i] = request[i]
  BY GoToFacts DEF Place
<1>2. request[h] \in Request  BY DEF TypeOK
<1>3. /\ request'[h].at = p /\ request'[h].op = request[h].op
      /\ request'[h].job = request[h].job /\ request'[h].new = request[h].new
      /\ request'[h].enabled = request[h].enabled
  BY <1>1, <1>2 DEF Request
<1>4. request[h].op # "run"  BY DEF RequestState, Consistent
<1>5. TypeOK'  BY <1>1 DEF TypeOK
<1>6. RequestState'
  <2>1. /\ request[h].op \in {"create", "update"} => request[h].new \in Schedule
        /\ request[h].op = "update" => request[h].enabled \in BOOLEAN
        /\ request[h].job \in 1..lastId
    BY DEF RequestState, Consistent
  <2>2. Consistent(request[h])'
    BY <1>3, <1>4, <2>1 DEF Consistent
  <2>3. QED  BY <1>1, <2>2, RequestFrame
<1>7. QueueState'  BY <1>1, QueueFrame DEF At
<1>8. \A k \in Job : Claimants(k)' \subseteq Claimants(k)
  BY <1>1, <1>3, <1>4 DEF Claimants
<1>9. ClaimHeld' /\ OneRunAtATime'  BY <1>8, ClaimFrame
<1>10. FileFollowsRows'
  <2>1. \A i \in Handler : RenderToCome(i) => RenderToCome(i)'
    BY <1>1, <1>3, <1>4 DEF RenderToCome
  <2>2. QED  BY <2>1, FileFrame, LinesFrame
<1>11. QED  BY <1>5, <1>6, <1>7, <1>9, <1>10 DEF CronInv

LEMMA ConfigSteps ==
    ASSUME CronInv, NEW h \in Handler, LookAtConfig(h) \/ WriteConfig(h)
    PROVE  CronInv'
<1> TypeOK  BY DEF CronInv
<1>1. CASE LookAtConfig(h)
  <2>1. PICK p \in {"config", "enqueue"} : GoTo(h, p)  BY <1>1 DEF LookAtConfig
  <2>2. QED  BY <1>1, <2>1, MoveStep DEF LookAtConfig, At, TypeOK
<1>2. CASE WriteConfig(h)
  <2>1. disabled' \subseteq sites  BY <1>2 DEF WriteConfig, TypeOK
  <2>2. QED  BY <1>2, <2>1, MoveStep DEF WriteConfig, At
<1>3. QED  BY <1>1, <1>2

\* The request of handler h ends without having changed anything.
LEMMA GiveUpStep ==
    ASSUME CronInv, NEW h \in Handler, request[h] # None,
           request[h].at \in {"write", "claim"},
           request' = [request EXCEPT ![h] = None],
           UNCHANGED <<rows, lastId, cronFile, disabled, sites, queue, worker, stale,
                       asked, crashes>>
    PROVE  CronInv'
<1> TypeOK /\ RequestState /\ QueueState /\ ClaimHeld /\ OneRunAtATime /\ FileFollowsRows
  BY DEF CronInv
<1>1. /\ request' \in [Handler -> Request \cup {None}] /\ request'[h] = None
      /\ \A i \in Handler : i # h => request'[i] = request[i]
  BY DEF TypeOK
<1>2. TypeOK'  BY <1>1 DEF TypeOK
<1>3. RequestState'  BY <1>1 DEF RequestState, Consistent
<1>4. QueueState'  BY <1>1, QueueFrame DEF At
<1>5. \A k \in Job : Claimants(k)' \subseteq Claimants(k)  BY <1>1 DEF Claimants
<1>6. ClaimHeld' /\ OneRunAtATime'  BY <1>5, ClaimFrame
<1>7. FileFollowsRows'
  <2>1. \A i \in Handler : RenderToCome(i) => RenderToCome(i)'
    BY <1>1 DEF RenderToCome
  <2>2. QED  BY <2>1, FileFrame, LinesFrame
<1>8. QED  BY <1>2, <1>3, <1>4, <1>6, <1>7 DEF CronInv

LEMMA ReadOldStep ==
    ASSUME CronInv, NEW h \in Handler, ReadOld(h) PROVE CronInv'
<1> TypeOK /\ RequestState /\ QueueState /\ ClaimHeld /\ OneRunAtATime /\ FileFollowsRows
  BY DEF CronInv
<1> DEFINE r == request[h]
           row == rows[r.job]
           old == IF row = None THEN NoOld ELSE [type |-> row.type, site |-> row.site]
           e == IF r.op = "update" /\ r.enabled = None
                THEN row = None \/ row.enabled ELSE r.enabled
           new == [r EXCEPT !.at = "write", !.old = old, !.enabled = e]
<1>1. r # None /\ r.at = "read" /\ r \in Request  BY DEF ReadOld, At, TypeOK
<1>2. r.op \in {"update", "delete"} /\ r.job \in Job
  <2>1. r.op \in {"update", "delete"} /\ r.job \in 1..lastId  BY <1>1 DEF RequestState, Consistent
  <2>2. QED  BY <2>1, CronAssumption DEF TypeOK, Job
<1>3. row \in Row \cup {None}  BY <1>2 DEF TypeOK
<1>4. old \in Old  BY <1>3 DEF Old, NoOld, Row
<1>5. e \in BOOLEAN \cup {None} /\ (r.op = "update" => e \in BOOLEAN)
  <2>1. r.enabled \in BOOLEAN \cup {None}  BY <1>1 DEF Request
  <2>2. row # None => row.enabled \in BOOLEAN  BY <1>3 DEF Row
  <2>3. QED  BY <2>1, <2>2
<1> HIDE DEF old, e
<1>6. new \in Request /\ new # None  BY <1>1, <1>4, <1>5, NoneAssumption DEF Request, Place
<1>7. /\ new.at = "write" /\ new.op = r.op /\ new.job = r.job /\ new.new = r.new
      /\ new.enabled = e
  BY <1>1 DEF Request
<1>8. request' = [request EXCEPT ![h] = new]  BY DEF ReadOld, old, e
<1> HIDE DEF new
<1>9. /\ request' \in [Handler -> Request \cup {None}] /\ request'[h] = new
      /\ \A i \in Handler : i # h => request'[i] = request[i]
  BY <1>6, <1>8 DEF TypeOK
<1>10. UNCHANGED <<rows, lastId, cronFile, disabled, sites, queue, worker, stale,
                   asked, crashes>>
  BY DEF ReadOld
<1>11. TypeOK'  BY <1>9, <1>10 DEF TypeOK
<1>12. RequestState'  BY <1>1, <1>2, <1>5, <1>7, <1>9, <1>10 DEF RequestState, Consistent
<1>13. QueueState'  BY <1>1, <1>9, <1>10, QueueFrame DEF At
<1>14. \A k \in Job : Claimants(k)' \subseteq Claimants(k)
  BY <1>7, <1>9 DEF Claimants
<1>15. ClaimHeld' /\ OneRunAtATime'  BY <1>10, <1>14, ClaimFrame
<1>16. FileFollowsRows'
  <2>1. \A i \in Handler : RenderToCome(i) => RenderToCome(i)'
    BY <1>1, <1>9, <1>10 DEF RenderToCome
  <2>2. QED  BY <1>10, <2>1, FileFrame, LinesFrame
<1>17. QED  BY <1>11, <1>12, <1>13, <1>15, <1>16 DEF CronInv

(* The steps that change rows.                                             *)

\* A handler has changed the row of a job nobody's claim depends on, or changed
\* it without touching the flag, and its rendering is to come.
LEMMA RowStep ==
    ASSUME CronInv, NEW h \in Handler, NEW r \in Request,
           At(h, "write"), request' = [request EXCEPT ![h] = r],
           r.at = "look", r.op = request[h].op, r.op # "run",
           r.new = request[h].new, r.enabled = request[h].enabled,
           NEW k \in Job, r.job = k, rows' \in [Job -> Row \cup {None}],
           \A j \in Job : j # k => rows'[j] = rows[j],
           lastId' \in 0..MaxJobs, lastId' >= lastId, k \in 1..lastId',
           \/ k > lastId
           \/ rows'[k] = None
           \/ rows[k] # None /\ rows'[k].running = rows[k].running,
           UNCHANGED <<cronFile, disabled, sites, queue, worker, stale, asked, crashes>>
    PROVE  CronInv'
<1> TypeOK /\ RequestState /\ QueueState /\ ClaimHeld /\ OneRunAtATime /\ FileFollowsRows
  BY DEF CronInv
<1> lastId \in Nat /\ lastId' \in Nat  BY CronAssumption DEF TypeOK
<1>1. /\ request' \in [Handler -> Request \cup {None}]
      /\ request'[h] = r /\ request[h] # None /\ r # None
      /\ request[h].at = "write"
      /\ \A i \in Handler : i # h => request'[i] = request[i]
  BY NoneAssumption DEF TypeOK, At
<1>2. TypeOK'  BY <1>1 DEF TypeOK
<1>3. RequestState'
  <2>1. Consistent(request[h])  BY <1>1 DEF RequestState
  <2>2. Consistent(request[h])'  BY <1>1, <2>1 DEF Consistent
  <2>3. ASSUME NEW i \in Handler, request'[i] # None, i # h
        PROVE  Consistent(request[i])'
    <3>1. Consistent(request[i])  BY <1>1, <2>3 DEF RequestState
    <3>2. \A j \in 1..lastId : j \in 1..lastId'  OBVIOUS
    <3>3. QED  BY <1>1, <2>3, <3>1, <3>2 DEF Consistent
  <2>4. QED  BY <2>2, <2>3 DEF RequestState
<1>4. QueueState'  BY <1>1, QueueFrame DEF At
<1>5. \A j \in Job : Claimants(j)' \subseteq Claimants(j)  BY <1>1 DEF Claimants
<1>6. k > lastId => Claimants(k) = {}
  BY DEF Claimants, RequestState, Consistent
<1>7. ClaimHeld' /\ OneRunAtATime'
  <2>1. ASSUME NEW j \in Job, Claimants(j)' # {}, rows'[j] # None
        PROVE  rows[j] # None /\ rows'[j].running = rows[j].running
    BY <1>5, <1>6, <2>1
  <2>2. QED  BY <1>5, <2>1, ClaimFrame
<1>8. FileFollowsRows'
  <2>1. ~(worker.by = h /\ worker.step = "write")
    BY <1>1 DEF QueueState, At
  <2>2. RenderToCome(h)'  BY <1>1, <2>1 DEF RenderToCome
  <2>3. QED  BY <2>2, FileComing
<1>9. QED  BY <1>2, <1>3, <1>4, <1>7, <1>8 DEF CronInv

LEMMA InsertRowStep ==
    ASSUME CronInv, NEW h \in Handler, InsertRow(h) PROVE CronInv'
<1> TypeOK /\ RequestState  BY DEF CronInv
<1> DEFINE r == request[h]
           k == lastId + 1
           new == [r EXCEPT !.job = k, !.at = "look"]
           row == [type |-> r.new.type, site |-> r.new.site, enabled |-> TRUE,
                   running |-> FALSE]
<1>1. r # None /\ r.at = "write" /\ r.op = "create" /\ r \in Request
  BY DEF InsertRow, At, TypeOK
<1>2. r.new \in Schedule  BY <1>1 DEF RequestState, Consistent
<1>3. CASE /\ lastId < MaxJobs
           /\ lastId' = k
           /\ rows' = [rows EXCEPT ![k] = row]
           /\ request' = [request EXCEPT ![h].job = k, ![h].at = "look"]
  <2>1. k \in Job /\ lastId' \in 0..MaxJobs /\ lastId' >= lastId /\ k > lastId
    BY <1>3, CronAssumption DEF TypeOK, Job
  <2>2. row \in Row  BY <1>2 DEF Schedule, Row
  <2>3. new \in Request
    <3>1. \A n \in 0..MaxJobs : [r EXCEPT !.job = n, !.at = "look"] \in Request
      BY <1>1 DEF Request, Place
    <3>2. k \in 0..MaxJobs  BY <2>1 DEF Job
    <3>3. QED  BY <3>1, <3>2
  <2>4. /\ new.at = "look" /\ new.op = r.op /\ new.new = r.new
        /\ new.enabled = r.enabled /\ new.job = k
    BY <1>1 DEF Request
  <2>5. request' = [request EXCEPT ![h] = new]  BY <1>3 DEF TypeOK
  <2>6. /\ rows' \in [Job -> Row \cup {None}]
        /\ \A j \in Job : j # k => rows'[j] = rows[j]
    BY <1>3, <2>1, <2>2 DEF TypeOK
  <2>7. k \in 1..lastId'  BY <1>3, <2>1, CronAssumption DEF TypeOK
  <2>8. UNCHANGED <<cronFile, disabled, sites, queue, worker, stale, asked, crashes>>
    BY DEF InsertRow
  <2> HIDE DEF new, k, row
  <2>9. QED  BY <1>1, <2>1, <2>3, <2>4, <2>5, <2>6, <2>7, <2>8, RowStep DEF At
<1>4. CASE request' = [request EXCEPT ![h] = None] /\ UNCHANGED <<rows, lastId>>
  BY <1>1, <1>4, GiveUpStep DEF InsertRow
<1>5. QED  BY <1>3, <1>4 DEF InsertRow

LEMMA UpdateRowStep ==
    ASSUME CronInv, NEW h \in Handler, UpdateRow(h) PROVE CronInv'
<1> TypeOK /\ RequestState  BY DEF CronInv
<1> DEFINE r == request[h]
           k == r.job
           new == [r EXCEPT !.at = "look"]
           row == [rows[k] EXCEPT !.type = r.new.type, !.site = r.new.site,
                                  !.enabled = r.enabled]
<1>1. r # None /\ r.at = "write" /\ r.op = "update" /\ r \in Request
  BY DEF UpdateRow, At, TypeOK
<1>2. r.new \in Schedule /\ r.enabled \in BOOLEAN /\ k \in 1..lastId
  BY <1>1 DEF RequestState, Consistent
<1>3. k \in Job  BY <1>2, CronAssumption DEF TypeOK, Job
<1>4. CASE /\ rows' = [rows EXCEPT ![k] = IF @ = None THEN None ELSE row]
           /\ GoTo(h, "look") /\ UNCHANGED lastId
  <2>1. rows[k] \in Row => row \in Row /\ row.running = rows[k].running
    BY <1>2 DEF Schedule, Row
  <2>2. rows[k] \in Row \cup {None}  BY <1>3 DEF TypeOK
  <2>3. new \in Request  BY <1>1 DEF Request, Place
  <2>4. /\ new.at = "look" /\ new.op = r.op /\ new.new = r.new
        /\ new.enabled = r.enabled /\ new.job = k
    BY <1>1 DEF Request
  <2>5. request' = [request EXCEPT ![h] = new]  BY <1>4 DEF TypeOK, GoTo
  <2> HIDE DEF new, row
  <2>6. /\ rows' \in [Job -> Row \cup {None}]
        /\ \A j \in Job : j # k => rows'[j] = rows[j]
        /\ rows'[k] = IF rows[k] = None THEN None ELSE row
    BY <1>3, <1>4, <2>1, <2>2 DEF TypeOK
  <2>7. \/ rows'[k] = None
        \/ rows[k] # None /\ rows'[k].running = rows[k].running
    BY <2>1, <2>2, <2>6
  <2>8. /\ UNCHANGED <<cronFile, disabled, sites, queue, worker, stale, asked, crashes>>
        /\ lastId' \in 0..MaxJobs /\ lastId' >= lastId /\ k \in 1..lastId'
    BY <1>2, <1>4, CronAssumption DEF UpdateRow, TypeOK
  <2> HIDE DEF k
  <2>9. QED  BY <1>1, <1>3, <2>3, <2>4, <2>5, <2>6, <2>7, <2>8, RowStep DEF At
<1>5. CASE request' = [request EXCEPT ![h] = None] /\ UNCHANGED <<rows, lastId>>
  BY <1>1, <1>5, GiveUpStep DEF UpdateRow
<1>6. QED  BY <1>4, <1>5 DEF UpdateRow

LEMMA DeleteRowStep ==
    ASSUME CronInv, NEW h \in Handler, DeleteRow(h) PROVE CronInv'
<1> TypeOK /\ RequestState  BY DEF CronInv
<1> DEFINE r == request[h]
           k == r.job
           new == [r EXCEPT !.at = "look"]
<1>1. r # None /\ r.at = "write" /\ r.op = "delete" /\ r \in Request
  BY DEF DeleteRow, At, TypeOK
<1>2. k \in 1..lastId  BY <1>1 DEF RequestState, Consistent
<1>3. k \in Job  BY <1>2, CronAssumption DEF TypeOK, Job
<1>4. new \in Request  BY <1>1 DEF Request, Place, Op
<1>5. /\ new.at = "look" /\ new.op = r.op /\ new.new = r.new
      /\ new.enabled = r.enabled /\ new.job = k
  BY <1>1 DEF Request
<1>6. request' = [request EXCEPT ![h] = new]  BY DEF TypeOK, GoTo, DeleteRow
<1>7. rows' = [rows EXCEPT ![k] = None] \/ rows' = rows  BY DEF DeleteRow
<1>8. /\ rows' \in [Job -> Row \cup {None}]
      /\ \A j \in Job : j # k => rows'[j] = rows[j]
      /\ rows'[k] = None \/ rows'[k] = rows[k]
  BY <1>3, <1>7 DEF TypeOK
<1>9. /\ UNCHANGED <<cronFile, disabled, sites, queue, worker, stale, asked, crashes>>
      /\ lastId' \in 0..MaxJobs /\ lastId' >= lastId /\ k \in 1..lastId'
  BY <1>2, CronAssumption DEF DeleteRow, TypeOK
<1> HIDE DEF new, k
<1>10. QED  BY <1>1, <1>3, <1>4, <1>5, <1>6, <1>8, <1>9, RowStep DEF At

LEMMA ClaimStep ==
    ASSUME CronInv, NEW h \in Handler, Claim(h) PROVE CronInv'
<1> TypeOK /\ RequestState /\ QueueState /\ ClaimHeld /\ OneRunAtATime /\ FileFollowsRows
  BY DEF CronInv
<1> DEFINE r == request[h]
<1>1. r # None /\ r.at = "claim" /\ r \in Request /\ r.op = "run" /\ r.job \in 1..lastId
  BY DEF Claim, At, TypeOK, RequestState, Consistent
<1>2. PICK k \in Job : k = r.job  BY <1>1, CronAssumption DEF TypeOK, Job
<1> DEFINE free == rows[k] # None /\ ~rows[k].running
<1>3. UNCHANGED <<lastId, cronFile, disabled, sites, queue, worker, stale, asked, crashes>>
  BY DEF Claim
<1>4. CASE request' = [request EXCEPT ![h] = None] /\ UNCHANGED rows
  BY <1>1, <1>3, <1>4, GiveUpStep
<1>5. CASE free /\ rows' = [rows EXCEPT ![k].running = TRUE] /\ GoTo(h, "enqueue")
  <2>1. rows' = [rows EXCEPT ![k].running = TRUE] /\ GoTo(h, "enqueue")
    BY <1>5
  <2>2. /\ request' \in [Handler -> Request \cup {None}]
        /\ request'[h] # None /\ request'[h] \in Request
        /\ request'[h] = [r EXCEPT !.at = "enqueue"]
        /\ \A i \in Handler : i # h => request'[i] = request[i]
    BY <1>1, <2>1, GoToFacts DEF Place
  <2>3. /\ request'[h].at = "enqueue" /\ request'[h].op = "run" /\ request'[h].job = k
    BY <1>1, <1>2, <2>2 DEF Request
  <2>4. rows[k] \in Row  BY <1>2, <1>5 DEF TypeOK
  <2>5. /\ rows'[k] \in Row /\ rows'[k].running = TRUE
        /\ rows'[k].type = rows[k].type /\ rows'[k].site = rows[k].site
        /\ rows'[k].enabled = rows[k].enabled
    BY <1>2, <2>1, <2>4 DEF Row, TypeOK
  <2>6. /\ \A j \in Job : j # k => rows'[j] = rows[j]
        /\ rows' \in [Job -> Row \cup {None}]
    BY <1>2, <2>1, <2>5 DEF TypeOK
  <2>7. TypeOK'  BY <1>3, <2>2, <2>6 DEF TypeOK
  <2>8. RequestState'
    <3>1. Consistent(request[h])'  BY <1>1, <1>2, <1>3, <2>3 DEF Consistent
    <3>2. QED  BY <1>3, <2>2, <3>1, RequestFrame
  <2>9. QueueState'  BY <1>1, <1>3, <2>2, QueueFrame DEF At
  <2>10. Claimants(k) = {}  BY <1>2, <1>5 DEF ClaimHeld
  <2>11. Claimants(k)' \subseteq {h}
    <3>1. ASSUME NEW i \in Handler, i \in Claimants(k)', i # h PROVE i \in Claimants(k)
      BY <2>2, <3>1 DEF Claimants
    <3>2. QED  BY <2>10, <3>1 DEF Claimants
  <2>12. \A j \in Job : j # k => Claimants(j)' = Claimants(j)
    BY <1>1, <1>2, <2>2, <2>3 DEF Claimants
  <2>13. ClaimHeld'
    BY <2>5, <2>6, <2>12 DEF ClaimHeld
  <2>14. OneRunAtATime'
    <3>1. \A i, l \in Claimants(k)' : i = l  BY <2>11
    <3>2. \A j \in Job : j # k => \A i, l \in Claimants(j)' : i = l
      BY <2>12 DEF OneRunAtATime
    <3>3. QED  BY <3>1, <3>2 DEF OneRunAtATime
  <2>15. FileFollowsRows'
    <3>1. \A j \in Job : /\ rows'[j] # None /\ rows'[j].enabled <=> rows[j] # None /\ rows[j].enabled
                         /\ rows[j] # None => rows'[j].type = rows[j].type
                                               /\ rows'[j].site = rows[j].site
      BY <1>5, <2>5, <2>6, NoneAssumption
    <3>2. Lines' = Lines  BY <3>1 DEF Lines
    <3>3. \A i \in Handler : RenderToCome(i) => RenderToCome(i)'
      BY <1>1, <1>3, <2>2 DEF RenderToCome
    <3>4. QED  BY <1>3, <3>2, <3>3, FileFrame
  <2>16. QED  BY <2>7, <2>8, <2>9, <2>13, <2>14, <2>15 DEF CronInv
<1>6. QED  BY <1>2, <1>4, <1>5 DEF Claim

LEMMA EnqueueStep ==
    ASSUME CronInv, NEW h \in Handler, Enqueue(h) PROVE CronInv'
<1> TypeOK /\ RequestState /\ QueueState /\ ClaimHeld /\ OneRunAtATime /\ FileFollowsRows
  BY DEF CronInv
<1> DEFINE r == request[h]
<1>1. r # None /\ r.at = "enqueue" /\ r \in Request
  BY DEF Enqueue, At, TypeOK
<1>2. UNCHANGED <<rows, lastId, cronFile, disabled, sites, worker, stale, asked, crashes>>
  BY DEF Enqueue
<1>3. /\ request' \in [Handler -> Request \cup {None}]
      /\ request'[h] # None /\ request'[h] \in Request
      /\ request'[h] = [r EXCEPT !.at = "queued"]
      /\ \A i \in Handler : i # h => request'[i] = request[i]
  BY <1>1, GoToFacts DEF Place, Enqueue
<1>4. /\ request'[h].at = "queued" /\ request'[h].op = r.op /\ request'[h].job = r.job
      /\ request'[h].new = r.new /\ request'[h].enabled = r.enabled
  BY <1>1, <1>3 DEF Request
<1>5. /\ queue' \in Seq(Handler) /\ Len(queue') = Len(queue) + 1 /\ Len(queue) \in Nat
      /\ DOMAIN queue' = 1..Len(queue') /\ DOMAIN queue = 1..Len(queue)
      /\ \A i \in 1..Len(queue) : queue'[i] = queue[i] /\ queue[i] \in Handler
      /\ queue'[Len(queue) + 1] = h
  <2>1. queue \in Seq(Handler) /\ queue' = Append(queue, h)  BY DEF TypeOK, Enqueue
  <2>2. QED  BY <2>1
<1>6. TypeOK'  BY <1>2, <1>3, <1>5 DEF TypeOK
<1>7. RequestState'
  <2>1. Consistent(request[h])  BY <1>1 DEF RequestState
  <2>2. Consistent(request[h])'  BY <1>1, <1>2, <1>4, <2>1 DEF Consistent
  <2>3. QED  BY <1>2, <1>3, <2>2, RequestFrame
<1>8. QueueState'
  <2>1. \A i \in Handler : At(i, "queued") => i # h /\ At(i, "queued")'
    BY <1>1, <1>3 DEF At
  <2>2. At(h, "queued")' /\ worker.by # h
    <3>1. At(h, "queued")'  BY <1>3, <1>4 DEF At
    <3>2. worker.by # h
      <4>1. CASE worker.step = "idle"  BY <4>1, CronAssumption DEF QueueState
      <4>2. CASE worker.step # "idle"  BY <4>2, <2>1 DEF QueueState
      <4>3. QED  BY <4>1, <4>2
    <3>3. QED  BY <3>1, <3>2
  <2>3. \A i \in DOMAIN queue' : At(queue[i], "queued")' /\ queue'[i] # worker'.by
    <3>1. \A i \in 1..Len(queue) : At(queue[i], "queued")' /\ queue'[i] # worker'.by
      <4> TAKE i \in 1..Len(queue)
      <4>1. At(queue[i], "queued") /\ queue[i] # worker.by /\ queue[i] \in Handler
        BY <1>5 DEF QueueState
      <4>2. At(queue[i], "queued")'
        BY <1>3, <1>5, <2>1, <4>1 DEF At
      <4>3. QED  BY <1>2, <1>5, <4>1, <4>2
    <3>2. ASSUME NEW i \in DOMAIN queue', i \notin 1..Len(queue)
          PROVE  At(queue[i], "queued")' /\ queue'[i] # worker'.by
      <4>1. queue'[i] = h  BY <1>5, <3>2
      <4>2. QED  BY <1>2, <2>2, <4>1 DEF At
    <3>3. QED  BY <1>5, <3>1, <3>2
  <2>4. \A i, k \in DOMAIN queue' : queue'[i] = queue'[k] => i = k
    BY <1>5, <2>1 DEF QueueState
  <2>5. worker'.step # "idle" => worker'.by \in Handler /\ At(worker.by, "queued")'
    BY <1>2, <2>1 DEF QueueState, At
  <2>6. worker'.step = "idle" => worker'.by = None  BY <1>2 DEF QueueState
  <2>7. QED  BY <2>3, <2>4, <2>5, <2>6 DEF QueueState
<1>9. \A j \in Job : Claimants(j)' \subseteq Claimants(j)
  <2>1. ASSUME NEW j \in Job, NEW i \in Handler, i \in Claimants(j)'
        PROVE  i \in Claimants(j)
    <3>1. CASE i = h  BY <1>1, <1>4, <2>1, <3>1 DEF Claimants
    <3>2. CASE i # h  BY <1>3, <2>1, <3>2 DEF Claimants
    <3>3. QED  BY <3>1, <3>2
  <2>2. QED  BY <2>1 DEF Claimants
<1>10. ClaimHeld' /\ OneRunAtATime'  BY <1>2, <1>9, ClaimFrame
<1>11. FileFollowsRows'
  <2>1. ~(worker.by = h /\ worker.step = "write")
    BY <1>1 DEF QueueState, At
  <2>2. \A i \in Handler : RenderToCome(i) => RenderToCome(i)'
    BY <1>2, <1>3, <1>4, <2>1 DEF RenderToCome
  <2>3. QED  BY <1>2, <2>2, FileFrame, LinesFrame
<1>12. QED  BY <1>6, <1>7, <1>8, <1>10, <1>11 DEF CronInv

(* The steps of the worker.                                                *)

LEMMA TakeStep == ASSUME CronInv, Take PROVE CronInv'
<1> TypeOK /\ RequestState /\ QueueState /\ ClaimHeld /\ OneRunAtATime /\ FileFollowsRows
  BY DEF CronInv
<1> DEFINE h == Head(queue)
<1>1. /\ UNCHANGED <<rows, lastId, cronFile, disabled, sites, request, stale, asked, crashes>>
      /\ worker = Idle /\ queue # <<>> /\ queue' = Tail(queue)
      /\ worker' = [by |-> h, lines |-> {}, step |-> "read"]
  BY DEF Take
<1>2. /\ Len(queue) \in Nat \ {0} /\ h = queue[1] /\ h \in Handler
      /\ queue' \in Seq(Handler)
      /\ DOMAIN queue = 1..Len(queue) /\ DOMAIN queue' = 1..(Len(queue) - 1)
      /\ \A i \in 1..(Len(queue) - 1) : queue'[i] = queue[i + 1]
  <2>1. queue \in Seq(Handler)  BY DEF TypeOK
  <2>2. QED  BY <1>1, <2>1
<1>3. /\ worker'.by = h /\ worker'.step = "read" /\ worker'.lines = {}
      /\ worker.step = "idle" /\ worker.lines = {}
  BY <1>1 DEF Idle
<1> HIDE DEF h
<1>4. TypeOK'
  <2>1. worker' \in Worker  BY <1>1, <1>2 DEF Worker
  <2>2. QED  BY <1>1, <1>2, <2>1 DEF TypeOK
<1>5. RequestState'  BY <1>1 DEF RequestState, Consistent
<1>6. QueueState'
  <2>1. At(h, "queued")  BY <1>2 DEF QueueState
  <2>2. \A i \in DOMAIN queue' : At(queue[i], "queued")' /\ queue'[i] # h
    <3> TAKE i \in DOMAIN queue'
    <3>1. i + 1 \in DOMAIN queue /\ i + 1 # 1 /\ queue'[i] = queue[i + 1]  BY <1>2
    <3>2. At(queue[i + 1], "queued") /\ queue[i + 1] # h  BY <1>2, <3>1 DEF QueueState
    <3>3. QED  BY <1>1, <3>1, <3>2 DEF At
  <2>3. \A i, k \in DOMAIN queue' : queue'[i] = queue'[k] => i = k
    <3> TAKE i, k \in DOMAIN queue'
    <3>1. /\ i + 1 \in DOMAIN queue /\ queue'[i] = queue[i + 1]
          /\ k + 1 \in DOMAIN queue /\ queue'[k] = queue[k + 1]
          /\ i \in Int /\ k \in Int
      BY <1>2
    <3>2. queue[i + 1] = queue[k + 1] => i + 1 = k + 1  BY <3>1 DEF QueueState
    <3>3. QED  BY <3>1, <3>2
  <2>4. QED  BY <1>1, <1>2, <1>3, <2>1, <2>2, <2>3 DEF QueueState, At
<1>7. \A j \in Job : Claimants(j)' \subseteq Claimants(j)  BY <1>1 DEF Claimants
<1>8. ClaimHeld' /\ OneRunAtATime'  BY <1>1, <1>7, ClaimFrame
<1>9. FileFollowsRows'
  <2>1. \A i \in Handler : RenderToCome(i) => RenderToCome(i)'
    BY <1>1, <1>3 DEF RenderToCome
  <2>2. QED  BY <1>1, <1>3, <2>1, FileFrame, LinesFrame
<1>10. QED  BY <1>4, <1>5, <1>6, <1>8, <1>9 DEF CronInv

\* What the end of a task does to the requests and to the queue.
LEMMA AnswerFacts ==
    ASSUME TypeOK, RequestState, QueueState, worker.step # "idle", Answer,
           queue' = queue, lastId' = lastId
    PROVE  /\ worker.by \in Handler /\ At(worker.by, "queued")
           /\ request' \in [Handler -> Request \cup {None}]
           /\ request'[worker.by] = None
           /\ \A i \in Handler : i # worker.by => request'[i] = request[i]
           /\ worker' = Idle /\ Idle \in Worker /\ Idle.step = "idle" /\ Idle.by = None
           /\ RequestState' /\ QueueState'
           /\ \A j \in Job : Claimants(j)' \subseteq Claimants(j) \ {worker.by}
<1>1. worker.by \in Handler /\ At(worker.by, "queued")  BY DEF QueueState
<1>2. /\ request' \in [Handler -> Request \cup {None}] /\ request'[worker.by] = None
      /\ \A i \in Handler : i # worker.by => request'[i] = request[i]
  BY <1>1 DEF Answer, TypeOK
<1>3. worker' = Idle /\ Idle \in Worker /\ Idle.step = "idle" /\ Idle.by = None
  BY DEF Answer, Idle, Worker
<1>4. RequestState'  BY <1>1, <1>2, RequestFrame
<1>5. QueueState'
  <2>1. \A i \in DOMAIN queue : queue[i] \in Handler  BY DEF TypeOK
  <2>2. \A i \in DOMAIN queue' : At(queue[i], "queued")' /\ queue'[i] # worker'.by
    <3> TAKE i \in DOMAIN queue'
    <3>1. At(queue[i], "queued") /\ queue[i] # worker.by /\ queue[i] \in Handler
      BY <2>1 DEF QueueState
    <3>2. QED  BY <1>2, <1>3, <3>1, CronAssumption DEF At
  <2>3. QED  BY <1>3, <2>2 DEF QueueState
<1>6. \A j \in Job : Claimants(j)' \subseteq Claimants(j) \ {worker.by}
  BY <1>2 DEF Claimants
<1>7. QED  BY <1>1, <1>2, <1>3, <1>4, <1>5, <1>6

LEMMA ReadRowsStep == ASSUME CronInv, ReadRows PROVE CronInv'
<1> TypeOK /\ RequestState /\ QueueState /\ ClaimHeld /\ OneRunAtATime /\ FileFollowsRows
  BY DEF CronInv
<1>1. /\ UNCHANGED <<rows, lastId, cronFile, disabled, sites, queue, asked, crashes>>
      /\ worker.step = "read" /\ worker \in Worker
  BY DEF ReadRows, Rendering, TypeOK
<1>2. CASE worker' = [worker EXCEPT !.step = "write", !.lines = Lines]
           /\ UNCHANGED <<request, stale>>
  <2>1. Lines \subseteq Line
    <3>1. \A j \in Job : rows[j] # None => rows[j] \in Row  BY DEF TypeOK
    <3>2. QED  BY <3>1 DEF Lines, Line, Row
  <2>2. /\ worker' \in Worker /\ worker'.step = "write" /\ worker'.lines = Lines
        /\ worker'.by = worker.by
    BY <1>1, <1>2, <2>1 DEF Worker
  <2>3. TypeOK'  BY <1>1, <1>2, <2>2 DEF TypeOK
  <2>4. RequestState'  BY <1>1, <1>2 DEF RequestState, Consistent
  <2>5. QueueState'  BY <1>1, <1>2, <2>2 DEF QueueState, At
  <2>6. \A j \in Job : Claimants(j)' \subseteq Claimants(j)  BY <1>2 DEF Claimants
  <2>7. ClaimHeld' /\ OneRunAtATime'  BY <1>1, <2>6, ClaimFrame
  <2>8. FileFollowsRows'  BY <1>1, <2>2, LinesFrame DEF FileFollowsRows
  <2>9. QED  BY <2>3, <2>4, <2>5, <2>7, <2>8 DEF CronInv
<1>3. CASE Answer /\ stale' = TRUE
  <2>1. /\ request' \in [Handler -> Request \cup {None}] /\ worker' \in Worker
        /\ RequestState' /\ QueueState'
        /\ \A j \in Job : Claimants(j)' \subseteq Claimants(j)
    BY <1>1, <1>3, AnswerFacts
  <2>2. TypeOK'  BY <1>1, <1>3, <2>1 DEF TypeOK
  <2>3. ClaimHeld' /\ OneRunAtATime'  BY <1>1, <2>1, ClaimFrame
  <2>4. FileFollowsRows'
    <3>1. worker'.step = "idle"  BY <1>3 DEF Answer, Idle
    <3>2. QED  BY <1>3, <3>1 DEF FileFollowsRows
  <2>5. QED  BY <2>1, <2>2, <2>3, <2>4 DEF CronInv
<1>4. QED  BY <1>2, <1>3 DEF ReadRows

LEMMA WriteFileStep == ASSUME CronInv, WriteFile PROVE CronInv'
<1> TypeOK /\ RequestState /\ QueueState /\ ClaimHeld /\ OneRunAtATime /\ FileFollowsRows
  BY DEF CronInv
<1>1. /\ UNCHANGED <<rows, lastId, disabled, sites, queue, asked, crashes>>
      /\ worker.step = "write" /\ worker \in Worker /\ Answer
      /\ \/ cronFile' = worker.lines /\ stale' = FALSE
         \/ cronFile' = cronFile /\ stale' = TRUE
  BY DEF WriteFile, Rendering, TypeOK
<1>2. /\ worker.by \in Handler /\ RequestState' /\ QueueState'
      /\ request' \in [Handler -> Request \cup {None}]
      /\ \A i \in Handler : i # worker.by => request'[i] = request[i]
      /\ worker' = Idle /\ worker' \in Worker /\ worker'.step = "idle"
      /\ \A j \in Job : Claimants(j)' \subseteq Claimants(j)
  BY <1>1, AnswerFacts
<1>3. TypeOK'
  <2>1. cronFile' \subseteq Line  BY <1>1 DEF TypeOK, Worker
  <2>2. QED  BY <1>1, <1>2, <2>1 DEF TypeOK
<1>4. ClaimHeld' /\ OneRunAtATime'  BY <1>1, <1>2, ClaimFrame
<1>5. FileFollowsRows'
  <2>1. CASE stale'  BY <1>2, <2>1 DEF FileFollowsRows
  <2>2. CASE ~stale' /\ \E i \in Handler : RenderToCome(i)
    <3>1. PICK i \in Handler : RenderToCome(i)  BY <2>2
    <3>2. i # worker.by  BY <1>1, <3>1 DEF RenderToCome
    <3>3. RenderToCome(i)'  BY <1>2, <3>1, <3>2 DEF RenderToCome
    <3>4. QED  BY <3>3, FileComing
  <2>3. CASE ~stale' /\ ~\E i \in Handler : RenderToCome(i)
    <3>1. cronFile' = worker.lines  BY <1>1, <2>3
    <3>2. worker.lines = Lines  BY <1>1, <2>3 DEF FileFollowsRows
    <3>3. QED  BY <1>1, <1>2, <3>1, <3>2, LinesFrame DEF FileFollowsRows
  <2>4. QED  BY <2>1, <2>2, <2>3
<1>6. QED  BY <1>2, <1>3, <1>4, <1>5 DEF CronInv

LEMMA ReadJobStep == ASSUME CronInv, ReadJob PROVE CronInv'
<1> TypeOK /\ RequestState /\ QueueState /\ ClaimHeld /\ OneRunAtATime /\ FileFollowsRows
  BY DEF CronInv
<1>1. /\ UNCHANGED <<rows, lastId, cronFile, disabled, sites, queue, stale, asked, crashes>>
      /\ worker.step = "read" /\ request[worker.by].op = "run" /\ worker \in Worker
      /\ \/ Answer
         \/ worker' = [worker EXCEPT !.step = "execute"] /\ UNCHANGED request
  BY DEF ReadJob, Running, TypeOK
<1>2. CASE worker' = [worker EXCEPT !.step = "execute"] /\ UNCHANGED request
  <2>1. /\ worker' \in Worker /\ worker'.step = "execute"
        /\ worker'.lines = worker.lines /\ worker'.by = worker.by
    BY <1>1, <1>2 DEF Worker
  <2>2. TypeOK'  BY <1>1, <1>2, <2>1 DEF TypeOK
  <2>3. RequestState'  BY <1>1, <1>2 DEF RequestState, Consistent
  <2>4. QueueState'  BY <1>1, <1>2, <2>1 DEF QueueState, At
  <2>5. \A j \in Job : Claimants(j)' \subseteq Claimants(j)  BY <1>2 DEF Claimants
  <2>6. ClaimHeld' /\ OneRunAtATime'  BY <1>1, <2>5, ClaimFrame
  <2>7. \A i \in Handler : RenderToCome(i) => RenderToCome(i)'
    BY <1>2, <2>1 DEF RenderToCome
  <2>8. FileFollowsRows'  BY <1>1, <2>1, <2>7, FileFrame, LinesFrame
  <2>9. QED  BY <2>2, <2>3, <2>4, <2>6, <2>8 DEF CronInv
<1>3. CASE Answer
  <2>1. /\ request' \in [Handler -> Request \cup {None}] /\ RequestState' /\ QueueState'
        /\ \A i \in Handler : i # worker.by => request'[i] = request[i]
        /\ worker' = Idle /\ worker' \in Worker /\ worker'.step = "idle"
        /\ \A j \in Job : Claimants(j)' \subseteq Claimants(j)
    BY <1>1, <1>3, AnswerFacts
  <2>2. TypeOK'  BY <1>1, <2>1 DEF TypeOK
  <2>3. ClaimHeld' /\ OneRunAtATime'  BY <1>1, <2>1, ClaimFrame
  <2>4. FileFollowsRows'
    <3>1. \A i \in Handler : RenderToCome(i) => RenderToCome(i)'
      BY <1>1, <2>1 DEF RenderToCome
    <3>2. QED  BY <1>1, <2>1, <3>1, LinesFrame DEF FileFollowsRows
  <2>5. QED  BY <2>1, <2>2, <2>3, <2>4 DEF CronInv
<1>4. QED  BY <1>1, <1>2, <1>3

\* The flag of job j is cleared while the only claimant of j is answered.
LEMMA RecordRunStep == ASSUME CronInv, RecordRun PROVE CronInv'
<1> TypeOK /\ RequestState /\ QueueState /\ ClaimHeld /\ OneRunAtATime /\ FileFollowsRows
  BY DEF CronInv
<1> DEFINE h == worker.by
<1>1. /\ UNCHANGED <<lastId, cronFile, disabled, sites, queue, stale, asked, crashes>>
      /\ worker.step = "execute" /\ request[h].op = "run" /\ Answer
  BY DEF RecordRun, Running
<1>2. /\ h \in Handler /\ At(h, "queued")
      /\ request' \in [Handler -> Request \cup {None}] /\ RequestState' /\ QueueState'
      /\ \A i \in Handler : i # h => request'[i] = request[i]
      /\ worker' = Idle /\ worker' \in Worker /\ worker'.step = "idle"
      /\ \A j \in Job : Claimants(j)' \subseteq Claimants(j) \ {h}
  BY <1>1, AnswerFacts
<1>3. PICK k \in Job : k = request[h].job
  <2>1. request[h].job \in 1..lastId  BY <1>1, <1>2 DEF RequestState, Consistent, At
  <2>2. QED  BY <2>1, CronAssumption DEF TypeOK, Job
<1>4. /\ \A j \in Job : j # k => rows'[j] = rows[j]
      /\ rows' \in [Job -> Row \cup {None}]
      /\ rows[k] = None => rows'[k] = None
      /\ rows[k] # None => /\ rows'[k] # None
                           /\ rows'[k].type = rows[k].type
                           /\ rows'[k].site = rows[k].site
                           /\ rows'[k].enabled = rows[k].enabled
  <2>1. CASE UNCHANGED rows  BY <2>1 DEF TypeOK
  <2>2. CASE rows[k] = None /\ rows' = [rows EXCEPT ![k] = None]
    BY <2>2 DEF TypeOK
  <2>3. CASE rows[k] # None /\ rows' = [rows EXCEPT ![k] = [rows[k] EXCEPT !.running = FALSE]]
    <3>1. rows[k] \in Row  BY <2>3 DEF TypeOK
    <3>2. /\ [rows[k] EXCEPT !.running = FALSE] \in Row
          /\ [rows[k] EXCEPT !.running = FALSE].type = rows[k].type
          /\ [rows[k] EXCEPT !.running = FALSE].site = rows[k].site
          /\ [rows[k] EXCEPT !.running = FALSE].enabled = rows[k].enabled
      BY <3>1 DEF Row
    <3>3. QED  BY <2>3, <3>2, NoneAssumption DEF TypeOK
  <2>4. QED  BY <1>3, <2>1, <2>2, <2>3 DEF RecordRun
<1>5. TypeOK'  BY <1>1, <1>2, <1>4 DEF TypeOK
<1>6. Claimants(k)' = {}
  <2>1. h \in Claimants(k)  BY <1>1, <1>2, <1>3 DEF Claimants, At
  <2>2. \A i \in Claimants(k) : i = h  BY <2>1 DEF OneRunAtATime
  <2>3. QED  BY <1>2, <2>2
<1>7. ClaimHeld' /\ OneRunAtATime'
  <2>1. \A j \in Job : Claimants(j)' \subseteq Claimants(j)  BY <1>2
  <2>2. \A j \in Job : Claimants(j)' # {} /\ rows'[j] # None =>
                           rows[j] # None /\ rows'[j].running = rows[j].running
    BY <1>4, <1>6
  <2>3. QED  BY <2>1, <2>2, ClaimFrame
<1>8. FileFollowsRows'
  <2>1. Lines' = Lines
    <3>1. \A j \in Job : /\ rows'[j] # None /\ rows'[j].enabled <=> rows[j] # None /\ rows[j].enabled
                         /\ rows[j] # None => rows'[j].type = rows[j].type
                                               /\ rows'[j].site = rows[j].site
      BY <1>4
    <3>2. QED  BY <3>1 DEF Lines
  <2>2. \A i \in Handler : RenderToCome(i) => RenderToCome(i)'
    BY <1>1, <1>2 DEF RenderToCome
  <2>3. QED  BY <1>1, <1>2, <2>1, <2>2 DEF FileFollowsRows
<1>9. QED  BY <1>2, <1>5, <1>7, <1>8 DEF CronInv

(* The steps that leave the file behind.                                   *)

LEMMA DeleteSiteStep ==
    ASSUME CronInv, NEW s \in Site, DeleteSite(s) PROVE CronInv'
<1> TypeOK /\ RequestState /\ QueueState /\ ClaimHeld /\ OneRunAtATime
  BY DEF CronInv
<1>1. /\ UNCHANGED <<lastId, cronFile, request, queue, worker, asked, crashes>>
      /\ worker = Idle /\ stale' = TRUE
      /\ sites' = sites \ {s} /\ disabled' = disabled \ {s}
  BY DEF DeleteSite
<1>2. /\ rows' \in [Job -> Row \cup {None}]
      /\ \A j \in Job : rows'[j] # None =>
             rows[j] # None /\ rows'[j].running = rows[j].running
  <2>1. CASE UNCHANGED rows  BY <2>1 DEF TypeOK
  <2>2. CASE rows' = [j \in Job |-> IF rows[j] # None /\ rows[j].site = s
                                    THEN [rows[j] EXCEPT !.site = None] ELSE rows[j]]
    <3>1. \A j \in Job : rows[j] # None =>
              /\ [rows[j] EXCEPT !.site = None] \in Row
              /\ [rows[j] EXCEPT !.site = None].running = rows[j].running
      BY DEF TypeOK, Row
    <3>2. QED  BY <2>2, <3>1 DEF TypeOK
  <2>3. QED  BY <2>1, <2>2 DEF DeleteSite
<1>3. TypeOK'  BY <1>1, <1>2 DEF TypeOK
<1>4. RequestState'  BY <1>1 DEF RequestState, Consistent
<1>5. QueueState'  BY <1>1 DEF QueueState, At
<1>6. \A j \in Job : Claimants(j)' \subseteq Claimants(j)  BY <1>1 DEF Claimants
<1>7. ClaimHeld' /\ OneRunAtATime'  BY <1>2, <1>6, ClaimFrame
<1>8. FileFollowsRows'  BY <1>1 DEF FileFollowsRows, Idle
<1>9. QED  BY <1>3, <1>4, <1>5, <1>7, <1>8 DEF CronInv

LEMMA CrashStep == ASSUME CronInv, Crash PROVE CronInv'
<1> TypeOK /\ ClaimHeld /\ OneRunAtATime  BY DEF CronInv
<1>1. /\ UNCHANGED <<rows, lastId, cronFile, disabled, sites, asked>>
      /\ request' = [h \in Handler |-> None] /\ queue' = <<>> /\ worker' = Idle
      /\ stale' = TRUE /\ crashes < MaxCrashes /\ crashes' = crashes + 1
  BY DEF Crash
<1>2. worker' \in Worker /\ worker'.step = "idle" /\ worker'.by = None
  BY <1>1 DEF Idle, Worker
<1>3. TypeOK'
  <2>1. crashes' \in 0..MaxCrashes  BY <1>1, CronAssumption DEF TypeOK
  <2>2. request' \in [Handler -> Request \cup {None}] /\ queue' \in Seq(Handler)
    BY <1>1
  <2>3. QED  BY <1>1, <1>2, <2>1, <2>2 DEF TypeOK
<1>4. RequestState'  BY <1>1 DEF RequestState
<1>5. QueueState'  BY <1>1, <1>2 DEF QueueState
<1>6. \A j \in Job : Claimants(j)' \subseteq Claimants(j)  BY <1>1 DEF Claimants
<1>7. ClaimHeld' /\ OneRunAtATime'  BY <1>1, <1>6, ClaimFrame
<1>8. FileFollowsRows'  BY <1>1, <1>2 DEF FileFollowsRows
<1>9. QED  BY <1>3, <1>4, <1>5, <1>7, <1>8 DEF CronInv

LEMMA AskStep == ASSUME CronInv, NEW h \in Handler, Ask(h) PROVE CronInv'
<1> TypeOK  BY DEF CronInv
<1>0. 1..lastId \subseteq 0..MaxJobs /\ 0 \in 0..MaxJobs  BY CronAssumption DEF TypeOK
<1>1. CASE \E s \in Schedule : Create(h, s)
  BY <1>0, <1>1, AdmitStep DEF Create, Op
<1>2. CASE \E j \in 1..lastId, s \in Schedule, e \in BOOLEAN \cup {None} : Update(h, j, s, e)
  BY <1>0, <1>2, AdmitStep DEF Update, Op
<1>3. CASE \E j \in 1..lastId : Delete(h, j)
  BY <1>0, <1>3, AdmitStep DEF Delete, Op
<1>4. CASE \E j \in 1..lastId : Run(h, j)
  BY <1>0, <1>4, AdmitStep DEF Run, Op
<1>5. QED  BY <1>1, <1>2, <1>3, <1>4 DEF Ask

LEMMA StutterStep == ASSUME CronInv, UNCHANGED vars PROVE CronInv'
<1> TypeOK /\ RequestState /\ QueueState /\ ClaimHeld /\ OneRunAtATime /\ FileFollowsRows
  BY DEF CronInv
<1> USE DEF vars
<1>1. TypeOK'  BY DEF TypeOK
<1>2. RequestState'  BY DEF RequestState, Consistent
<1>3. QueueState'  BY DEF QueueState, At
<1>4. ClaimHeld' /\ OneRunAtATime'  BY ClaimFrame DEF Claimants
<1>5. FileFollowsRows'  BY FileFrame, LinesFrame DEF RenderToCome
<1>6. QED  BY <1>1, <1>2, <1>3, <1>4, <1>5 DEF CronInv

(* The theorems.                                                           *)

\* CronInv holds in every state the panel reaches, for any number of handlers,
\* sites, jobs, requests and crashes.
THEOREM CronInvariant == Spec => []CronInv
<1>1. CronInv /\ [Next]_vars => CronInv'
  <2> SUFFICES ASSUME CronInv, [Next]_vars PROVE CronInv'  OBVIOUS
  <2>1. CASE \E h \in Handler : Ask(h)  BY <2>1, AskStep
  <2>2. CASE \E h \in Handler : Handle(h)
    BY <2>2, ReadOldStep, InsertRowStep, UpdateRowStep, DeleteRowStep, ConfigSteps,
       ClaimStep, EnqueueStep DEF Handle
  <2>3. CASE Work
    BY <2>3, TakeStep, ReadRowsStep, WriteFileStep, ReadJobStep, RecordRunStep DEF Work
  <2>4. CASE \E s \in Site : DeleteSite(s)  BY <2>4, DeleteSiteStep
  <2>5. CASE Crash  BY <2>5, CrashStep
  <2>6. CASE UNCHANGED vars  BY <2>6, StutterStep
  <2>7. QED  BY <2>1, <2>2, <2>3, <2>4, <2>5, <2>6 DEF Next
<1>2. QED  BY <1>1, InitInv, PTL DEF Spec

\* The rows, the requests, the queue and the worker keep their types.
THEOREM CronTypeCorrect == Spec => []TypeOK
<1>1. CronInv => TypeOK  BY DEF CronInv
<1>2. QED  BY <1>1, CronInvariant, PTL

\* executeRunCron never has a job's execution requested twice at once: the claim
\* of cron.go, the only writer of running = 1, suffices.
THEOREM RunsAreExclusive == Spec => []OneRunAtATime
<1>1. CronInv => OneRunAtATime  BY DEF CronInv
<1>2. QED  BY <1>1, CronInvariant, PTL

\* Rendering from a fresh query after each change is enough for /etc/cron.d to
\* end up with the enabled rows, however the changes interleave with it.
THEOREM FileIsCurrent == Spec => []FileFollowsRows
<1>1. CronInv => FileFollowsRows  BY DEF CronInv
<1>2. QED  BY <1>1, CronInvariant, PTL

=============================================================================
