-------------------------- MODULE SiteCredentials --------------------------
(* The password of the database of one WordPress site, which stands in its  *)
(* wp-config.php and in MariaDB: the task that changes it                   *)
(* (executor/mariadb.go), the reinstallation, which makes both anew in its  *)
(* handler beside the worker (executor/website_tasks.go), and the handlers  *)
(* that rewrite wp-config.php for another line of it.  A password is the    *)
(* number of the request that made it.                                      *)
EXTENDS Naturals

CONSTANTS
  Rewriters,       \* handlers that read wp-config.php and write it back
  Reinstallers,    \* handlers of ReinstallWordPress
  MaxRequests,     \* bound: requests
  MaxFaults        \* bound: commands and writes that fail, restarts

ASSUME CredAssumption ==
  /\ "worker" \notin Rewriters \cup Reinstallers /\ Rewriters \cap Reinstallers = {}
  /\ MaxRequests \in Nat /\ MaxFaults \in Nat

VARIABLES
  configFile,      \* the password in wp-config.php; 0: no file, or none in it
  accepted,        \* the password MariaDB accepts; 0: no such user
  change,          \* the task of the worker: step, the two passwords
  copy,            \* what a rewriter has read; 0: it is idle
  reinstall,       \* the reinstallations: step, password
  crossed,         \* history: operations during which another changed the password
  tainted,         \* history: an operation ended crossed, or was cut off
  credCount        \* bounds: requests, faults

varsCred == <<configFile, accepted, change, copy, reinstall, crossed, tainted, credCount>>

Unchanging == [step |-> "none", old |-> 0, new |-> 0]
Unbegun == [step |-> "none", new |-> 0]

InitCred ==
  /\ configFile = 1 /\ accepted = 1
  /\ change = Unchanging
  /\ copy = [h \in Rewriters |-> 0]
  /\ reinstall = [h \in Reinstallers |-> Unbegun]
  /\ crossed = {} /\ tainted = FALSE
  /\ credCount = [requests |-> 1, faults |-> 0]

Busy ==
  {h \in Rewriters : copy[h] # 0} \cup {h \in Reinstallers : reinstall[h].step # "none"}
    \cup (IF change.step = "none" THEN {} ELSE {"worker"})

\* A step of a changes what the operations in flight have read or written.
Crossed(a) ==
  {b \in Busy \ {a} : \/ configFile' # configFile
                      \/ b \notin Rewriters /\ accepted' # accepted}

Goes(a) == crossed' = crossed \cup Crossed(a) /\ UNCHANGED tainted
Completes(a, cause) ==
  /\ crossed' = (crossed \cup Crossed(a)) \ {a}
  /\ tainted' = (tainted \/ cause \/ a \in crossed)
\* Both stores have the password of a, unless another came between.
Settles(a) ==
  /\ crossed' = (crossed \cup Crossed(a)) \ {a}
  /\ tainted' = (a \in crossed)

Request ==
  /\ credCount.requests < MaxRequests
  /\ credCount' = [credCount EXCEPT !.requests = @ + 1]
Fault ==
  /\ credCount.faults < MaxFaults
  /\ credCount' = [credCount EXCEPT !.faults = @ + 1]

(* The task of the worker. *)

\* A file without the line, or an unreadable one, ends the task here.
ReadForChange ==
  /\ change.step = "none" /\ configFile # 0 /\ Request
  /\ change' = [step |-> "read", old |-> configFile, new |-> credCount'.requests]
  /\ UNCHANGED <<configFile, accepted, copy, reinstall, crossed, tainted>>

WriteNew ==
  /\ change.step = "read"
  /\ configFile' = change.new
  /\ change' = [change EXCEPT !.step = "written"]
  /\ UNCHANGED <<accepted, copy, reinstall, credCount>>
  /\ Goes("worker")

\* os.WriteFile cannot open the file, or has emptied it.
WriteNewFails ==
  /\ change.step = "read" /\ Fault
  /\ configFile' \in {configFile, 0}
  /\ change' = Unchanging
  /\ UNCHANGED <<accepted, copy, reinstall>>
  /\ Completes("worker", FALSE)

Alter ==
  /\ change.step = "written" /\ accepted # 0
  /\ accepted' = change.new
  /\ change' = [change EXCEPT !.step = "altered"]
  /\ UNCHANGED <<configFile, copy, reinstall, credCount>>
  /\ Goes("worker")

\* Mutant: the task ends without writing the old content back.
AlterFailsForGood ==
  /\ change.step = "written"
  /\ Fault \/ (accepted = 0 /\ UNCHANGED credCount)
  /\ change' = Unchanging
  /\ UNCHANGED <<configFile, accepted, copy, reinstall>>
  /\ Completes("worker", FALSE)

AlterFails ==
  /\ change.step = "written"
  /\ Fault \/ (accepted = 0 /\ UNCHANGED credCount)
  /\ change' = [change EXCEPT !.step = "undo"]
  /\ UNCHANGED <<configFile, accepted, copy, reinstall, crossed, tainted>>

Flush ==
  /\ change.step = "altered"
  /\ change' = Unchanging
  /\ UNCHANGED <<configFile, accepted, copy, reinstall, credCount>>
  /\ Settles("worker")

\* The old content is written back although MariaDB has the new password.
FlushFails ==
  /\ change.step = "altered" /\ Fault
  /\ change' = [change EXCEPT !.step = "undo"]
  /\ tainted' = TRUE
  /\ UNCHANGED <<configFile, accepted, copy, reinstall, crossed>>

WriteOld ==
  /\ change.step = "undo"
  /\ configFile' = change.old
  /\ change' = Unchanging
  /\ UNCHANGED <<accepted, copy, reinstall, credCount>>
  /\ Completes("worker", FALSE)

\* The error of this write is ignored.
WriteOldFails ==
  /\ change.step = "undo" /\ Fault
  /\ configFile' \in {configFile, 0}
  /\ change' = Unchanging
  /\ UNCHANGED <<accepted, copy, reinstall>>
  /\ Completes("worker", TRUE)

(* Handlers that rewrite the file for DISABLE_WP_CRON, for the names of the *)
(* database or for the optimisations: the password in it goes along.        *)

ReadConfig(h) ==
  /\ copy[h] = 0 /\ configFile # 0 /\ Request
  /\ copy' = [copy EXCEPT ![h] = configFile]
  /\ UNCHANGED <<configFile, accepted, change, reinstall, crossed, tainted>>

WriteBack(h) ==
  /\ copy[h] # 0
  /\ configFile' = copy[h]
  /\ copy' = [copy EXCEPT ![h] = 0]
  /\ UNCHANGED <<accepted, change, reinstall, credCount>>
  /\ Completes(h, FALSE)

\* The write cannot open the file, or has emptied it; nothing restores it.
WriteBackFails(h) ==
  /\ copy[h] # 0 /\ Fault
  /\ configFile' \in {configFile, 0}
  /\ copy' = [copy EXCEPT ![h] = 0]
  /\ UNCHANGED <<accepted, change, reinstall>>
  /\ Completes(h, FALSE)

(* ReinstallWordPress. *)

Reinstalls(h, s) == reinstall[h].step = s
Proceeds(h, s) == reinstall' = [reinstall EXCEPT ![h].step = s]
Returns(h) == reinstall' = [reinstall EXCEPT ![h] = Unbegun]

\* The web directory is removed and made anew.
EmptyWebRoot(h) ==
  /\ Reinstalls(h, "none") /\ Request
  /\ configFile' = 0
  /\ reinstall' = [reinstall EXCEPT ![h] = [step |-> "deploying",
                                           new |-> credCount'.requests]]
  /\ UNCHANGED <<accepted, change, copy>>
  /\ Goes(h)

\* deployWordPress, then the old database and its user; an error of the drop
\* is only printed.
DropOld(h) ==
  /\ Reinstalls(h, "deploying")
  /\ \/ accepted' = 0 /\ UNCHANGED credCount
     \/ accepted' = accepted /\ Fault
  /\ Proceeds(h, "dropped")
  /\ UNCHANGED <<configFile, change, copy>>
  /\ Goes(h)

CreateNew(h) ==
  /\ Reinstalls(h, "dropped")
  /\ accepted' = reinstall[h].new
  /\ Proceeds(h, "created")
  /\ UNCHANGED <<configFile, change, copy, credCount>>
  /\ Goes(h)

\* A statement of createMariaDBDatabase fails: before the user is dropped,
\* after it was, or after the new one is there.
CreateNewFails(h) ==
  /\ Reinstalls(h, "dropped") /\ Fault
  /\ accepted' \in {accepted, 0, reinstall[h].new}
  /\ Returns(h)
  /\ UNCHANGED <<configFile, change, copy>>
  /\ Completes(h, FALSE)

GenerateConfig(h) ==
  /\ Reinstalls(h, "created")
  /\ configFile' = reinstall[h].new
  /\ Returns(h)
  /\ UNCHANGED <<accepted, change, copy, credCount>>
  /\ Settles(h)

\* The package cannot be deployed, or the file not written.
ReinstallFails(h) ==
  /\ Reinstalls(h, "deploying") \/ Reinstalls(h, "created")
  /\ Fault
  /\ configFile' \in {configFile, 0}
  /\ Returns(h)
  /\ UNCHANGED <<accepted, change, copy>>
  /\ Completes(h, FALSE)

\* The panel restarts: the operations in flight are forgotten where they are.
CutOff ==
  /\ Fault /\ Busy # {}
  /\ change' = Unchanging
  /\ copy' = [h \in Rewriters |-> 0]
  /\ reinstall' = [h \in Reinstallers |-> Unbegun]
  /\ crossed' = {}
  /\ tainted' = (tainted \/ crossed # {} \/ change.step \in {"written", "undo"})
  /\ UNCHANGED <<configFile, accepted>>

NextCred ==
  \/ ReadForChange \/ WriteNew \/ WriteNewFails \/ Alter \/ AlterFails
  \/ Flush \/ FlushFails \/ WriteOld \/ WriteOldFails \/ CutOff
  \/ \E h \in Rewriters : ReadConfig(h) \/ WriteBack(h) \/ WriteBackFails(h)
  \/ \E h \in Reinstallers :
       \/ EmptyWebRoot(h) \/ DropOld(h) \/ CreateNew(h) \/ CreateNewFails(h)
       \/ GenerateConfig(h) \/ ReinstallFails(h)

SpecCred == InitCred /\ [][NextCred]_varsCred

----------------------------------------------------------------------------
\* Each variable has its type; what is crossed is in flight.
CredTypeOK ==
  /\ configFile \in Nat /\ accepted \in Nat
  /\ change \in [step : {"none", "read", "written", "altered", "undo"}, old : Nat, new : Nat]
  /\ copy \in [Rewriters -> Nat]
  /\ reinstall \in [Reinstallers -> [step : {"none", "deploying", "dropped", "created"},
                                     new : Nat]]
  /\ crossed \subseteq Busy /\ tainted \in BOOLEAN
  /\ credCount \in [requests : Nat, faults : 0..MaxFaults]

\* executeChangeDBPassword, ReinstallWordPress: when nothing is in flight, the
\* site has the password MariaDB accepts, whichever command or write failed,
\* unless another operation changed the password under one that then wrote,
\* the rollback failed too, MariaDB answered with an error after it had taken
\* the password, or the panel stopped between the two stores.  A later change
\* or reinstallation nobody crosses sets it right.
SiteLogsIn ==
  Busy = {} /\ ~tainted => configFile = 0 \/ configFile = accepted
=============================================================================
