----------------------------- MODULE ServiceGuard ----------------------------
(* One system service of the panel (nginx, PHP-FPM, MariaDB, Redis...): the  *)
(* guard that starts it again (executor/process_guard.go), the start, stop   *)
(* and restart buttons and the configuration page (handlers/software.go).    *)
(* The guard and the buttons share a mutex, but the guard asks systemd       *)
(* before it takes it; the configuration page takes none.                    *)
EXTENDS Integers

CONSTANTS
  Editors,       \* requests that save a configuration value
  MaxSvcEvents   \* bound on crashes of the service, clicks, edits and restarts

ASSUME ServiceGuardAssumption == MaxSvcEvents \in Nat

VARIABLES
  svcChecked,   \* the configuration has a syntax check (nginx, PHP-FPM)
  svcUp,        \* systemd has the service active
  svcConf,      \* the configuration file: "good", or "bad" and no start works
  svcRunning,   \* Running, Paused and firstRun of the guard
  svcPaused,
  svcFirst,
  svcSaved,     \* Paused in guard_paused.json
  svcProbe,     \* what the guard's is-active answered: "none", "up", "down"
  svcAdmin,     \* the button being served, which holds the mutex
  svcEdit,      \* per request: where it is and the content it read
  svcTorn,      \* two edits overlapped, or the panel ended within one
  svcStopped,   \* the last answer given to a button is a successful stop
  svcEvents     \* crashes, clicks, edits and restarts so far

varsSvc == <<svcChecked, svcUp, svcConf, svcRunning, svcPaused, svcFirst, svcSaved,
             svcProbe, svcAdmin, svcEdit, svcTorn, svcStopped, svcEvents>>
guardVars == <<svcRunning, svcPaused, svcFirst, svcSaved, svcProbe, svcAdmin, svcStopped>>
editVars == <<svcConf, svcEdit, svcTorn>>

NoEdit == [pc |-> "idle", data |-> "good"]

InitSvc ==
  /\ svcChecked \in BOOLEAN
  /\ svcUp = TRUE /\ svcConf = "good"
  /\ svcRunning = FALSE /\ svcPaused = FALSE /\ svcFirst = TRUE /\ svcSaved = FALSE
  /\ svcProbe = "none" /\ svcAdmin = "none"
  /\ svcEdit = [e \in Editors |-> NoEdit]
  /\ svcTorn = FALSE /\ svcStopped = FALSE /\ svcEvents = 0

SvcEvent == svcEvents < MaxSvcEvents /\ svcEvents' = svcEvents + 1

\* systemctl start: nothing to do for an active service, no success with a
\* configuration the daemon refuses.
Started == svcUp \/ svcConf = "good"
------------------------------------------------------------------------------
ServiceCrash ==
  /\ svcUp /\ SvcEvent
  /\ svcUp' = FALSE
  /\ UNCHANGED <<svcChecked, guardVars, editVars>>

\* checkAll, every thirty seconds: systemctl is-active, outside the mutex.
Probe ==
  /\ svcProbe = "none"
  /\ svcProbe' = IF svcUp THEN "up" ELSE "down"
  /\ UNCHANGED <<svcChecked, svcUp, svcRunning, svcPaused, svcFirst, svcSaved,
                 svcAdmin, svcStopped, editVars, svcEvents>>

\* Mutant: only a service seen running is started.
CheckSeenRunning ==
  /\ svcProbe # "none" /\ svcAdmin = "none"
  /\ svcRunning' = (svcProbe = "up")
  /\ svcUp' = IF svcProbe = "down" /\ ~svcPaused /\ svcRunning THEN Started ELSE svcUp
  /\ svcFirst' = FALSE /\ svcProbe' = "none"
  /\ UNCHANGED <<svcChecked, svcPaused, svcSaved, svcAdmin, svcStopped, editVars, svcEvents>>

\* The rest of check, under the mutex: what it does follows the earlier answer.
Check ==
  /\ svcProbe # "none" /\ svcAdmin = "none"
  /\ svcRunning' = (svcProbe = "up")
  /\ svcUp' = IF svcProbe = "down" /\ ~svcPaused /\ ~svcFirst THEN Started ELSE svcUp
  /\ svcFirst' = FALSE /\ svcProbe' = "none"
  /\ UNCHANGED <<svcChecked, svcPaused, svcSaved, svcAdmin, svcStopped, editVars, svcEvents>>

\* SetServiceState takes the mutex; a stop pauses the guard first.
Click(action) ==
  /\ svcAdmin = "none" /\ SvcEvent
  /\ svcAdmin' = action
  /\ svcPaused' = (svcPaused \/ action = "stop")
  /\ svcStopped' = FALSE
  /\ UNCHANGED <<svcChecked, svcUp, svcRunning, svcFirst, svcSaved, svcProbe, editVars>>

\* systemctl stop, or the first half of systemctl restart.
StopService ==
  /\ svcAdmin \in {"stop", "restart"}
  /\ svcUp' = FALSE
  /\ svcAdmin' = IF svcAdmin = "stop" THEN "stopped" ELSE "start"
  /\ UNCHANGED <<svcChecked, svcRunning, svcPaused, svcFirst, svcSaved, svcProbe,
                 svcStopped, editVars, svcEvents>>

\* systemctl stop fails, and the pause is taken back; nothing is saved.
StopFails ==
  /\ svcAdmin = "stop"
  /\ svcPaused' = FALSE /\ svcAdmin' = "none"
  /\ UNCHANGED <<svcChecked, svcUp, svcRunning, svcFirst, svcSaved, svcProbe,
                 svcStopped, editVars, svcEvents>>

\* systemctl start, or the second half of a restart.
StartService ==
  /\ svcAdmin = "start"
  /\ svcUp' = Started
  /\ svcAdmin' = IF Started THEN "started" ELSE "none"
  /\ UNCHANGED <<svcChecked, svcRunning, svcPaused, svcFirst, svcSaved, svcProbe,
                 svcStopped, editVars, svcEvents>>

\* Mutant: the pause is not written to guard_paused.json.
AnswerUnsaved ==
  /\ svcAdmin \in {"stopped", "started"}
  /\ svcPaused' = (svcAdmin = "stopped")
  /\ svcRunning' = (svcAdmin = "started" /\ svcUp)
  /\ svcStopped' = (svcAdmin = "stopped")
  /\ svcAdmin' = "none"
  /\ UNCHANGED <<svcChecked, svcUp, svcFirst, svcSaved, svcProbe, editVars, svcEvents>>

SavePaused == svcSaved' = svcPaused'

\* The rest of SetServiceState: savePaused, and the mutex is released.
AnswerClick ==
  /\ svcAdmin \in {"stopped", "started"}
  /\ svcPaused' = (svcAdmin = "stopped")
  /\ SavePaused
  /\ svcRunning' = (svcAdmin = "started" /\ svcUp)
  /\ svcStopped' = (svcAdmin = "stopped")
  /\ svcAdmin' = "none"
  /\ UNCHANGED <<svcChecked, svcUp, svcFirst, svcProbe, editVars, svcEvents>>
------------------------------------------------------------------------------
(* SaveConfig, one request per editor. *)

EditTo(e, pc, data) == svcEdit' = [svcEdit EXCEPT ![e] = [pc |-> pc, data |-> data]]

Editing == \E e \in Editors : svcEdit[e].pc # "idle"

ReadConf(e) ==
  /\ svcEdit[e].pc = "idle" /\ SvcEvent
  /\ EditTo(e, "write", svcConf)
  /\ svcTorn' = (svcTorn \/ Editing)
  /\ UNCHANGED <<svcChecked, svcUp, svcConf, guardVars>>

\* One value is replaced in the content read, which may spoil it or mend it.
WriteConf(e) ==
  /\ svcEdit[e].pc = "write"
  /\ svcConf' \in {"good", "bad"}
  /\ EditTo(e, IF svcChecked THEN "check" ELSE "restart", svcEdit[e].data)
  /\ UNCHANGED <<svcChecked, svcUp, svcTorn, guardVars, svcEvents>>

\* Mutant: a refused configuration is reported and left.
CheckConfOnly(e) ==
  /\ svcEdit[e].pc = "check"
  /\ UNCHANGED svcConf
  /\ EditTo(e, "idle", "good")
  /\ UNCHANGED <<svcChecked, svcUp, svcTorn, guardVars, svcEvents>>

\* nginx -t or php-fpm -t: the content read comes back when it fails, for an
\* error in this file or in another.  A reload leaves a service that is down.
CheckConf(e) ==
  /\ svcEdit[e].pc = "check"
  /\ \/ svcConf = "good" /\ UNCHANGED svcConf
     \/ svcConf' = svcEdit[e].data
  /\ EditTo(e, "idle", "good")
  /\ UNCHANGED <<svcChecked, svcUp, svcTorn, guardVars, svcEvents>>

\* systemctl restart of MariaDB and Redis, unchecked, paused or not.
RestartOnConf(e) ==
  /\ svcEdit[e].pc = "restart"
  /\ svcUp' = (svcConf = "good")
  /\ EditTo(e, "idle", "good")
  /\ UNCHANGED <<svcChecked, svcConf, svcTorn, guardVars, svcEvents>>

\* The panel ends and starts again: Paused is read back from the file.
PanelRestart ==
  /\ SvcEvent
  /\ svcRunning' = FALSE /\ svcPaused' = svcSaved /\ svcFirst' = TRUE
  /\ svcProbe' = "none" /\ svcAdmin' = "none"
  /\ svcEdit' = [e \in Editors |-> NoEdit]
  /\ svcTorn' = (svcTorn \/ Editing)
  /\ UNCHANGED <<svcChecked, svcUp, svcConf, svcSaved, svcStopped>>

Serving == StopService \/ StopFails \/ StartService \/ AnswerClick

NextSvc ==
  \/ ServiceCrash \/ Probe \/ Check \/ Serving \/ PanelRestart
  \/ \E action \in {"start", "stop", "restart"} : Click(action)
  \/ \E e \in Editors : ReadConf(e) \/ WriteConf(e) \/ CheckConf(e) \/ RestartOnConf(e)

\* The ticker of the guard keeps ticking and a request runs to its end.
FairSvc == WF_varsSvc(Probe) /\ WF_varsSvc(Check) /\ WF_varsSvc(Serving)

SpecSvc == InitSvc /\ [][NextSvc]_varsSvc /\ FairSvc
------------------------------------------------------------------------------
\* Each variable has its type.
SvcTypeOK ==
  /\ {svcChecked, svcUp, svcRunning, svcPaused, svcFirst, svcSaved, svcTorn,
      svcStopped} \subseteq BOOLEAN
  /\ svcConf \in {"good", "bad"} /\ svcProbe \in {"none", "up", "down"}
  /\ svcAdmin \in {"none", "start", "stop", "restart", "started", "stopped"}
  /\ svcEdit \in [Editors -> [pc : {"idle", "write", "check", "restart"},
                              data : {"good", "bad"}]]
  /\ svcEvents \in 0..MaxSvcEvents

\* check, savePaused, loadPaused: a service whose stop was answered with success
\* is never started by the guard, not even by one that asked systemd before the
\* stop, nor after the panel was restarted.
GuardKeepsStop ==
  [][Check => ~(svcStopped /\ ~svcUp /\ svcUp')]_varsSvc

\* The same as a state: an answered stop is what the guard and its file know.
StopIsKnown == svcStopped => svcPaused /\ svcSaved

\* checkAll: a service does not stay down, whoever brought it down, unless it is
\* stopped by a button or its configuration keeps it from starting.
GuardRestores ==
  []<>(svcUp \/ svcPaused \/ svcConf = "bad")

\* SaveConfig: a value the syntax check refuses does not stay in the file, when
\* no two requests overlapped and the panel did not end within one.
RefusedConfUndone ==
  svcChecked /\ ~svcTorn /\ ~Editing => svcConf = "good"
==============================================================================
