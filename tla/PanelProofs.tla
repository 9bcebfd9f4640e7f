----------------------------- MODULE PanelProofs -----------------------------
(* Proofs about the components of the panel that share no state with the     *)
(* sites: the guard of a service (any number of requests and events), the    *)
(* alert monitor (any threshold, interval and size of alert_log), the users  *)
(* who may enter the panel, the uploads in chunks and the database password  *)
(* of a site (any number of requests, failures and restarts).  In the end    *)
(* the composition of MCPanel: it lets each component behave as it does      *)
(* alone, so it keeps the types and every promise of all of them.            *)
EXTENDS MCPanel, BanProofs, BackupProofs, CertProofs, UpgradeProofs, TLAPS

------------------------------------------------------------------------------
(* THE GUARD OF A SERVICE.                                                   *)

EditCall == [pc : {"idle", "write", "check", "restart"}, data : {"good", "bad"}]

(* An answered stop.                                                         *)

\* While a button is served nothing is answered; otherwise a stop that was
\* answered is what the guard and its file know.
StopInv ==
  /\ StopIsKnown
  /\ svcAdmin # "none" => ~svcStopped

\* Both conjuncts are lost by no step.
LEMMA StopStep == ASSUME StopInv, [NextSvc]_varsSvc PROVE StopInv'
<1> USE DEF StopInv, StopIsKnown
<1>1. CASE UNCHANGED varsSvc  BY <1>1 DEF varsSvc
<1>2. CASE ServiceCrash  BY <1>2 DEF ServiceCrash, guardVars
<1>3. CASE Probe  BY <1>3 DEF Probe
<1>4. CASE Check  BY <1>4 DEF Check
<1>5. CASE StopService  BY <1>5 DEF StopService
<1>6. CASE StopFails  BY <1>6 DEF StopFails
<1>7. CASE StartService  BY <1>7 DEF StartService
<1>8. CASE AnswerClick
  <2>1. svcStopped' = (svcAdmin = "stopped") /\ svcPaused' = (svcAdmin = "stopped")
        /\ svcSaved' = svcPaused' /\ svcAdmin' = "none"
    BY <1>8 DEF AnswerClick, SavePaused
  <2>2. QED  BY <2>1
<1>9. CASE PanelRestart  BY <1>9 DEF PanelRestart
<1>10. ASSUME NEW action \in {"start", "stop", "restart"}, Click(action) PROVE StopInv'
  BY <1>10 DEF Click
<1>11. ASSUME NEW e \in Editors, ReadConf(e) \/ WriteConf(e) \/ CheckConf(e) \/ RestartOnConf(e)
       PROVE  StopInv'
  BY <1>11 DEF ReadConf, WriteConf, CheckConf, RestartOnConf, guardVars
<1>12. QED
  BY <1>1, <1>2, <1>3, <1>4, <1>5, <1>6, <1>7, <1>8, <1>9, <1>10, <1>11
  DEF NextSvc, Serving

\* check, savePaused, loadPaused: an answered stop is known to the guard and
\* to the file it reads after a restart of the panel.
THEOREM StopKnown == SpecSvc => []StopInv
<1>1. InitSvc => StopInv  BY DEF InitSvc, StopInv, StopIsKnown
<1>2. StopInv /\ [NextSvc]_varsSvc => StopInv'  BY StopStep
<1>3. QED  BY <1>1, <1>2, PTL DEF SpecSvc

\* The guard leaves a stopped service down.
LEMMA StopIsKept == ASSUME StopInv, Check PROVE ~(svcStopped /\ ~svcUp /\ svcUp')
<1>1. CASE svcStopped
  <2>1. svcPaused  BY <1>1 DEF StopInv, StopIsKnown
  <2>2. svcUp' = svcUp  BY <2>1 DEF Check
  <2>3. QED  BY <2>2
<1>2. QED  BY <1>1

\* check, under the mutex: the guard starts no service whose stop was answered
\* with success, though it asked systemd before the stop.
THEOREM StopKept == SpecSvc => GuardKeepsStop
<1>1. StopInv => [Check => ~(svcStopped /\ ~svcUp /\ svcUp')]_varsSvc  BY StopIsKept
<1>2. QED  BY <1>1, StopKnown, PTL DEF GuardKeepsStop

(* A configuration that does not pass.                                       *)

\* While no edits overlapped: at most one is under way, it read a configuration
\* that passes, and the file has one that does not only until it is tested.
EditInv ==
  svcChecked /\ ~svcTorn =>
    /\ \A e \in Editors : svcEdit[e].pc \in {"idle", "write", "check"}
    /\ \A e \in Editors : svcEdit[e].data = "good"
    /\ \A e, f \in Editors : svcEdit[e].pc # "idle" /\ svcEdit[f].pc # "idle" => e = f
    /\ svcConf # "good" => \E e \in Editors : svcEdit[e].pc = "check"

EditTyping == svcConf \in {"good", "bad"} /\ svcEdit \in [Editors -> EditCall]

SvcEditInv == EditTyping /\ EditInv

LEMMA EditTyped ==
  ASSUME svcEdit \in [Editors -> EditCall], NEW e \in Editors,
         NEW pc \in {"idle", "write", "check", "restart"}, NEW data \in {"good", "bad"},
         EditTo(e, pc, data)
  PROVE  /\ svcEdit' \in [Editors -> EditCall]
         /\ svcEdit'[e].pc = pc /\ svcEdit'[e].data = data
         /\ \A f \in Editors : f # e => svcEdit'[f] = svcEdit[f]
BY DEF EditTo, EditCall

\* A step of one edit keeps the first three parts, if it keeps its own.
LEMMA EditFrame ==
    ASSUME SvcEditInv, NEW e \in Editors, svcChecked, ~svcTorn,
           NEW pc \in {"idle", "write", "check"}, EditTo(e, pc, "good"),
           pc # "idle" => \A f \in Editors : f # e => svcEdit[f].pc = "idle"
    PROVE  /\ \A f \in Editors : svcEdit'[f].pc \in {"idle", "write", "check"}
           /\ \A f \in Editors : svcEdit'[f].data = "good"
           /\ \A f, g \in Editors : svcEdit'[f].pc # "idle" /\ svcEdit'[g].pc # "idle" => f = g
<1>1. /\ svcEdit'[e].pc = pc /\ svcEdit'[e].data = "good"
      /\ \A f \in Editors : f # e => svcEdit'[f] = svcEdit[f]
  BY EditTyped DEF SvcEditInv, EditTyping
<1>2. /\ \A f \in Editors : svcEdit[f].pc \in {"idle", "write", "check"}
      /\ \A f \in Editors : svcEdit[f].data = "good"
      /\ \A f, g \in Editors : svcEdit[f].pc # "idle" /\ svcEdit[g].pc # "idle" => f = g
  BY DEF SvcEditInv, EditInv
<1>3. QED  BY <1>1, <1>2

LEMMA ReadConfStep == ASSUME SvcEditInv, NEW e \in Editors, ReadConf(e) PROVE SvcEditInv'
<1>1. svcConf \in {"good", "bad"} /\ svcEdit \in [Editors -> EditCall]
  BY DEF SvcEditInv, EditTyping
<1>2. EditTo(e, "write", svcConf) /\ svcConf' = svcConf /\ svcChecked' = svcChecked
      /\ svcTorn' = (svcTorn \/ Editing)
  BY DEF ReadConf, guardVars
<1>3. EditTyping'  BY <1>1, <1>2, EditTyped DEF EditTyping
<1>4. ASSUME svcChecked', ~svcTorn' PROVE EditInv'
  <2>1. svcChecked /\ ~svcTorn /\ \A f \in Editors : svcEdit[f].pc = "idle"
    BY <1>2, <1>4 DEF Editing
  <2>2. svcConf = "good"  BY <2>1 DEF SvcEditInv, EditInv
  <2>3. EditTo(e, "write", "good")  BY <1>2, <2>2
  <2>4. QED  BY <1>2, <2>1, <2>2, <2>3, EditFrame DEF EditInv
<1>5. QED  BY <1>3, <1>4 DEF SvcEditInv, EditInv

LEMMA WriteConfStep == ASSUME SvcEditInv, NEW e \in Editors, WriteConf(e) PROVE SvcEditInv'
<1>1. svcConf \in {"good", "bad"} /\ svcEdit \in [Editors -> EditCall]
  BY DEF SvcEditInv, EditTyping
<1>2. /\ EditTo(e, IF svcChecked THEN "check" ELSE "restart", svcEdit[e].data)
      /\ svcConf' \in {"good", "bad"}
      /\ svcEdit[e].pc = "write" /\ svcChecked' = svcChecked /\ svcTorn' = svcTorn
  BY DEF WriteConf
<1>3. svcEdit[e].data \in {"good", "bad"}  BY <1>1 DEF EditCall
<1>4. EditTyping'
  <2> DEFINE pc == IF svcChecked THEN "check" ELSE "restart"
  <2>1. pc \in {"idle", "write", "check", "restart"}  OBVIOUS
  <2>2. EditTo(e, pc, svcEdit[e].data)  BY <1>2
  <2> HIDE DEF pc
  <2>3. QED  BY <1>1, <1>2, <1>3, <2>1, <2>2, EditTyped DEF EditTyping
<1>5. ASSUME svcChecked', ~svcTorn' PROVE EditInv'
  <2>1. /\ svcChecked /\ ~svcTorn
        /\ svcEdit[e].data = "good"
        /\ \A f \in Editors : f # e => svcEdit[f].pc = "idle"
    <3>1. svcChecked /\ ~svcTorn  BY <1>2, <1>5
    <3>2. QED
      BY <1>2, <3>1 DEF SvcEditInv, EditInv
  <2>2. EditTo(e, "check", "good")  BY <1>2, <2>1
  <2>3. svcEdit'[e].pc = "check"  BY <1>1, <2>2, EditTyped
  <2>4. QED  BY <2>1, <2>2, <2>3, EditFrame DEF EditInv
<1>6. QED  BY <1>4, <1>5 DEF SvcEditInv, EditInv

LEMMA CheckConfStep == ASSUME SvcEditInv, NEW e \in Editors, CheckConf(e) PROVE SvcEditInv'
<1>1. svcConf \in {"good", "bad"} /\ svcEdit \in [Editors -> EditCall]
  BY DEF SvcEditInv, EditTyping
<1>2. /\ EditTo(e, "idle", "good")
      /\ (svcConf = "good" /\ svcConf' = svcConf) \/ svcConf' = svcEdit[e].data
      /\ svcChecked' = svcChecked /\ svcTorn' = svcTorn
  BY DEF CheckConf
<1>3. svcEdit[e].data \in {"good", "bad"}  BY <1>1 DEF EditCall
<1>4. EditTyping'  BY <1>1, <1>2, <1>3, EditTyped DEF EditTyping
<1>5. ASSUME svcChecked', ~svcTorn' PROVE EditInv'
  <2>1. svcChecked /\ ~svcTorn  BY <1>2, <1>5
  <2>2. svcEdit[e].data = "good"  BY <2>1 DEF SvcEditInv, EditInv
  <2>3. svcConf' = "good"  BY <1>2, <2>2
  <2>4. QED  BY <1>2, <2>1, <2>3, EditFrame DEF EditInv
<1>6. QED  BY <1>4, <1>5 DEF SvcEditInv, EditInv

LEMMA RestartOnConfStep ==
    ASSUME SvcEditInv, NEW e \in Editors, RestartOnConf(e) PROVE SvcEditInv'
<1>1. /\ EditTo(e, "idle", "good") /\ svcEdit[e].pc = "restart"
      /\ svcChecked' = svcChecked /\ svcTorn' = svcTorn /\ svcConf' = svcConf
  BY DEF RestartOnConf
<1>2. EditTyping'  BY <1>1, EditTyped DEF SvcEditInv, EditTyping
<1>3. svcChecked => svcTorn  BY <1>1 DEF SvcEditInv, EditInv
<1>4. QED  BY <1>1, <1>2, <1>3 DEF SvcEditInv, EditInv

\* The edits that a restart of the panel cuts off count as torn.
LEMMA PanelRestartStep == ASSUME SvcEditInv, PanelRestart PROVE SvcEditInv'
<1>1. /\ svcEdit' = [e \in Editors |-> NoEdit] /\ svcTorn' = (svcTorn \/ Editing)
      /\ svcChecked' = svcChecked /\ svcConf' = svcConf
  BY DEF PanelRestart
<1>2. EditTyping'  BY <1>1 DEF SvcEditInv, EditTyping, NoEdit, EditCall
<1>3. ASSUME svcChecked', ~svcTorn' PROVE EditInv'
  <2>1. svcChecked /\ ~svcTorn /\ ~Editing  BY <1>1, <1>3
  <2>2. svcConf = "good"  BY <2>1 DEF SvcEditInv, EditInv, Editing
  <2>3. QED  BY <1>1, <2>2 DEF EditInv, NoEdit
<1>4. QED  BY <1>2, <1>3 DEF SvcEditInv, EditInv

LEMMA SvcEditStep == ASSUME SvcEditInv, [NextSvc]_varsSvc PROVE SvcEditInv'
<1>1. ASSUME UNCHANGED <<svcChecked, editVars>> PROVE SvcEditInv'
  BY <1>1 DEF editVars, SvcEditInv, EditTyping, EditInv
<1>2. CASE UNCHANGED varsSvc  BY <1>1, <1>2 DEF varsSvc, editVars
<1>3. CASE ServiceCrash \/ Probe \/ Check \/ Serving
  BY <1>1, <1>3
  DEF ServiceCrash, Probe, Check, Serving, StopService, StopFails, StartService, AnswerClick
<1>4. ASSUME NEW action \in {"start", "stop", "restart"}, Click(action) PROVE SvcEditInv'
  BY <1>1, <1>4 DEF Click
<1>5. QED
  BY <1>2, <1>3, <1>4, ReadConfStep, WriteConfStep, CheckConfStep, RestartOnConfStep,
     PanelRestartStep
  DEF NextSvc

\* SaveConfig: whatever the number of requests, restarts of the panel and clicks,
\* a value nginx -t or php-fpm -t refuses does not stay in the file when no two
\* requests overlapped and none was cut off.
THEOREM RefusedUndone == SpecSvc => []RefusedConfUndone
<1>1. InitSvc => SvcEditInv
  <2> SUFFICES ASSUME InitSvc PROVE SvcEditInv  OBVIOUS
  <2>1. svcConf = "good" /\ svcEdit = [e \in Editors |-> NoEdit]  BY DEF InitSvc
  <2>2. QED  BY <2>1 DEF SvcEditInv, EditTyping, EditInv, NoEdit, EditCall
<1>2. SvcEditInv /\ [NextSvc]_varsSvc => SvcEditInv'  BY SvcEditStep
<1>3. SvcEditInv => RefusedConfUndone
  BY DEF SvcEditInv, EditInv, RefusedConfUndone, Editing
<1>4. QED  BY <1>1, <1>2, <1>3, PTL DEF SpecSvc

(* Types. *)

\* The variables of the guard, the edits and the events.
SvcRest ==
  /\ svcChecked \in BOOLEAN /\ svcUp \in BOOLEAN /\ svcRunning \in BOOLEAN
  /\ svcPaused \in BOOLEAN /\ svcFirst \in BOOLEAN /\ svcSaved \in BOOLEAN
  /\ svcTorn \in BOOLEAN /\ svcStopped \in BOOLEAN
  /\ svcProbe \in {"none", "up", "down"}
  /\ svcAdmin \in {"none", "start", "stop", "restart", "started", "stopped"}
  /\ svcEvents \in 0..MaxSvcEvents

LEMMA SvcCounted == ASSUME SvcRest, SvcEvent PROVE svcEvents' \in 0..MaxSvcEvents
BY ServiceGuardAssumption DEF SvcRest, SvcEvent

LEMMA SvcRestStep == ASSUME SvcRest, [NextSvc]_varsSvc PROVE SvcRest'
<1> USE DEF SvcRest
<1>1. CASE UNCHANGED varsSvc  BY <1>1 DEF varsSvc
<1>2. CASE ServiceCrash  BY <1>2, SvcCounted DEF ServiceCrash, guardVars, editVars
<1>3. CASE Probe  BY <1>3 DEF Probe, editVars
<1>4. CASE Check
  <2>1. (svcUp' \in BOOLEAN) /\ (svcRunning' \in BOOLEAN)
    <3>1. Started \in BOOLEAN  BY DEF Started
    <3>2. svcUp' \in {Started, svcUp} /\ svcRunning' = (svcProbe = "up")
      BY <1>4 DEF Check
    <3>3. QED  BY <3>1, <3>2
  <2>2. QED  BY <1>4, <2>1 DEF Check, editVars
<1>5. CASE StopService \/ StopFails
  BY <1>5 DEF StopService, StopFails, editVars
<1>6. CASE StartService
  <2>1. svcUp' = Started /\ Started \in BOOLEAN  BY <1>6 DEF StartService, Started
  <2>2. svcAdmin' \in {"started", "none"}  BY <1>6 DEF StartService
  <2>3. QED  BY <1>6, <2>1, <2>2 DEF StartService, editVars
<1>7. CASE AnswerClick
  <2>1. /\ svcPaused' = (svcAdmin = "stopped") /\ svcSaved' = svcPaused'
        /\ svcRunning' = (svcAdmin = "started" /\ svcUp)
        /\ svcStopped' = (svcAdmin = "stopped") /\ svcAdmin' = "none"
    BY <1>7 DEF AnswerClick, SavePaused
  <2>2. svcPaused' \in BOOLEAN /\ svcRunning' \in BOOLEAN /\ svcStopped' \in BOOLEAN
    BY <2>1
  <2>3. QED  BY <1>7, <2>1, <2>2 DEF AnswerClick, editVars
<1>8. ASSUME NEW action \in {"start", "stop", "restart"}, Click(action) PROVE SvcRest'
  <2>1. svcPaused' = (svcPaused \/ action = "stop")  BY <1>8 DEF Click
  <2>2. svcPaused' \in BOOLEAN  BY <2>1
  <2>3. QED  BY <1>8, <2>2, SvcCounted DEF Click, editVars
<1>9. CASE PanelRestart
  <2>1. svcTorn' = (svcTorn \/ Editing)  BY <1>9 DEF PanelRestart
  <2>2. svcTorn' \in BOOLEAN  BY <2>1
  <2>3. QED  BY <1>9, <2>2, SvcCounted DEF PanelRestart
<1>10. ASSUME NEW e \in Editors, ReadConf(e) PROVE SvcRest'
  <2>1. svcTorn' = (svcTorn \/ Editing)  BY <1>10 DEF ReadConf
  <2>2. svcTorn' \in BOOLEAN  BY <2>1
  <2>3. QED  BY <1>10, <2>2, SvcCounted DEF ReadConf, guardVars
<1>11. ASSUME NEW e \in Editors, WriteConf(e) \/ CheckConf(e) \/ RestartOnConf(e)
       PROVE  SvcRest'
  BY <1>11 DEF WriteConf, CheckConf, RestartOnConf, guardVars
<1>12. QED
  BY <1>1, <1>2, <1>3, <1>4, <1>5, <1>6, <1>7, <1>8, <1>9, <1>10, <1>11 DEF NextSvc, Serving

\* What holds of the guard needs no fairness.
LEMMA SvcHolds == InitSvc /\ [][NextSvc]_varsSvc => [](SvcRest /\ StopInv /\ SvcEditInv)
<1>1. InitSvc => SvcRest /\ StopInv /\ SvcEditInv
  <2> SUFFICES ASSUME InitSvc PROVE SvcRest /\ StopInv /\ SvcEditInv  OBVIOUS
  <2>1. SvcRest
    <3>1. /\ svcChecked \in BOOLEAN /\ svcUp = TRUE /\ svcRunning = FALSE /\ svcPaused = FALSE
          /\ svcFirst = TRUE /\ svcSaved = FALSE /\ svcTorn = FALSE /\ svcStopped = FALSE
          /\ svcProbe = "none" /\ svcAdmin = "none" /\ svcEvents = 0
      BY DEF InitSvc
    <3>2. 0 \in 0..MaxSvcEvents  BY ServiceGuardAssumption
    <3>3. QED  BY <3>1, <3>2 DEF SvcRest
  <2>2. StopInv  BY DEF InitSvc, StopInv, StopIsKnown
  <2>3. svcConf = "good" /\ svcEdit = [e \in Editors |-> NoEdit]  BY DEF InitSvc
  <2>4. QED  BY <2>1, <2>2, <2>3 DEF SvcEditInv, EditTyping, EditInv, NoEdit, EditCall
<1>2. SvcRest /\ StopInv /\ SvcEditInv /\ [NextSvc]_varsSvc
        => SvcRest' /\ StopInv' /\ SvcEditInv'
  BY SvcRestStep, StopStep, SvcEditStep
<1>3. QED  BY <1>1, <1>2, PTL

LEMMA SvcTyped == SvcRest /\ SvcEditInv => SvcTypeOK
BY DEF SvcRest, SvcEditInv, EditTyping, EditCall, SvcTypeOK

\* The guard, the buttons and the configuration page keep every variable in its type.
THEOREM SvcTyping == SpecSvc => []SvcTypeOK
BY SvcHolds, SvcTyped, PTL DEF SpecSvc

------------------------------------------------------------------------------
(* THE ALERT MONITOR.                                                        *)

Remembered == [firing : BOOLEAN, pending : Nat, since : Nat]

\* What the rule of the load waits for is what the checks found, in a row.
LoadInv ==
  /\ alRule \in [RuleSet -> Remembered] /\ alNext \in 0..4
  /\ alLoaded = alRule["load"].pending
  /\ LoadIsSustained

LEMMA LoadFrame ==
    ASSUME LoadInv, UNCHANGED <<alRule, alLoaded>>, alNext' \in 0..4
    PROVE  LoadInv'
BY DEF LoadInv, LoadIsSustained

\* A rule that is not the load's is checked: the load's is left.
LEMMA OtherRule ==
    ASSUME LoadInv, NEW r \in RuleSet, r # "load", NEW b \in Remembered,
           alRule' = [alRule EXCEPT ![r] = b], alLoaded' = alLoaded, alNext' \in 0..4
    PROVE  LoadInv'
<1>1. alRule' \in [RuleSet -> Remembered] /\ alRule'["load"] = alRule["load"]
  BY DEF LoadInv, RuleSet
<1>2. QED  BY <1>1 DEF LoadInv, LoadIsSustained

LEMMA LoadRule ==
    ASSUME LoadInv, NEW b \in Remembered, alRule' = [alRule EXCEPT !["load"] = b],
           alLoaded' = b.pending, b.firing => b.pending > Sustain, alNext' \in 0..4
    PROVE  LoadInv'
<1>1. alRule' \in [RuleSet -> Remembered] /\ alRule'["load"] = b
  BY DEF LoadInv, RuleSet
<1>2. QED  BY <1>1 DEF LoadInv, LoadIsSustained

LEMMA Forgotten == Quiet \in Remembered /\ Quiet.firing = FALSE /\ Quiet.pending = 0
BY DEF Quiet, Remembered

\* The rule is on: firing and waiting follow the answer.
LEMMA CheckOnStep ==
    ASSUME LoadInv, NEW r \in RuleSet, NEW holds \in BOOLEAN, CheckOn(r, holds),
           alNext' \in 0..4
    PROVE  LoadInv'
<1> DEFINE was == alRule[r]
           pending == IF holds THEN AtMost(was.pending + 1, Sustain + 1) ELSE 0
           fires == IF r = "load" THEN pending > Sustain ELSE holds
           since == AtMost(was.since + 1, Resend + 1)
           told == Notice(was, fires, since)
           b == [firing |-> fires, pending |-> IF r = "load" THEN pending ELSE 0,
                 since |-> IF told = "alert" \/ ~fires THEN 0 ELSE since]
<1>1. was \in Remembered /\ Sustain \in Nat /\ Resend \in Nat
  BY AlertAssumption DEF LoadInv
<1>2. pending \in Nat /\ since \in Nat /\ fires \in BOOLEAN
  <2>1. pending \in Nat  BY <1>1 DEF Remembered, AtMost
  <2>2. since \in Nat  BY <1>1 DEF Remembered, AtMost
  <2>3. fires \in BOOLEAN
    <3> HIDE DEF pending
    <3>1. (pending > Sustain) \in BOOLEAN  OBVIOUS
    <3>2. CASE r = "load"  BY <3>1, <3>2
    <3>3. CASE r # "load"  BY <3>3
    <3>4. QED  BY <3>2, <3>3
  <2>4. QED  BY <2>1, <2>2, <2>3
<1>3. /\ alRule' = [alRule EXCEPT ![r] = b]
      /\ alLoaded' = IF r # "load" THEN alLoaded
                   ELSE IF holds THEN AtMost(alLoaded + 1, Sustain + 1) ELSE 0
  <2>1. alRule' = [alRule EXCEPT ![r] = b]  BY DEF CheckOn
  <2> HIDE DEF b
  <2>2. QED  BY <2>1 DEF CheckOn
<1> HIDE DEF since, told
<1>4. b \in Remembered  BY <1>2 DEF Remembered
<1>5. CASE r # "load"
  <2> HIDE DEF b, pending, fires, was
  <2>1. alLoaded' = alLoaded  BY <1>3, <1>5
  <2>2. QED  BY <1>3, <1>4, <1>5, <2>1, OtherRule
<1>6. CASE r = "load"
  <2>1. alLoaded = was.pending  BY <1>6 DEF LoadInv
  <2>2. alLoaded' = pending  BY <1>3, <1>6, <2>1
  <2>3. b.pending = pending /\ (b.firing => b.pending > Sustain)
    <3>1. fires = (pending > Sustain)  BY <1>6
    <3> HIDE DEF fires, pending
    <3>2. b.pending = pending /\ b.firing = fires  BY <1>6
    <3>3. QED  BY <3>1, <3>2
  <2> HIDE DEF b
  <2>4. QED  BY <1>3, <1>4, <1>6, <2>2, <2>3, LoadRule
<1>7. QED  BY <1>5, <1>6

\* The rule is off: it forgets what it was waiting for.
LEMMA CheckOffStep ==
    ASSUME LoadInv, NEW r \in RuleSet, CheckOff(r), alNext' \in 0..4
    PROVE  LoadInv'
<1>1. /\ alRule' = [alRule EXCEPT ![r] = Quiet]
      /\ alLoaded' = IF r = "load" THEN 0 ELSE alLoaded
  BY DEF CheckOff
<1>2. CASE r # "load"  BY <1>1, <1>2, Forgotten, OtherRule
<1>3. CASE r = "load"  BY <1>1, <1>3, Forgotten, LoadRule
<1>4. QED  BY <1>2, <1>3

LEMMA CheckRuleStep == ASSUME LoadInv, CheckRule PROVE LoadInv'
<1>1. alNext \in 1..4 /\ alNext' = (alNext + 1) % 5  BY DEF CheckRule, LoadInv
<1>2. alNext' \in 0..4  BY <1>1
<1>3. Rules[alNext] \in RuleSet  BY <1>1 DEF Rules, RuleSet
<1>4. QED  BY <1>2, <1>3, CheckOnStep, CheckOffStep DEF CheckRule

LEMMA LoadStep == ASSUME LoadInv, [NextAl]_varsAl PROVE LoadInv'
<1>1. CASE UNCHANGED varsAl
  BY <1>1, LoadFrame DEF varsAl, LoadInv
<1>2. CASE StartChecks
  BY <1>2, LoadFrame DEF StartChecks
<1>3. CASE MilestoneChanges \/ NewsAges
  BY <1>3, LoadFrame DEF MilestoneChanges, NewsAges, LoadInv
<1>4. CASE MonitorRestart
  <2>1. alRule' = [r \in RuleSet |-> Quiet] /\ alLoaded' = 0 /\ alNext' = 0
    BY <1>4 DEF MonitorRestart
  <2>2. QED  BY <2>1, Forgotten DEF LoadInv, LoadIsSustained, RuleSet
<1>5. ASSUME NEW r \in RuleSet, WorldChanges(r) \/ Switch(r) PROVE LoadInv'
  BY <1>5, LoadFrame DEF WorldChanges, Switch, loopVars, LoadInv
<1>6. QED
  BY <1>1, <1>2, <1>3, <1>4, <1>5, CheckRuleStep DEF NextAl

\* sustainedFiring: the rule of a load fires only after checks in a row, with the
\* rule on and the panel running, found the load high for the whole threshold.
THEOREM LoadSustained == SpecAl => []LoadIsSustained
<1>1. InitAl => LoadInv
  <2> SUFFICES ASSUME InitAl PROVE LoadInv  OBVIOUS
  <2>1. alRule = [r \in RuleSet |-> Quiet] /\ alLoaded = 0 /\ alNext = 0
    BY DEF InitAl
  <2>2. QED  BY <2>1, Forgotten DEF LoadInv, LoadIsSustained, RuleSet
<1>2. LoadInv /\ [NextAl]_varsAl => LoadInv'  BY LoadStep
<1>3. LoadInv => LoadIsSustained  BY DEF LoadInv
<1>4. QED  BY <1>1, <1>2, <1>3, PTL DEF SpecAl

(* A milestone of the term of a site.                                        *)

Entry == [rule : RuleSet, level : {"critical", "info"}, recent : BOOLEAN]

LogTypes ==
  /\ alLog \in Seq(Entry) /\ Len(alLog) <= LogCap
  /\ alAfter \in -1..LogCap /\ alNext \in 0..4

\* The row of a milestone that was told is so many rows from the end.
TellsMilestone(log, after) ==
  /\ Len(log) - after \in 1..Len(log)
  /\ log[Len(log) - after].rule = "expiry"
  /\ log[Len(log) - after].level = "critical" /\ log[Len(log) - after].recent

RowKept == alAfter \in 0..LogCap - 1 => TellsMilestone(alLog, alAfter)

MilestoneInv == LogTypes /\ RowKept

LEMMA MilestoneFrame ==
    ASSUME MilestoneInv, UNCHANGED <<alLog, alAfter>>, alNext' \in 0..4
    PROVE  MilestoneInv'
BY DEF MilestoneInv, LogTypes, RowKept, TellsMilestone

\* As long as the row is there the site is left out.
LEMMA RowIsFound ==
    ASSUME MilestoneInv, alAfter \notin {-1, LogCap}
    PROVE  ToldToday
<1>1. LogCap \in Nat  BY AlertAssumption
<1>2. alAfter \in 0..LogCap - 1  BY <1>1 DEF MilestoneInv, LogTypes
<1>3. TellsMilestone(alLog, alAfter)  BY <1>2 DEF MilestoneInv, RowKept
<1>4. QED  BY <1>3 DEF ToldToday, TellsMilestone

\* A row more, and the oldest goes when there are too many.
LEMMA LogAlertStep ==
    ASSUME MilestoneInv, NEW r \in RuleSet, NEW told, LogAlert(r, told), alNext' \in 0..4
    PROVE  MilestoneInv'
<1> DEFINE level == IF told = "alert" THEN "critical" ELSE "info"
           e == [rule |-> r, level |-> level, recent |-> TRUE]
           log == Append(alLog, e)
           kept == IF Len(log) > LogCap THEN Tail(log) ELSE log
           n == Len(alLog)
<1>1. LogCap \in Nat /\ LogCap > 0  BY AlertAssumption
<1>2. alLog \in Seq(Entry) /\ n \in Nat /\ n <= LogCap /\ alAfter \in -1..LogCap
  BY DEF MilestoneInv, LogTypes
<1>3. e \in Entry /\ e.rule = r /\ e.level = level /\ e.recent  BY DEF Entry
<1>4. alLog' = kept
  BY DEF LogAlert
<1>5. alAfter' = IF r = "expiry" /\ told = "alert" THEN 0
                 ELSE IF alAfter = -1 THEN -1 ELSE AtMost(alAfter + 1, LogCap)
  BY DEF LogAlert
<1> HIDE DEF e
<1>6. /\ log \in Seq(Entry) /\ Len(log) = n + 1 /\ log[n + 1] = e
      /\ \A i \in 1..n : log[i] = alLog[i]
  BY <1>2, <1>3
<1> HIDE DEF log
<1>7. \/ kept = log /\ Len(kept) = n + 1 /\ n + 1 <= LogCap
      \/ /\ n = LogCap /\ kept \in Seq(Entry) /\ Len(kept) = n
         /\ \A i \in 1..n : kept[i] = log[i + 1]
  <2>1. CASE Len(log) > LogCap
    <3>1. n = LogCap /\ log # <<>>  BY <1>1, <1>2, <1>6, <2>1
    <3>2. kept = Tail(log)  BY <2>1
    <3>3. QED  BY <1>2, <1>6, <3>1, <3>2
  <2>2. CASE ~(Len(log) > LogCap)  BY <1>1, <1>2, <1>6, <2>2
  <2>3. QED  BY <2>1, <2>2
<1> HIDE DEF kept, n
<1>8. LogTypes'
  <2>1. kept \in Seq(Entry) /\ Len(kept) <= LogCap  BY <1>2, <1>6, <1>7
  <2>2. alAfter' \in -1..LogCap  BY <1>1, <1>2, <1>5 DEF AtMost
  <2>3. QED  BY <1>4, <2>1, <2>2 DEF LogTypes
<1>9. CASE r = "expiry" /\ told = "alert"
  <2>1. alAfter' = 0 /\ e.rule = "expiry" /\ e.level = "critical" /\ e.recent
    BY <1>3, <1>5, <1>9
  <2>2. Len(kept) \in Nat /\ Len(kept) > 0 /\ kept[Len(kept)] = e
    BY <1>1, <1>2, <1>6, <1>7
  <2>3. TellsMilestone(kept, 0)  BY <2>1, <2>2 DEF TellsMilestone
  <2>4. QED  BY <1>4, <1>8, <2>1, <2>3 DEF MilestoneInv, RowKept
<1>10. CASE ~(r = "expiry" /\ told = "alert") /\ alAfter' \in 0..LogCap - 1
  <2>1. alAfter \in 0..LogCap - 2 /\ alAfter' = alAfter + 1
    BY <1>1, <1>2, <1>5, <1>10 DEF AtMost
  <2>2. TellsMilestone(alLog, alAfter)
    BY <1>1, <2>1 DEF MilestoneInv, RowKept
  <2>3. n - alAfter \in 1..n /\ Len(alLog) = n  BY <2>2 DEF TellsMilestone, n
  <2>4. log[n - alAfter] = alLog[n - alAfter]  BY <1>6, <2>3
  <2>5. TellsMilestone(kept, alAfter + 1)
    <3>1. CASE kept = log /\ Len(kept) = n + 1
      <4>1. Len(kept) - (alAfter + 1) = n - alAfter  BY <1>2, <2>1, <3>1
      <4>2. n - alAfter \in 1..n + 1  BY <1>2, <2>1, <2>3
      <4>3. QED  BY <2>2, <2>3, <2>4, <3>1, <4>1, <4>2 DEF TellsMilestone
    <3>2. CASE n = LogCap /\ Len(kept) = n /\ \A i \in 1..n : kept[i] = log[i + 1]
      <4>1. n - (alAfter + 1) \in 1..n /\ n - (alAfter + 1) + 1 = n - alAfter
        BY <1>1, <2>1, <3>2
      <4>2. kept[n - (alAfter + 1)] = log[n - alAfter]  BY <3>2, <4>1
      <4>3. QED  BY <2>2, <2>3, <2>4, <3>2, <4>1, <4>2 DEF TellsMilestone
    <3>3. QED  BY <1>7, <3>1, <3>2
  <2>6. QED  BY <1>4, <1>8, <2>1, <2>5 DEF MilestoneInv, RowKept
<1>11. CASE alAfter' \notin 0..LogCap - 1
  BY <1>8, <1>11 DEF MilestoneInv, RowKept
<1>12. QED  BY <1>9, <1>10, <1>11

LEMMA MilestoneCheck == ASSUME MilestoneInv, CheckRule PROVE MilestoneInv'
<1>1. alNext \in 1..4 /\ alNext' = (alNext + 1) % 5
  BY DEF CheckRule, MilestoneInv, LogTypes
<1>2. alNext' \in 0..4 /\ Rules[alNext] \in RuleSet  BY <1>1 DEF Rules, RuleSet
<1>3. ASSUME NEW r \in RuleSet, NEW holds \in BOOLEAN, CheckOn(r, holds)
      PROVE  MilestoneInv'
  <2>1. UNCHANGED <<alLog, alAfter>> \/ \E told : LogAlert(r, told)
    BY <1>3 DEF CheckOn
  <2>2. QED  BY <1>2, <2>1, MilestoneFrame, LogAlertStep
<1>4. ASSUME NEW r \in RuleSet, CheckOff(r) PROVE MilestoneInv'
  BY <1>2, <1>4, MilestoneFrame DEF CheckOff
<1>5. QED  BY <1>2, <1>3, <1>4 DEF CheckRule

LEMMA MilestoneStep == ASSUME MilestoneInv, [NextAl]_varsAl PROVE MilestoneInv'
<1>1. alNext \in 0..4  BY DEF MilestoneInv, LogTypes
<1>2. CASE UNCHANGED varsAl  BY <1>1, <1>2, MilestoneFrame DEF varsAl
<1>3. CASE StartChecks \/ NewsAges \/ MonitorRestart
  BY <1>1, <1>3, MilestoneFrame DEF StartChecks, NewsAges, MonitorRestart
<1>4. CASE MilestoneChanges
  <2>1. /\ alLog' = [k \in 1..Len(alLog) |-> [alLog[k] EXCEPT !.recent = FALSE]]
        /\ alAfter' = -1 /\ alNext' = alNext
    BY <1>4 DEF MilestoneChanges
  <2>2. alLog \in Seq(Entry) /\ Len(alLog) <= LogCap /\ LogCap \in Nat
    BY AlertAssumption DEF MilestoneInv, LogTypes
  <2>3. \A k \in 1..Len(alLog) : [alLog[k] EXCEPT !.recent = FALSE] \in Entry
    <3>1. \A k \in 1..Len(alLog) : alLog[k] \in Entry  BY <2>2
    <3>2. QED  BY <3>1 DEF Entry
  <2>4. alLog' \in Seq(Entry) /\ Len(alLog') = Len(alLog)
    BY <2>1, <2>2, <2>3
  <2>5. QED  BY <1>1, <2>1, <2>2, <2>4 DEF MilestoneInv, LogTypes, RowKept
<1>5. ASSUME NEW r \in RuleSet, WorldChanges(r) \/ Switch(r) PROVE MilestoneInv'
  BY <1>1, <1>5, MilestoneFrame DEF WorldChanges, Switch, loopVars
<1>6. QED  BY <1>2, <1>3, <1>4, <1>5, MilestoneCheck DEF NextAl

\* A milestone is told only when no row of it was found.
LEMMA ToldOnlyWhenNew ==
    ASSUME MilestoneInv, NextAl, alTold' = <<"expiry", "alert">>, alTold # alTold'
    PROVE  alAfter \in {-1, LogCap}
<1>1. CheckRule
  BY DEF NextAl, StartChecks, MilestoneChanges, NewsAges, MonitorRestart, WorldChanges,
         Switch, AlChange
<1>2. PICK holds \in BOOLEAN : CheckOn(Rules[alNext], holds)
  BY <1>1 DEF CheckRule, CheckOff
<1> DEFINE r == Rules[alNext]
           pending == IF holds THEN AtMost(alRule[r].pending + 1, Sustain + 1) ELSE 0
           fires == IF r = "load" THEN pending > Sustain ELSE holds
           since == AtMost(alRule[r].since + 1, Resend + 1)
           told == Notice(alRule[r], fires, since)
           dropped == told = "recovery" /\ r = "load" /\ since <= Sustain
<1>3. CheckFn(r, holds)  BY <1>2 DEF CheckOn
<1>4. alTold' = IF told = "none" \/ dropped THEN <<>> ELSE <<r, told>>
  BY <1>2 DEF CheckOn
<1>5. r = "expiry" /\ told = "alert"
  <2> HIDE DEF r, told, dropped
  <2>1. QED  BY <1>4
<1>6. fires
  <2> HIDE DEF fires, r, since
  <2>1. QED  BY <1>5 DEF Notice
<1>7. holds  BY <1>5, <1>6
<1>8. ~ToldToday
  <2> HIDE DEF r
  <2>1. QED  BY <1>3, <1>5, <1>7 DEF CheckFn, CheckExpiry
<1>9. QED  BY <1>8, RowIsFound

\* checkWebsiteExpiry, logAlert: a milestone is told once, restarts of the panel
\* and switches included, unless alert_log has turned over in between.
THEOREM MilestoneOnce == SpecAl => MilestoneToldOnce
<1>1. InitAl => MilestoneInv
  <2> SUFFICES ASSUME InitAl PROVE MilestoneInv  OBVIOUS
  <2>1. alLog = <<>> /\ alAfter = -1 /\ alNext = 0  BY DEF InitAl
  <2>2. LogCap \in Nat  BY AlertAssumption
  <2>3. QED  BY <2>1, <2>2 DEF MilestoneInv, LogTypes, RowKept
<1>2. MilestoneInv /\ [NextAl]_varsAl => MilestoneInv'  BY MilestoneStep
<1>3. MilestoneInv /\ [NextAl]_varsAl =>
        [alTold' = <<"expiry", "alert">> /\ alTold # alTold' => alAfter \in {-1, LogCap}]_varsAl
  BY ToldOnlyWhenNew
<1>4. QED  BY <1>1, <1>2, <1>3, PTL DEF SpecAl, MilestoneToldOnce

(* Types. *)

BoundedRule == [firing : BOOLEAN, pending : 0..Sustain + 1, since : 0..Resend + 1]

\* The variables that are neither in LoadInv nor in MilestoneInv, and the bounds of
\* what a rule remembers.
AlRest ==
  /\ alWorld \in [RuleSet -> BOOLEAN] /\ alOn \in [RuleSet -> BOOLEAN]
  /\ alRule \in [RuleSet -> BoundedRule]
  /\ alFailed \in 0..2 /\ alPre \in {"none", "up", "down"}
  /\ alNews \in {"old", "new", "none"}

LEMMA QuietBounded == Quiet \in BoundedRule
BY AlertAssumption DEF Quiet, BoundedRule

LEMMA Probed == ASSUME alFailed \in 0..2, ProbeSite PROVE alFailed' \in 0..2
BY DEF ProbeSite, AtMost

\* What the four checks leave behind.
LEMMA FailedChecked ==
  ASSUME AlRest, NEW r, NEW holds, CheckFn(r, holds)
  PROVE  alFailed' \in 0..2 /\ alNews' \in {"old", "new", "none"}
<1>1. CASE CheckLoad(holds) \/ CheckExpiry(holds)
  BY <1>1 DEF CheckLoad, CheckExpiry, AlRest
<1>2. CASE CheckSites(holds)  BY <1>2, Probed DEF CheckSites, AlRest
<1>3. CASE CheckUpdate(holds)  BY <1>3 DEF CheckUpdate, AlRest
<1>4. QED  BY <1>1, <1>2, <1>3 DEF CheckFn

\* What a rule remembers stays in its bounds.
LEMMA RuleChecked ==
  ASSUME AlRest, NEW r \in RuleSet, NEW holds \in BOOLEAN, CheckOn(r, holds)
  PROVE  alRule' \in [RuleSet -> BoundedRule]
<1> DEFINE was == alRule[r]
           pending == IF holds THEN AtMost(was.pending + 1, Sustain + 1) ELSE 0
           fires == IF r = "load" THEN pending > Sustain ELSE holds
           since == AtMost(was.since + 1, Resend + 1)
           told == Notice(was, fires, since)
           b == [firing |-> fires, pending |-> IF r = "load" THEN pending ELSE 0,
                 since |-> IF told = "alert" \/ ~fires THEN 0 ELSE since]
<1>1. was \in BoundedRule /\ Sustain \in Nat /\ Resend \in Nat
  BY AlertAssumption DEF AlRest, BoundedRule
<1>2. pending \in 0..Sustain + 1  BY <1>1 DEF BoundedRule, AtMost
<1>3. since \in 0..Resend + 1  BY <1>1 DEF BoundedRule, AtMost
<1>4. fires \in BOOLEAN
  <2> HIDE DEF pending
  <2>1. (pending > Sustain) \in BOOLEAN  OBVIOUS
  <2>2. CASE r = "load"  BY <2>1, <2>2
  <2>3. CASE r # "load"  BY <2>3
  <2>4. QED  BY <2>2, <2>3
<1>5. alRule' = [alRule EXCEPT ![r] = b]  BY DEF CheckOn
<1> HIDE DEF pending, since, fires, told
<1>6. b \in BoundedRule  BY <1>1, <1>2, <1>3, <1>4 DEF BoundedRule
<1> HIDE DEF b
<1>7. QED  BY <1>5, <1>6 DEF AlRest, BoundedRule

LEMMA RuleOff ==
  ASSUME AlRest, NEW r \in RuleSet, CheckOff(r)
  PROVE  /\ alRule' \in [RuleSet -> BoundedRule]
         /\ alFailed' = alFailed /\ alNews' = alNews
<1>1. alRule' = [alRule EXCEPT ![r] = Quiet]  BY DEF CheckOff
<1>2. alRule' \in [RuleSet -> BoundedRule]  BY <1>1, QuietBounded DEF AlRest, BoundedRule
<1>3. QED  BY <1>2 DEF CheckOff

LEMMA AlRestStep == ASSUME AlRest, alNext \in 0..4, [NextAl]_varsAl PROVE AlRest'
<1>1. CASE UNCHANGED varsAl  BY <1>1 DEF varsAl, AlRest
<1>2. CASE StartChecks
  <2>1. alFailed' \in 0..2 /\ alPre' \in {"none", "up", "down"}
    BY <1>2, Probed DEF StartChecks, AlRest
  <2>2. QED  BY <1>2, <2>1 DEF StartChecks, AlRest
<1>3. CASE CheckRule
  <2>1. alNext \in 1..4  BY <1>3 DEF CheckRule
  <2>2. Rules[alNext] \in RuleSet  BY <2>1 DEF Rules, RuleSet
  <2>3. ASSUME NEW holds \in BOOLEAN, CheckOn(Rules[alNext], holds)
        PROVE  alFailed' \in 0..2 /\ alNews' \in {"old", "new", "none"}
               /\ alRule' \in [RuleSet -> BoundedRule]
    BY <2>2, <2>3, FailedChecked, RuleChecked DEF CheckOn
  <2>4. CASE CheckOff(Rules[alNext])
    BY <1>3, <2>2, <2>4, RuleOff DEF CheckRule, AlRest, BoundedRule
  <2>5. QED  BY <1>3, <2>3, <2>4 DEF CheckRule, AlRest, BoundedRule
<1>4. CASE MilestoneChanges
  <2>1. alWorld' \in [RuleSet -> BOOLEAN]
    <3>1. alWorld' = [alWorld EXCEPT !["expiry"] = ~alWorld["expiry"]]
      BY <1>4 DEF MilestoneChanges
    <3>2. QED  BY <3>1 DEF AlRest
  <2>2. QED  BY <1>4, <2>1 DEF MilestoneChanges, AlRest
<1>5. CASE NewsAges  BY <1>5 DEF NewsAges, AlRest
<1>6. CASE MonitorRestart
  <2>1. alRule' \in [RuleSet -> BoundedRule]
    BY <1>6, QuietBounded DEF MonitorRestart
  <2>2. QED  BY <1>6, <2>1 DEF MonitorRestart, AlRest, BoundedRule
<1>7. ASSUME NEW r \in RuleSet, WorldChanges(r) PROVE AlRest'
  <2>1. alWorld' = [alWorld EXCEPT ![r] = ~alWorld[r]]  BY <1>7 DEF WorldChanges
  <2>2. alWorld' \in [RuleSet -> BOOLEAN]  BY <2>1 DEF AlRest
  <2>3. QED  BY <1>7, <2>2 DEF WorldChanges, loopVars, AlRest
<1>8. ASSUME NEW r \in RuleSet, Switch(r) PROVE AlRest'
  <2>1. alOn' = [alOn EXCEPT ![r] = ~alOn[r]]  BY <1>8 DEF Switch
  <2>2. alOn' \in [RuleSet -> BOOLEAN]  BY <2>1 DEF AlRest
  <2>3. QED  BY <1>8, <2>2 DEF Switch, loopVars, AlRest
<1>9. QED  BY <1>1, <1>2, <1>3, <1>4, <1>5, <1>6, <1>7, <1>8 DEF NextAl

\* What holds of the monitor needs no fairness.
LEMMA AlHolds == InitAl /\ [][NextAl]_varsAl => [](AlRest /\ LoadInv /\ MilestoneInv)
<1>1. InitAl => AlRest /\ LoadInv /\ MilestoneInv
  <2> SUFFICES ASSUME InitAl PROVE AlRest /\ LoadInv /\ MilestoneInv  OBVIOUS
  <2>1. /\ alRule = [r \in RuleSet |-> Quiet] /\ alLoaded = 0 /\ alNext = 0
        /\ alLog = <<>> /\ alAfter = -1
    BY DEF InitAl
  <2>2. LogCap \in Nat  BY AlertAssumption
  <2>3. AlRest  BY QuietBounded DEF InitAl, AlRest, BoundedRule
  <2>4. LoadInv  BY <2>1, Forgotten DEF LoadInv, LoadIsSustained, RuleSet
  <2>5. MilestoneInv  BY <2>1, <2>2 DEF MilestoneInv, LogTypes, RowKept
  <2>6. QED  BY <2>3, <2>4, <2>5
<1>2. AlRest /\ LoadInv /\ MilestoneInv /\ [NextAl]_varsAl
        => AlRest' /\ LoadInv' /\ MilestoneInv'
  BY AlRestStep, LoadStep, MilestoneStep DEF LoadInv
<1>3. QED  BY <1>1, <1>2, PTL

LEMMA AlTyped == AlRest /\ LoadInv /\ MilestoneInv => AlTypeOK
<1> SUFFICES ASSUME AlRest, LoadInv, MilestoneInv PROVE AlTypeOK  OBVIOUS
<1>1. alRule["load"].pending \in 0..Sustain + 1  BY DEF AlRest, BoundedRule, RuleSet
<1>2. alLoaded \in 0..Sustain + 1  BY <1>1 DEF LoadInv
<1>3. QED  BY <1>2 DEF AlRest, BoundedRule, MilestoneInv, LogTypes, Entry, AlTypeOK

\* runChecks, logAlert: what a rule remembers and alert_log stay in their bounds,
\* however long the monitor runs.
THEOREM AlTyping == SpecAl => []AlTypeOK
BY AlHolds, AlTyped, PTL DEF SpecAl

------------------------------------------------------------------------------
(* WHO MAY ENTER THE PANEL.                                                  *)

Saver == [step : {"idle", "saving", "read", "truncated", "written", "restart"},
          todo : SUBSET FieldSet, seen : [Basic -> Nat], number : Nat]

AccTypes ==
  /\ saver \in [Entrants -> Saver] /\ saveCount \in [saves : Nat, slips : Nat]
  /\ inFile \in [Basic -> Nat] /\ inMemory \in [Basic -> Nat]

\* The field at hand depends on the fields to do alone.
FirstOf(todo) ==
  LET left == {i \in 1..4 : Fields[i] \in todo}
  IN  Fields[CHOOSE i \in left : \A j \in left : i <= j]

LEMMA FieldIsFirst ==
    ASSUME NEW p
    PROVE  Field(p) = FirstOf(saver[p].todo) /\ Field(p)' = FirstOf(saver'[p].todo)
BY DEF Field, Left, FirstOf

\* Who is between reading config.json and setting the memory has the file to
\* itself, and what it read or wrote is what the memory had or will have.
Changing(p) == saver[p].step \in {"read", "truncated", "written"}
KeepsFile(p) ==
  /\ saver[p].step = "read" => /\ ~fileTorn /\ Field(p) \in Basic
                               /\ saver[p].seen = inFile /\ inMemory = inFile
  /\ saver[p].step = "truncated" =>
        fileTorn /\ Field(p) \in Basic /\ (p # Resetter => saver[p].seen = inMemory)
  /\ saver[p].step = "written" =>
        /\ ~fileTorn /\ p # Resetter /\ Field(p) \in Basic
        /\ inFile = [inMemory EXCEPT ![Field(p)] = saver[p].number]

Agrees == fileTorn \/ (\E p \in Entrants : Rewriting(p)) \/ inMemory = inFile
FileFollowed ==
  /\ \A p, o \in Entrants : Changing(p) /\ Changing(o) => p = o
  /\ \A p \in Entrants : KeepsFile(p)
  /\ Agrees

AccInv == AccTypes /\ (overlapped \/ FileFollowed)

\* One process takes a step.
LEMMA SaverTo ==
    ASSUME AccTypes, NEW p \in Entrants, NEW b \in Saver, saver' = [saver EXCEPT ![p] = b]
    PROVE  /\ saver' \in [Entrants -> Saver] /\ saver'[p] = b
           /\ \A o \in Entrants \ {p} : saver'[o] = saver[o]
BY DEF AccTypes

LEMMA StepOfSaver ==
    ASSUME AccTypes, NEW p \in Entrants, NEW s,
           s \in {"idle", "saving", "read", "truncated", "written", "restart"}, ToStep(p, s)
    PROVE  /\ saver' \in [Entrants -> Saver] /\ saver'[p].step = s
           /\ saver'[p].todo = saver[p].todo /\ saver'[p].seen = saver[p].seen
           /\ saver'[p].number = saver[p].number /\ Field(p)' = Field(p)
           /\ \A o \in Entrants \ {p} : saver'[o] = saver[o]
<1> DEFINE b == [saver[p] EXCEPT !.step = s]
<1>1. b \in Saver /\ b.step = s /\ b.todo = saver[p].todo /\ b.seen = saver[p].seen
      /\ b.number = saver[p].number
  BY DEF AccTypes, Saver
<1>2. saver' = [saver EXCEPT ![p] = b]  BY DEF ToStep
<1> HIDE DEF b
<1>3. saver' \in [Entrants -> Saver] /\ saver'[p] = b
      /\ \A o \in Entrants \ {p} : saver'[o] = saver[o]
  BY <1>1, <1>2, SaverTo
<1>4. saver'[p].todo = saver[p].todo  BY <1>1, <1>3
<1>5. Field(p)' = Field(p)  BY <1>4, FieldIsFirst
<1>6. QED  BY <1>1, <1>3, <1>5

LEMMA SaverEnds ==
    ASSUME AccTypes, NEW p \in Entrants, Ends(p)
    PROVE  /\ saver' \in [Entrants -> Saver] /\ saver'[p].step = "idle"
           /\ \A o \in Entrants \ {p} : saver'[o] = saver[o]
<1>1. Unused \in Saver /\ Unused.step = "idle"  BY DEF Unused, Saver
<1>2. QED  BY <1>1, SaverTo DEF Ends

LEMMA FieldIsDone ==
    ASSUME AccTypes, NEW p \in Entrants, FieldDone(p)
    PROVE  /\ saver' \in [Entrants -> Saver] /\ saver'[p].step = "saving"
           /\ \A o \in Entrants \ {p} : saver'[o] = saver[o]
<1> DEFINE b == [saver[p] EXCEPT !.todo = @ \ {Field(p)}, !.step = "saving"]
<1>1. b \in Saver /\ b.step = "saving"  BY DEF AccTypes, Saver
<1>2. saver' = [saver EXCEPT ![p] = b]  BY DEF FieldDone, AccTypes, Saver
<1> HIDE DEF b
<1>3. QED  BY <1>1, <1>2, SaverTo

\* Its step keeps what the others have.
LEMMA OneSaver ==
    ASSUME FileFollowed, NEW p \in Entrants,
           \A o \in Entrants \ {p} : saver'[o] = saver[o],
           UNCHANGED <<inFile, inMemory, fileTorn>> \/ Changing(p),
           Changing(p)' => Changing(p) \/ (\A o \in Entrants \ {p} : ~Changing(o)),
           KeepsFile(p)', Agrees'
    PROVE  FileFollowed'
<1>1. \A o \in Entrants \ {p} : Changing(o)' <=> Changing(o)  BY DEF Changing
<1>2. \A q, o \in Entrants : Changing(q)' /\ Changing(o)' => q = o
  BY <1>1 DEF FileFollowed
<1>3. ASSUME NEW o \in Entrants \ {p} PROVE KeepsFile(o)'
  <2>1. saver'[o] = saver[o] /\ KeepsFile(o)  BY DEF FileFollowed
  <2>2. Field(o)' = Field(o)  BY <2>1, FieldIsFirst
  <2>3. CASE UNCHANGED <<inFile, inMemory, fileTorn>>  BY <2>1, <2>2, <2>3 DEF KeepsFile
  <2>4. CASE Changing(p)
    <3>1. ~Changing(o)  BY <2>4 DEF FileFollowed
    <3>2. QED  BY <2>1, <3>1 DEF KeepsFile, Changing
  <2>5. QED  BY <2>3, <2>4
<1>4. QED  BY <1>2, <1>3 DEF FileFollowed

\* A process that is not changing config.json does not begin to.
LEMMA IdleSaver ==
    ASSUME AccInv, NEW p \in Entrants, AccTypes', overlapped' = overlapped,
           UNCHANGED <<inFile, inMemory, fileTorn>>,
           \A o \in Entrants \ {p} : saver'[o] = saver[o],
           saver[p].step \in {"idle", "saving"}, saver'[p].step \in {"idle", "saving"}
    PROVE  AccInv'
<1>1. ASSUME FileFollowed PROVE FileFollowed'
  <2>1. KeepsFile(p)' /\ ~Changing(p)'  BY DEF KeepsFile, Changing
  <2>2. \A o \in Entrants : Rewriting(o) => Rewriting(o)'  BY DEF Rewriting
  <2>3. Agrees'  BY <1>1, <2>2 DEF FileFollowed, Agrees
  <2>4. QED  BY <1>1, <2>1, <2>3, OneSaver
<1>2. QED  BY <1>1 DEF AccInv

LEMMA SavingKeepsFile ==
    ASSUME AccInv, NEW p \in Entrants, AskSave(p) \/ SaveRow(p) \/ RefuseSave(p) \/ EndSave(p)
    PROVE  AccInv'
<1>1. /\ UNCHANGED <<inFile, inMemory, fileTorn>> /\ overlapped' = overlapped
      /\ saveCount' \in [saves : Nat, slips : Nat]
      /\ saver[p].step \in {"idle", "saving"} /\ AccTypes
  <2>1. CASE AskSave(p)
    <3>1. saveCount \in [saves : Nat, slips : Nat]  BY DEF AccInv, AccTypes
    <3>2. [saveCount EXCEPT !.saves = @ + 1] \in [saves : Nat, slips : Nat]  BY <3>1
    <3>3. QED  BY <2>1, <3>2 DEF AskSave, AccInv
  <2>2. CASE SaveRow(p) \/ RefuseSave(p) \/ EndSave(p)
    BY <2>2 DEF SaveRow, RefuseSave, EndSave, Saving, AccInv, AccTypes
  <2>3. QED  BY <2>1, <2>2
<1>2. /\ saver' \in [Entrants -> Saver] /\ saver'[p].step \in {"idle", "saving"}
      /\ \A o \in Entrants \ {p} : saver'[o] = saver[o]
  <2>1. CASE AskSave(p)
    <3>1. PICK todo \in SUBSET FieldSet :
             saver' = [saver EXCEPT ![p] = [Unused EXCEPT !.step = "saving", !.todo = todo,
                                                          !.number = saveCount.saves + 1]]
      BY <2>1 DEF AskSave
    <3> DEFINE b == [Unused EXCEPT !.step = "saving", !.todo = todo,
                                   !.number = saveCount.saves + 1]
    <3>2. saveCount.saves + 1 \in Nat  BY <1>1 DEF AccTypes
    <3>3. b \in Saver /\ b.step = "saving"  BY <3>2 DEF Unused, Saver
    <3> HIDE DEF b
    <3>4. QED  BY <1>1, <3>1, <3>3, SaverTo DEF b
  <2>2. CASE SaveRow(p)
    <3>1. CASE p = Resetter
      <4> DEFINE b == [saver[p] EXCEPT !.todo = Basic]
      <4>1. b \in Saver /\ b.step = saver[p].step
        BY <1>1 DEF AccTypes, Saver, Basic, FieldSet
      <4>2. saver' = [saver EXCEPT ![p] = b]  BY <2>2, <3>1 DEF SaveRow
      <4> HIDE DEF b
      <4>3. QED  BY <1>1, <4>1, <4>2, SaverTo
    <3>2. CASE p # Resetter  BY <1>1, <2>2, <3>2, FieldIsDone DEF SaveRow
    <3>3. QED  BY <3>1, <3>2
  <2>3. CASE RefuseSave(p) \/ EndSave(p)  BY <1>1, <2>3, SaverEnds DEF RefuseSave, EndSave
  <2>4. QED  BY <2>1, <2>2, <2>3
<1>3. AccTypes'  BY <1>1, <1>2 DEF AccTypes
<1>4. QED  BY <1>1, <1>2, <1>3, IdleSaver

\* It is overlapped, or nobody else is at the file and the memory has it.
LEMMA ReadFileStep == ASSUME AccInv, NEW p \in Entrants, ReadFile(p) PROVE AccInv'
<1> DEFINE b == [saver[p] EXCEPT !.step = "read", !.seen = inFile]
<1>1. /\ UNCHANGED <<inFile, inMemory, fileTorn, saveCount>> /\ AccTypes
      /\ saver[p].step = "saving" /\ ~fileTorn /\ Field(p) \in Basic
      /\ overlapped' = (overlapped \/ \E o \in Entrants \ {p} : Rewriting(o))
  BY DEF ReadFile, Saving, AccInv
<1>2. /\ b \in Saver /\ b.step = "read" /\ b.seen = inFile /\ b.todo = saver[p].todo
  BY <1>1 DEF AccTypes, Saver
<1>3. saver' = [saver EXCEPT ![p] = b]  BY <1>1 DEF ReadFile, AccTypes, Saver
<1> HIDE DEF b
<1>4. /\ saver' \in [Entrants -> Saver] /\ saver'[p].step = "read"
      /\ saver'[p].seen = inFile /\ saver'[p].todo = saver[p].todo
      /\ \A o \in Entrants \ {p} : saver'[o] = saver[o]
  BY <1>1, <1>2, <1>3, SaverTo
<1>5. AccTypes'  BY <1>1, <1>4 DEF AccTypes
<1>6. ASSUME ~overlapped' PROVE FileFollowed'
  <2>1. FileFollowed /\ \A o \in Entrants : ~Rewriting(o)
    BY <1>1, <1>6 DEF AccInv, Rewriting
  <2>2. inMemory = inFile /\ \A o \in Entrants : ~Changing(o)
    BY <1>1, <2>1 DEF FileFollowed, Agrees, Rewriting, Changing
  <2>3. Field(p)' = Field(p)  BY <1>4, FieldIsFirst
  <2>4. KeepsFile(p)'  BY <1>1, <1>4, <2>2, <2>3 DEF KeepsFile
  <2>5. Agrees'  BY <1>1, <2>2 DEF Agrees
  <2>6. QED  BY <1>1, <1>4, <2>1, <2>2, <2>4, <2>5, OneSaver
<1>7. QED  BY <1>5, <1>6 DEF AccInv

LEMMA SlipTyped ==
    ASSUME AccTypes, Slip
    PROVE  saveCount' \in [saves : Nat, slips : Nat]
BY DEF AccTypes, Slip

\* A process stops changing the file without having touched it, or leaves it torn.
LEMMA GivesUp ==
    ASSUME AccInv, NEW p \in Entrants, FindTorn(p) \/ OpenFails(p) \/ WriteFails(p)
    PROVE  AccInv'
<1>1. /\ UNCHANGED <<inFile, inMemory, fileTorn, overlapped>> /\ AccTypes
      /\ saveCount' \in [saves : Nat, slips : Nat]
  BY SlipTyped DEF FindTorn, OpenFails, WriteFails, AccInv, AccTypes
<1>2. /\ saver' \in [Entrants -> Saver] /\ saver'[p].step \in {"idle", "restart"}
      /\ \A o \in Entrants \ {p} : saver'[o] = saver[o]
  BY <1>1, SaverEnds, StepOfSaver DEF FindTorn, OpenFails, WriteFails
<1>3. AccTypes'  BY <1>1, <1>2 DEF AccTypes
<1>4. ASSUME FileFollowed PROVE FileFollowed'
  <2>1. KeepsFile(p)' /\ ~Changing(p)'  BY <1>2 DEF KeepsFile, Changing
  <2>2. fileTorn \/ inMemory = inFile
    <3>1. CASE FindTorn(p) \/ WriteFails(p)
      BY <1>4, <3>1 DEF FindTorn, WriteFails, FileFollowed, KeepsFile
    <3>2. CASE OpenFails(p)  BY <1>4, <3>2 DEF OpenFails, FileFollowed, KeepsFile
    <3>3. QED  BY <3>1, <3>2
  <2>3. Agrees'  BY <1>1, <2>2 DEF Agrees
  <2>4. QED  BY <1>1, <1>2, <1>4, <2>1, <2>3, OneSaver
<1>5. QED  BY <1>1, <1>3, <1>4 DEF AccInv

LEMMA TruncateStep == ASSUME AccInv, NEW p \in Entrants, TruncateFile(p) PROVE AccInv'
<1>1. /\ UNCHANGED <<inFile, inMemory, overlapped, saveCount>> /\ fileTorn' = TRUE
      /\ saver[p].step = "read" /\ AccTypes
  BY DEF TruncateFile, AccInv
<1>2. /\ saver' \in [Entrants -> Saver] /\ saver'[p].step = "truncated"
      /\ saver'[p].seen = saver[p].seen /\ Field(p)' = Field(p)
      /\ \A o \in Entrants \ {p} : saver'[o] = saver[o]
  BY <1>1, StepOfSaver DEF TruncateFile
<1>3. ASSUME FileFollowed PROVE FileFollowed'
  <2>1. KeepsFile(p)'  BY <1>1, <1>2, <1>3 DEF FileFollowed, KeepsFile
  <2>2. Agrees' /\ Changing(p)  BY <1>1 DEF Agrees, Changing
  <2>3. QED  BY <1>2, <1>3, <2>1, <2>2, OneSaver
<1>4. QED  BY <1>1, <1>2, <1>3 DEF AccInv, AccTypes

\* The whole file again, with the field changed in what was read.
LEMMA WriteFileStep == ASSUME AccInv, NEW p \in Entrants, WriteFile(p) PROVE AccInv'
<1>1. /\ UNCHANGED <<inMemory, overlapped, saveCount>> /\ fileTorn' = FALSE
      /\ saver[p].step = "truncated" /\ AccTypes /\ inFile' = Changed(p)
  BY DEF WriteFile, AccInv
<1>2. /\ saver' \in [Entrants -> Saver]
      /\ saver'[p].step = IF p = Resetter THEN "restart" ELSE "written"
      /\ saver'[p].number = saver[p].number /\ Field(p)' = Field(p)
      /\ \A o \in Entrants \ {p} : saver'[o] = saver[o]
  BY <1>1, StepOfSaver DEF WriteFile
<1>3. inFile' \in [Basic -> Nat]
  <2>1. saver[p] \in Saver  BY <1>1 DEF AccTypes
  <2>2. CASE p = Resetter  BY <1>1, <2>1, <2>2 DEF Changed, Saver
  <2>3. CASE p # Resetter
    <3>1. inFile' = [saver[p].seen EXCEPT ![Field(p)] = saver[p].number]
      BY <1>1, <2>3 DEF Changed
    <3>2. saver[p].seen \in [Basic -> Nat] /\ saver[p].number \in Nat  BY <2>1 DEF Saver
    <3>3. QED  BY <3>1, <3>2
  <2>4. QED  BY <2>2, <2>3
<1>4. ASSUME FileFollowed PROVE FileFollowed'
  <2>1. Field(p) \in Basic /\ (p # Resetter => saver[p].seen = inMemory)
    BY <1>1, <1>4 DEF FileFollowed, KeepsFile
  <2>2. p # Resetter => inFile' = [inMemory EXCEPT ![Field(p)] = saver[p].number]
    BY <1>1, <2>1 DEF Changed
  <2>3. KeepsFile(p)'  BY <1>1, <1>2, <2>1, <2>2 DEF KeepsFile
  <2>4. Agrees' /\ Changing(p)  BY <1>1, <1>2 DEF Agrees, Rewriting, Changing
  <2>5. QED  BY <1>2, <1>4, <2>3, <2>4, OneSaver
<1>5. QED  BY <1>1, <1>2, <1>3, <1>4 DEF AccInv, AccTypes

LEMMA SetMemoryStep == ASSUME AccInv, NEW p \in Entrants, SetMemory(p) PROVE AccInv'
<1>1. /\ UNCHANGED <<inFile, fileTorn, overlapped, saveCount>>
      /\ saver[p].step = "written" /\ AccTypes
      /\ inMemory' = [inMemory EXCEPT ![Field(p)] = saver[p].number]
  BY DEF SetMemory, AccInv
<1>2. /\ saver' \in [Entrants -> Saver] /\ saver'[p].step = "saving"
      /\ \A o \in Entrants \ {p} : saver'[o] = saver[o]
  BY <1>1, FieldIsDone DEF SetMemory
<1>3. saver[p].number \in Nat /\ inMemory' \in [Basic -> Nat]  BY <1>1 DEF AccTypes, Saver
<1>4. ASSUME FileFollowed PROVE FileFollowed'
  <2>1. inFile' = inMemory'  BY <1>1, <1>4 DEF FileFollowed, KeepsFile
  <2>2. KeepsFile(p)' /\ Agrees' /\ Changing(p)  BY <1>1, <1>2, <2>1 DEF KeepsFile, Agrees, Changing
  <2>3. QED  BY <1>2, <1>4, <2>2, OneSaver
<1>5. QED  BY <1>1, <1>2, <1>3, <1>4 DEF AccInv, AccTypes

\* A restart ends the requests and reads the file; the reset may live on.
LEMMA RestartStep == ASSUME AccInv, ResetRestarts \/ PanelDies PROVE AccInv'
<1>1. /\ inMemory' = (IF fileTorn THEN inMemory ELSE inFile)
      /\ UNCHANGED <<inFile, fileTorn, overlapped>> /\ AccTypes
      /\ saveCount' \in [saves : Nat, slips : Nat]
  BY SlipTyped DEF ResetRestarts, PanelDies, Restarted, AccInv, AccTypes
<1>2. Unused \in Saver /\ Unused.step = "idle"  BY DEF Unused, Saver
<1>3. /\ saver' \in [Entrants -> Saver]
      /\ \A p \in Entrants : saver'[p] = Unused \/ (p = Resetter /\ saver'[p] = saver[p])
  <2>1. CASE ResetRestarts  BY <1>2, <2>1 DEF ResetRestarts
  <2>2. CASE PanelDies  BY <1>1, <1>2, <2>2 DEF PanelDies, AccTypes
  <2>3. QED  BY <2>1, <2>2
<1>4. AccTypes'  BY <1>1, <1>3 DEF AccTypes
<1>5. ASSUME FileFollowed PROVE FileFollowed'
  <2>1. ASSUME NEW p \in Entrants PROVE (Changing(p)' => p = Resetter) /\ KeepsFile(p)'
    <3>1. CASE saver'[p] = Unused  BY <1>2, <3>1 DEF Changing, KeepsFile
    <3>2. CASE p = Resetter /\ saver'[p] = saver[p]
      <4>1. Field(p)' = Field(p) /\ KeepsFile(p)  BY <1>5, <3>2, FieldIsFirst DEF FileFollowed
      <4>2. QED  BY <1>1, <3>2, <4>1 DEF KeepsFile
    <3>3. QED  BY <1>3, <3>1, <3>2
  <2>2. Agrees'  BY <1>1 DEF Agrees
  <2>3. QED  BY <2>1, <2>2 DEF FileFollowed
<1>6. QED  BY <1>1, <1>4, <1>5 DEF AccInv

LEMMA AccStep == ASSUME AccInv, [NextAcc]_varsAcc PROVE AccInv'
<1>1. CASE UNCHANGED varsAcc
  <2>1. UNCHANGED <<inFile, inMemory, fileTorn, saver, overlapped, saveCount>>
    BY <1>1 DEF varsAcc
  <2>2. \A p \in Entrants : Field(p)' = Field(p)  BY <2>1, FieldIsFirst
  <2>3. FileFollowed => FileFollowed'
    BY <2>1, <2>2 DEF FileFollowed, KeepsFile, Changing, Agrees, Rewriting
  <2>4. QED  BY <2>1, <2>3 DEF AccInv, AccTypes
<1>2. CASE ResetRestarts \/ PanelDies  BY <1>2, RestartStep
<1>3. ASSUME NEW p \in Entrants,
             \/ AskSave(p) \/ SaveRow(p) \/ RefuseSave(p)
             \/ ReadFile(p) \/ FindTorn(p) \/ OpenFails(p) \/ TruncateFile(p)
             \/ WriteFile(p) \/ WriteFails(p) \/ SetMemory(p) \/ EndSave(p)
      PROVE  AccInv'
  BY <1>3, SavingKeepsFile, ReadFileStep, GivesUp, TruncateStep, WriteFileStep, SetMemoryStep
<1>4. QED  BY <1>1, <1>2, <1>3 DEF NextAcc

\* Nobody is at config.json at first, and the memory has what is in it.
LEMMA AccBegins == ASSUME InitAcc PROVE AccInv
<1>1. /\ inMemory = inFile /\ inFile = [f \in Basic |-> 0]
      /\ saver = [p \in Entrants |-> Unused] /\ saveCount = [saves |-> 0, slips |-> 0]
  BY DEF InitAcc
<1>2. Unused \in Saver /\ Unused.step = "idle"  BY DEF Unused, Saver
<1>3. AccTypes  BY <1>1, <1>2 DEF AccTypes
<1>4. FileFollowed  BY <1>1, <1>2 DEF FileFollowed, Changing, KeepsFile, Agrees
<1>5. QED  BY <1>3, <1>4 DEF AccInv

\* UpdateSettings, resetAllAdmin, LoadConfig: for any number of requests, failed
\* writes and restarts, who Basic Auth lets in is what config.json says whenever
\* nobody is changing it, unless two changes overlapped or a write was cut off.
THEOREM RestartHarmless == SpecAcc => []RestartChangesNothing
<1>1. InitAcc => AccInv  BY AccBegins
<1>2. AccInv /\ [NextAcc]_varsAcc => AccInv'  BY AccStep
<1>3. AccInv => RestartChangesNothing
  BY DEF AccInv, FileFollowed, Agrees, RestartChangesNothing
<1>4. QED  BY <1>1, <1>2, <1>3, PTL DEF SpecAcc

(* Types. *)

\* The table, the flags and the bounds.
AccRest ==
  /\ inTable \in [FieldSet \ Basic -> Nat]
  /\ fileTorn \in BOOLEAN /\ serving \in BOOLEAN /\ overlapped \in BOOLEAN
  /\ saveCount \in [saves : 0..MaxSaves, slips : 0..MaxSlips]

LEMMA SavesCounted ==
  ASSUME AccRest, (\E p \in Entrants : AskSave(p)) \/ Slip \/ UNCHANGED saveCount
  PROVE  saveCount' \in [saves : 0..MaxSaves, slips : 0..MaxSlips]
<1>1. saveCount \in [saves : 0..MaxSaves, slips : 0..MaxSlips]  BY DEF AccRest
<1>2. ASSUME NEW p \in Entrants, AskSave(p)
      PROVE  saveCount' \in [saves : 0..MaxSaves, slips : 0..MaxSlips]
  <2>0. saveCount.saves < MaxSaves  BY <1>2 DEF AskSave
  <2>1. saveCount.saves + 1 \in 0..MaxSaves  BY <1>1, <2>0, AccountsAssumption
  <2>2. saveCount' = [saveCount EXCEPT !.saves = saveCount.saves + 1]  BY <1>2 DEF AskSave
  <2>3. QED  BY <1>1, <2>1, <2>2
<1>3. CASE Slip
  <2>1. saveCount.slips + 1 \in 0..MaxSlips  BY <1>1, <1>3, AccountsAssumption DEF Slip
  <2>2. saveCount' = [saveCount EXCEPT !.slips = saveCount.slips + 1]  BY <1>3 DEF Slip
  <2>3. QED  BY <1>1, <2>1, <2>2
<1>4. QED  BY <1>1, <1>2, <1>3

\* The field at hand is one of those left.
LEMMA FieldIsLeft == ASSUME NEW p, Saving(p) PROVE Field(p) \in FieldSet
<1>1. PICK i \in 1..4 : i \in Left(p)  BY DEF Saving, Left
<1>2. \E m \in Left(p) : \A j \in Left(p) : m <= j
  <2>1. Left(p) \subseteq 1..4  BY DEF Left
  <2>2. CASE 1 \in Left(p)  BY <2>1, <2>2
  <2>3. CASE 1 \notin Left(p) /\ 2 \in Left(p)  BY <2>1, <2>3
  <2>4. CASE 1 \notin Left(p) /\ 2 \notin Left(p) /\ 3 \in Left(p)  BY <2>1, <2>4
  <2>5. CASE 1 \notin Left(p) /\ 2 \notin Left(p) /\ 3 \notin Left(p)  BY <1>1, <2>1, <2>5
  <2>6. QED  BY <2>2, <2>3, <2>4, <2>5
<1> DEFINE m == CHOOSE first \in Left(p) : \A j \in Left(p) : first <= j
<1>3. m \in Left(p)  BY <1>2
<1>4. Field(p) = Fields[m]  BY DEF Field
<1> HIDE DEF m
<1>5. m \in 1..4  BY <1>3 DEF Left
<1>6. Fields[1] \in FieldSet /\ Fields[2] \in FieldSet /\ Fields[3] \in FieldSet
      /\ Fields[4] \in FieldSet
  BY DEF Fields, FieldSet
<1>7. m = 1 \/ m = 2 \/ m = 3 \/ m = 4  BY <1>5
<1>8. QED  BY <1>4, <1>6, <1>7

\* The row of a request, or of the reset.
LEMMA RowSaved ==
  ASSUME AccRest, AccTypes, NEW p \in Entrants, SaveRow(p)
  PROVE  inTable' \in [FieldSet \ Basic -> Nat]
<1>1. saver[p].number \in Nat  BY DEF AccTypes, Saver
<1>2. CASE p = Resetter  BY <1>1, <1>2 DEF SaveRow
<1>3. CASE p # Resetter
  <2>1. inTable' = [inTable EXCEPT ![Field(p)] = saver[p].number]  BY <1>3 DEF SaveRow
  <2>2. QED  BY <1>1, <2>1 DEF AccRest
<1>4. QED  BY <1>2, <1>3

LEMMA AccRestStep == ASSUME AccRest, AccTypes, [NextAcc]_varsAcc PROVE AccRest'
<1>1. saveCount' \in [saves : 0..MaxSaves, slips : 0..MaxSlips]
  <2>1. (\E p \in Entrants : AskSave(p)) \/ Slip \/ UNCHANGED saveCount
    BY DEF NextAcc, varsAcc, ResetRestarts, PanelDies, SaveRow, RefuseSave, ReadFile, FindTorn,
           OpenFails, TruncateFile, WriteFile, WriteFails, SetMemory, EndSave
  <2>2. QED  BY <2>1, SavesCounted
<1>2. inTable' \in [FieldSet \ Basic -> Nat]
  <2>1. inTable' = inTable \/ \E p \in Entrants : SaveRow(p)
    BY DEF NextAcc, varsAcc, ResetRestarts, PanelDies, Restarted, AskSave, RefuseSave, ReadFile,
           FindTorn, OpenFails, TruncateFile, WriteFile, WriteFails, SetMemory, EndSave
  <2>2. QED  BY <2>1, RowSaved DEF AccRest
<1>3. fileTorn' \in {fileTorn, TRUE, FALSE}
  BY DEF NextAcc, varsAcc, ResetRestarts, PanelDies, Restarted, AskSave, SaveRow, RefuseSave,
         ReadFile, FindTorn, OpenFails, TruncateFile, WriteFile, WriteFails, SetMemory, EndSave
<1>4. serving' \in BOOLEAN
  <2>1. serving' = serving \/ Restarted
    BY DEF NextAcc, varsAcc, ResetRestarts, PanelDies, AskSave, SaveRow, RefuseSave,
           ReadFile, FindTorn, OpenFails, TruncateFile, WriteFile, WriteFails, SetMemory, EndSave
  <2>2. CASE Restarted
    <3>1. serving' = ~fileTorn  BY <2>2 DEF Restarted
    <3>2. QED  BY <3>1
  <2>3. QED  BY <2>1, <2>2 DEF AccRest
<1>5. overlapped' \in BOOLEAN
  <2>1. overlapped' = overlapped \/ \E p \in Entrants : ReadFile(p)
    BY DEF NextAcc, varsAcc, ResetRestarts, PanelDies, Restarted, AskSave, SaveRow, RefuseSave,
           FindTorn, OpenFails, TruncateFile, WriteFile, WriteFails, SetMemory, EndSave
  <2>2. ASSUME NEW p \in Entrants, ReadFile(p) PROVE overlapped' \in BOOLEAN
    <3>1. overlapped' = (overlapped \/ \E o \in Entrants \ {p} : Rewriting(o))
      BY <2>2 DEF ReadFile
    <3>2. QED  BY <3>1
  <2>3. QED  BY <2>1, <2>2 DEF AccRest
<1>6. QED  BY <1>1, <1>2, <1>3, <1>4, <1>5 DEF AccRest

\* UpdateSettings, resetAllAdmin: the file, the memory and the table have their
\* types after any request, failed write and restart.
THEOREM AccTyping == SpecAcc => []AccTypeOK
<1>1. InitAcc => AccRest /\ AccInv
  <2> SUFFICES ASSUME InitAcc PROVE AccRest /\ AccInv  OBVIOUS
  <2>1. /\ inTable = [f \in FieldSet \ Basic |-> 0] /\ fileTorn = FALSE /\ serving = TRUE
        /\ overlapped = FALSE /\ saveCount = [saves |-> 0, slips |-> 0]
    BY DEF InitAcc
  <2>2. 0 \in 0..MaxSaves /\ 0 \in 0..MaxSlips  BY AccountsAssumption
  <2>3. saveCount \in [saves : 0..MaxSaves, slips : 0..MaxSlips]  BY <2>1, <2>2
  <2>4. inTable \in [FieldSet \ Basic -> Nat]  BY <2>1
  <2>5. fileTorn \in BOOLEAN /\ serving \in BOOLEAN /\ overlapped \in BOOLEAN  BY <2>1
  <2>6. AccRest  BY <2>3, <2>4, <2>5 DEF AccRest
  <2>7. AccInv  BY AccBegins
  <2>8. QED  BY <2>6, <2>7
<1>2. AccRest /\ AccInv /\ [NextAcc]_varsAcc => AccRest' /\ AccInv'
  BY AccRestStep, AccStep DEF AccInv
<1>3. AccRest /\ AccInv => AccTypeOK
  BY DEF AccRest, AccInv, AccTypes, Saver, AccTypeOK
<1>4. QED  BY <1>1, <1>2, <1>3, PTL DEF SpecAcc

------------------------------------------------------------------------------
(* UPLOADS IN CHUNKS.                                                        *)

Contents == {"none", "part", "whole"} \cup Senders
StoringSteps == {"checked", "writing", "written", "cleared"}
Sending == [step : StoringSteps \cup {"idle", "saving", "complete", "merging", "published"},
            k : 0..ChunkCount, good : BOOLEAN]

UploadTypes ==
  /\ stored \in [ChunkSet -> Contents] /\ temp \in [ChunkSet -> Contents]
  /\ sender \in [Senders -> Sending]
  /\ \A r \in Senders : sender[r].step \in StoringSteps => sender[r].k \in ChunkSet

\* The temporary file of who stores a chunk is its own, or was removed with the
\* session.
HasTemp(r) ==
  /\ sender[r].step = "writing" => temp[sender[r].k] \in {r, "none"}
  /\ sender[r].step \in {"written", "cleared"} => temp[sender[r].k] \in {"whole", "none"}

ChunksWhole ==
  /\ \A k \in ChunkSet : stored[k] \in {"none", "whole"}
  /\ target # "broken" /\ \A r \in Senders : sender[r].good /\ HasTemp(r)
  /\ \A r, o \in Senders, k \in ChunkSet : Storing(r, k) /\ Storing(o, k) => r = o

UploadInv == UploadTypes /\ (shared \/ ChunksWhole)

LEMMA SenderTo ==
    ASSUME UploadTypes, NEW r \in Senders, NEW b \in Sending, sender' = [sender EXCEPT ![r] = b]
    PROVE  /\ sender' \in [Senders -> Sending] /\ sender'[r] = b
           /\ \A o \in Senders \ {r} : sender'[o] = sender[o]
BY DEF UploadTypes

LEMMA NowAt ==
    ASSUME UploadTypes, NEW r \in Senders, NEW s, Now(r, s),
           s \in StoringSteps \cup {"idle", "saving", "complete", "merging", "published"}
    PROVE  /\ sender' \in [Senders -> Sending] /\ sender'[r].step = s
           /\ sender'[r].k = sender[r].k /\ sender'[r].good = sender[r].good
           /\ \A o \in Senders \ {r} : sender'[o] = sender[o]
<1> DEFINE b == [sender[r] EXCEPT !.step = s]
<1>1. b \in Sending /\ b.step = s /\ b.k = sender[r].k /\ b.good = sender[r].good
  BY DEF UploadTypes, Sending
<1>2. sender' = [sender EXCEPT ![r] = b]  BY DEF Now
<1> HIDE DEF b
<1>3. QED  BY <1>1, <1>2, SenderTo

LEMMA StillTyped == Still \in Sending /\ Still.step = "idle" /\ Still.good = TRUE
BY UploadAssumption DEF Still, Sending

LEMMA Answered ==
    ASSUME UploadTypes, NEW r \in Senders, Answer(r)
    PROVE  /\ sender' \in [Senders -> Sending] /\ sender'[r].step = "idle" /\ sender'[r].good
           /\ \A o \in Senders \ {r} : sender'[o] = sender[o]
BY StillTyped, SenderTo DEF Answer

LEMMA SettleTyped ==
    ASSUME NEW content \in [ChunkSet -> Contents], NEW who \in SUBSET Senders,
           NEW as \in {"part", "whole"}
    PROVE  /\ Settle(content, who, as) \in [ChunkSet -> Contents]
           /\ \A k \in ChunkSet : Settle(content, who, as)[k] =
                                  IF content[k] \in who THEN as ELSE content[k]
BY DEF Settle, Contents

\* A request that changes the temporary file of its own chunk, or takes one away.
LEMMA OneSender ==
    ASSUME UploadInv, NEW r \in Senders, UploadTypes', shared' = shared,
           \A o \in Senders \ {r} : sender'[o] = sender[o],
           \A k \in ChunkSet : temp'[k] \in {temp[k], "none"} \/ Storing(r, k) \/ temp[k] = r,
           ChunksWhole => /\ sender'[r].good /\ target' # "broken" /\ HasTemp(r)'
                          /\ \A k \in ChunkSet : stored'[k] \in {"none", "whole"},
           \A k \in ChunkSet : Storing(r, k)' => Storing(r, k)
    PROVE  UploadInv'
<1>1. ASSUME ChunksWhole PROVE ChunksWhole'
  <2>1. ASSUME NEW o \in Senders \ {r} PROVE sender'[o].good /\ HasTemp(o)'
    <3>1. sender'[o] = sender[o] /\ sender[o].good /\ HasTemp(o)  BY <1>1 DEF ChunksWhole
    <3>2. CASE sender[o].step \in StoringSteps
      <4> PICK k \in ChunkSet : k = sender[o].k  BY <3>2 DEF UploadInv, UploadTypes
      <4>1. Storing(o, k)  BY <3>2 DEF Storing, StoringSteps
      <4>2. ~Storing(r, k)  BY <1>1, <4>1 DEF ChunksWhole
      <4>3. sender[o].step # "checked" => temp[k] # r
        BY <3>1, <3>2, UploadAssumption DEF HasTemp, StoringSteps
      <4>4. sender[o].step # "checked" => temp'[k] \in {temp[k], "none"}  BY <4>2, <4>3
      <4>5. QED  BY <3>1, <4>4 DEF HasTemp
    <3>3. CASE sender[o].step \notin StoringSteps  BY <3>1, <3>3 DEF HasTemp, StoringSteps
    <3>4. QED  BY <3>2, <3>3
  <2>2. \A o \in Senders, k \in ChunkSet : Storing(o, k)' => Storing(o, k)  BY DEF Storing
  <2>3. QED  BY <1>1, <2>1, <2>2 DEF ChunksWhole
<1>2. QED  BY <1>1 DEF UploadInv

\* A request that leaves the chunks alone and stores none next.
LEMMA AsideStep ==
    ASSUME UploadInv, NEW r \in Senders, sender' \in [Senders -> Sending], shared' = shared,
           \A o \in Senders \ {r} : sender'[o] = sender[o], UNCHANGED chunkVars,
           sender'[r].step \notin StoringSteps,
           ChunksWhole => sender'[r].good /\ target' # "broken"
    PROVE  UploadInv'
<1>1. UploadTypes'  BY DEF UploadInv, UploadTypes, chunkVars
<1>2. HasTemp(r)' /\ \A k \in ChunkSet : ~Storing(r, k)'
  BY DEF HasTemp, Storing, StoringSteps
<1>3. QED  BY <1>1, <1>2, OneSender DEF ChunksWhole, chunkVars

LEMMA AsideSteps ==
    ASSUME UploadInv, NEW r \in Senders,
           \/ BeginSession(r) \/ SaveSession(r) \/ AskMerge(r) \/ CreateJoined(r)
           \/ CopyChunk(r) \/ Publish(r)
    PROVE  UploadInv'
<1>1. UploadTypes /\ UNCHANGED chunkVars /\ shared' = shared
  BY DEF UploadInv, BeginSession, SaveSession, AskMerge, CreateJoined, CopyChunk, Publish
<1>2. CASE BeginSession(r) \/ SaveSession(r) \/ AskMerge(r) \/ CreateJoined(r)
  <2>1. target' = target
    BY <1>2 DEF BeginSession, SaveSession, AskMerge, CreateJoined, resultVars
  <2>2. \/ Answer(r) \/ \E s \in {"saving", "complete", "merging"} : Now(r, s)
    BY <1>2 DEF BeginSession, SaveSession, AskMerge, CreateJoined
  <2>3. /\ sender' \in [Senders -> Sending] /\ sender'[r].step \notin StoringSteps
        /\ sender[r].good => sender'[r].good
        /\ \A o \in Senders \ {r} : sender'[o] = sender[o]
    <3>1. CASE Answer(r)  BY <1>1, <3>1, Answered DEF StoringSteps
    <3>2. CASE \E s \in {"saving", "complete", "merging"} : Now(r, s)
      BY <1>1, <3>2, NowAt DEF StoringSteps
    <3>3. QED  BY <2>2, <3>1, <3>2
  <2>4. QED  BY <1>1, <2>1, <2>3, AsideStep DEF ChunksWhole
<1>3. CASE CopyChunk(r)
  <2>1. target' = target /\ sender[r].step = "merging" /\ sender[r].k < ChunkCount
    BY <1>3 DEF CopyChunk
  <2>2. sender[r] \in Sending /\ sender[r].k \in ChunkSet
    BY <1>1, <2>1, UploadAssumption DEF UploadTypes, Sending, ChunkSet
  <2>3. CASE Answer(r)  BY <1>1, <2>1, <2>3, Answered, AsideStep DEF StoringSteps, ChunksWhole
  <2>4. CASE /\ stored[sender[r].k] # "none"
             /\ sender' = [sender EXCEPT ![r].k = @ + 1,
                             ![r].good = @ /\ stored[sender[r].k] = "whole"]
    <3> DEFINE b == [sender[r] EXCEPT !.k = @ + 1,
                                      !.good = @ /\ stored[sender[r].k] = "whole"]
    <3>1. sender[r].k + 1 \in 0..ChunkCount  BY <2>1, <2>2, UploadAssumption DEF ChunkSet
    <3>2. b \in Sending /\ b.step = "merging"
          /\ b.good = (sender[r].good /\ stored[sender[r].k] = "whole")
      BY <2>1, <2>2, <3>1 DEF Sending
    <3>3. sender' = [sender EXCEPT ![r] = b]  BY <1>1, <2>4 DEF UploadTypes, Sending
    <3> HIDE DEF b
    <3>4. /\ sender' \in [Senders -> Sending] /\ sender'[r] = b
          /\ \A o \in Senders \ {r} : sender'[o] = sender[o]
      BY <1>1, <3>2, <3>3, SenderTo
    <3>5. ChunksWhole => stored[sender[r].k] = "whole" /\ sender[r].good
      BY <2>2, <2>4 DEF ChunksWhole
    <3>6. QED  BY <1>1, <2>1, <3>2, <3>4, <3>5, AsideStep DEF StoringSteps, ChunksWhole
  <2>5. QED  BY <1>3, <2>3, <2>4 DEF CopyChunk
<1>4. CASE Publish(r)
  <2>1. /\ target' = IF sender[r].good THEN "whole" ELSE "broken"
        /\ Now(r, "published")
    BY <1>4 DEF Publish
  <2>2. /\ sender' \in [Senders -> Sending] /\ sender'[r].step = "published"
        /\ sender'[r].good = sender[r].good /\ \A o \in Senders \ {r} : sender'[o] = sender[o]
    BY <1>1, <2>1, NowAt
  <2>3. QED  BY <1>1, <2>1, <2>2, AsideStep DEF StoringSteps, ChunksWhole
<1>5. QED  BY <1>2, <1>3, <1>4

\* Two at one chunk are shared; otherwise the newcomer is alone.
LEMMA SendChunkStep ==
    ASSUME UploadInv, NEW r \in Senders, NEW k \in ChunkSet, SendChunk(r, k)
    PROVE  UploadInv'
<1> DEFINE b == [Still EXCEPT !.step = "checked", !.k = k]
<1>1. /\ UploadTypes /\ UNCHANGED <<stored, temp, target>>
      /\ shared' = (shared \/ \E o \in Senders \ {r} : Storing(o, k))
      /\ sender' = [sender EXCEPT ![r] = b]
  BY DEF SendChunk, UploadInv, chunkVars, resultVars
<1>2. b \in Sending /\ b.step = "checked" /\ b.k = k /\ b.good = TRUE
  <2>1. k \in 0..ChunkCount  BY UploadAssumption DEF ChunkSet
  <2>2. QED  BY <2>1, StillTyped DEF Sending, StoringSteps
<1> HIDE DEF b
<1>3. /\ sender' \in [Senders -> Sending] /\ sender'[r] = b
      /\ \A o \in Senders \ {r} : sender'[o] = sender[o]
  BY <1>1, <1>2, SenderTo
<1>4. UploadTypes'  BY <1>1, <1>2, <1>3 DEF UploadTypes
<1>5. ASSUME ~shared' PROVE ChunksWhole'
  <2>1. ChunksWhole /\ \A o \in Senders \ {r} : ~Storing(o, k)
    BY <1>1, <1>5 DEF UploadInv
  <2>2. \A o \in Senders : HasTemp(o)'  BY <1>1, <1>2, <1>3, <2>1 DEF ChunksWhole, HasTemp
  <2>3. /\ \A o \in Senders \ {r}, i \in ChunkSet : Storing(o, i)' <=> Storing(o, i)
        /\ \A i \in ChunkSet : Storing(r, i)' => i = k
    BY <1>2, <1>3 DEF Storing
  <2>4. QED  BY <1>1, <1>2, <1>3, <2>1, <2>2, <2>3 DEF ChunksWhole
<1>6. QED  BY <1>4, <1>5 DEF UploadInv

\* The steps of the request that stores a chunk.
LEMMA TempSteps ==
    ASSUME UploadInv, NEW r \in Senders,
           OpenTemp(r) \/ FinishTemp(r) \/ TempFails(r) \/ ClearOld(r) \/ RenameTemp(r)
    PROVE  UploadInv'
<1>1. UploadTypes /\ target' = target /\ shared' = shared
      /\ sender[r].step \in {"checked", "writing", "written", "cleared"}
  BY DEF UploadInv, OpenTemp, FinishTemp, TempFails, ClearOld, RenameTemp, resultVars
<1> PICK k \in ChunkSet : k = sender[r].k  BY <1>1 DEF UploadTypes, StoringSteps
<1>2. Storing(r, k) /\ stored \in [ChunkSet -> Contents] /\ temp \in [ChunkSet -> Contents]
  BY <1>1 DEF Storing, UploadTypes
<1>3. \A i \in ChunkSet : stored[i] = r => stored[i] \notin {"none", "whole"}
  BY UploadAssumption
<1>4. CASE OpenTemp(r)
  <2>1. /\ temp' = [temp EXCEPT ![k] = r] /\ stored' = stored /\ Now(r, "writing")
    BY <1>4 DEF OpenTemp
  <2>2. /\ sender' \in [Senders -> Sending] /\ sender'[r].step = "writing"
        /\ sender'[r].k = k /\ sender'[r].good = sender[r].good
        /\ \A o \in Senders \ {r} : sender'[o] = sender[o]
    BY <1>1, <2>1, NowAt DEF StoringSteps
  <2>3. UploadTypes'  BY <1>1, <1>2, <2>1, <2>2 DEF UploadTypes, Contents
  <2>4. HasTemp(r)'  BY <1>2, <2>1, <2>2 DEF HasTemp
  <2>5. \A i \in ChunkSet : /\ temp'[i] \in {temp[i], "none"} \/ Storing(r, i)
                            /\ Storing(r, i)' => Storing(r, i)
    BY <1>1, <1>2, <2>1, <2>2 DEF Storing
  <2>6. QED  BY <1>1, <2>1, <2>2, <2>3, <2>4, <2>5, OneSender DEF ChunksWhole
<1>5. CASE FinishTemp(r)
  <2>1. /\ temp' = Settle(temp, {r}, "whole") /\ stored' = Settle(stored, {r}, "whole")
        /\ Now(r, "written") /\ sender[r].step = "writing"
    BY <1>5 DEF FinishTemp
  <2>2. /\ sender' \in [Senders -> Sending] /\ sender'[r].step = "written"
        /\ sender'[r].k = k /\ sender'[r].good = sender[r].good
        /\ \A o \in Senders \ {r} : sender'[o] = sender[o]
    BY <1>1, <2>1, NowAt DEF StoringSteps
  <2>3. /\ temp' \in [ChunkSet -> Contents] /\ stored' \in [ChunkSet -> Contents]
        /\ \A i \in ChunkSet : /\ temp'[i] = IF temp[i] = r THEN "whole" ELSE temp[i]
                               /\ stored'[i] = IF stored[i] = r THEN "whole" ELSE stored[i]
    BY <1>2, <2>1, SettleTyped
  <2>4. UploadTypes'  BY <1>1, <2>2, <2>3 DEF UploadTypes
  <2>5. ASSUME ChunksWhole PROVE HasTemp(r)'
    <3>1. temp[k] \in {r, "none"}  BY <2>1, <2>5 DEF ChunksWhole, HasTemp
    <3>2. temp'[k] \in {"whole", "none"}  BY <2>3, <3>1
    <3>3. QED  BY <2>2, <3>2 DEF HasTemp
  <2>6. \A i \in ChunkSet : /\ temp'[i] \in {temp[i], "none"} \/ temp[i] = r
                            /\ Storing(r, i)' => Storing(r, i)
    BY <1>1, <2>2, <2>3 DEF Storing
  <2>7. ChunksWhole => \A i \in ChunkSet : stored'[i] \in {"none", "whole"}
    BY <2>3 DEF ChunksWhole
  <2>8. QED  BY <1>1, <2>2, <2>4, <2>5, <2>6, <2>7, OneSender DEF ChunksWhole
<1>6. CASE TempFails(r)
  <2>1. /\ temp' = Settle(temp, {r}, "part") /\ stored' = Settle(stored, {r}, "part")
        /\ Answer(r)
    BY <1>6 DEF TempFails
  <2>2. /\ sender' \in [Senders -> Sending] /\ sender'[r].step = "idle" /\ sender'[r].good
        /\ \A o \in Senders \ {r} : sender'[o] = sender[o]
    BY <1>1, <2>1, Answered
  <2>3. /\ temp' \in [ChunkSet -> Contents] /\ stored' \in [ChunkSet -> Contents]
        /\ \A i \in ChunkSet : /\ temp[i] # r => temp'[i] = temp[i]
                               /\ stored[i] # r => stored'[i] = stored[i]
    BY <1>2, <2>1, SettleTyped
  <2>4. UploadTypes'  BY <1>1, <2>2, <2>3 DEF UploadTypes, StoringSteps
  <2>5. HasTemp(r)' /\ \A i \in ChunkSet : ~Storing(r, i)'  BY <2>2 DEF HasTemp, Storing
  <2>6. ChunksWhole => \A i \in ChunkSet : stored'[i] \in {"none", "whole"}
    BY <1>3, <2>3 DEF ChunksWhole
  <2>7. QED  BY <1>1, <2>2, <2>3, <2>4, <2>5, <2>6, OneSender DEF ChunksWhole
<1>7. CASE ClearOld(r)
  <2>1. /\ stored' = [stored EXCEPT ![k] = "none"] /\ temp' = temp /\ Now(r, "cleared")
        /\ sender[r].step = "written"
    BY <1>7 DEF ClearOld
  <2>2. /\ sender' \in [Senders -> Sending] /\ sender'[r].step = "cleared"
        /\ sender'[r].k = k /\ sender'[r].good = sender[r].good
        /\ \A o \in Senders \ {r} : sender'[o] = sender[o]
    BY <1>1, <2>1, NowAt DEF StoringSteps
  <2>3. UploadTypes'  BY <1>1, <1>2, <2>1, <2>2 DEF UploadTypes, Contents
  <2>4. ChunksWhole => HasTemp(r)'  BY <2>1, <2>2 DEF HasTemp, ChunksWhole
  <2>5. \A i \in ChunkSet : Storing(r, i)' => Storing(r, i)
    BY <1>1, <2>2 DEF Storing
  <2>6. ChunksWhole => \A i \in ChunkSet : stored'[i] \in {"none", "whole"}
    BY <1>2, <2>1 DEF ChunksWhole
  <2>7. QED  BY <1>1, <2>1, <2>2, <2>3, <2>4, <2>5, <2>6, OneSender DEF ChunksWhole
<1>8. CASE RenameTemp(r)
  <2>1. /\ Answer(r) /\ sender[r].step = "cleared"
        /\ \/ UNCHANGED <<stored, temp>>
           \/ stored' = [stored EXCEPT ![k] = temp[k]] /\ temp' = [temp EXCEPT ![k] = "none"]
    BY <1>8 DEF RenameTemp, chunkVars
  <2>2. /\ sender' \in [Senders -> Sending] /\ sender'[r].step = "idle" /\ sender'[r].good
        /\ \A o \in Senders \ {r} : sender'[o] = sender[o]
    BY <1>1, <2>1, Answered
  <2>3. /\ stored' \in [ChunkSet -> Contents] /\ temp' \in [ChunkSet -> Contents]
        /\ \A i \in ChunkSet : /\ temp'[i] \in {temp[i], "none"}
                               /\ stored'[i] = stored[i] \/ (i = k /\ stored'[i] = temp[k])
    <3>1. "none" \in Contents /\ temp[k] \in Contents  BY <1>2 DEF Contents
    <3>2. CASE UNCHANGED <<stored, temp>>  BY <1>2, <3>2
    <3>3. CASE stored' = [stored EXCEPT ![k] = temp[k]] /\ temp' = [temp EXCEPT ![k] = "none"]
      BY <1>2, <3>1, <3>3
    <3>4. QED  BY <2>1, <3>2, <3>3
  <2>4. UploadTypes'  BY <1>1, <2>2, <2>3 DEF UploadTypes, StoringSteps
  <2>5. HasTemp(r)' /\ \A i \in ChunkSet : ~Storing(r, i)'  BY <2>2 DEF HasTemp, Storing
  <2>6. ChunksWhole => \A i \in ChunkSet : stored'[i] \in {"none", "whole"}
    BY <2>1, <2>3 DEF ChunksWhole, HasTemp
  <2>7. QED  BY <1>1, <2>2, <2>3, <2>4, <2>5, <2>6, OneSender DEF ChunksWhole
<1>9. QED  BY <1>4, <1>5, <1>6, <1>7, <1>8

LEMMA RemoveSessionStep == ASSUME UploadInv, NEW r \in Senders, RemoveSession(r) PROVE UploadInv'
<1>1. /\ UploadTypes /\ target' = target /\ shared' = shared /\ Answer(r)
      /\ stored' = [k \in ChunkSet |-> "none"] /\ temp' = [k \in ChunkSet |-> "none"]
  BY DEF RemoveSession, UploadInv, resultVars
<1>2. /\ sender' \in [Senders -> Sending] /\ sender'[r].step = "idle" /\ sender'[r].good
      /\ \A o \in Senders \ {r} : sender'[o] = sender[o]
  BY <1>1, Answered
<1>3. UploadTypes'  BY <1>1, <1>2 DEF UploadTypes, StoringSteps, Contents
<1>4. HasTemp(r)' /\ \A i \in ChunkSet : ~Storing(r, i)'  BY <1>2 DEF HasTemp, Storing
<1>5. QED  BY <1>1, <1>2, <1>3, <1>4, OneSender DEF ChunksWhole

LEMMA UploadsStopStep == ASSUME UploadInv, UploadsStop PROVE UploadInv'
<1>1. /\ UploadTypes /\ target' = target /\ shared' = shared
      /\ temp' = Settle(temp, Senders, "part") /\ stored' = Settle(stored, Senders, "part")
      /\ sender' = [r \in Senders |-> Still]
  BY DEF UploadsStop, UploadInv, resultVars
<1>2. /\ temp' \in [ChunkSet -> Contents] /\ stored' \in [ChunkSet -> Contents]
      /\ \A k \in ChunkSet : stored[k] \notin Senders => stored'[k] = stored[k]
  BY <1>1, SettleTyped DEF UploadTypes
<1>3. UploadTypes'  BY <1>1, <1>2, StillTyped DEF UploadTypes, StoringSteps
<1>4. ASSUME ChunksWhole PROVE ChunksWhole'
  <2>1. \A k \in ChunkSet : stored'[k] \in {"none", "whole"}
    BY <1>2, <1>4, UploadAssumption DEF ChunksWhole
  <2>2. QED  BY <1>1, <1>4, <2>1, StillTyped DEF ChunksWhole, HasTemp, Storing
<1>5. QED  BY <1>1, <1>3, <1>4 DEF UploadInv

LEMMA UploadsStep == ASSUME UploadInv, [NextUpload]_varsUpload PROVE UploadInv'
<1>1. CASE UNCHANGED varsUpload
  BY <1>1 DEF varsUpload, chunkVars, resultVars, UploadInv, UploadTypes, ChunksWhole, HasTemp,
              Storing
<1>2. CASE UploadsStop  BY <1>2, UploadsStopStep
<1>3. ASSUME NEW r \in Senders,
             \/ BeginSession(r) \/ SaveSession(r)
             \/ \E k \in ChunkSet : SendChunk(r, k)
             \/ OpenTemp(r) \/ FinishTemp(r) \/ TempFails(r) \/ ClearOld(r) \/ RenameTemp(r)
             \/ AskMerge(r) \/ CreateJoined(r) \/ CopyChunk(r) \/ Publish(r)
             \/ RemoveSession(r)
      PROVE  UploadInv'
  BY <1>3, AsideSteps, SendChunkStep, TempSteps, RemoveSessionStep
<1>4. QED  BY <1>1, <1>2, <1>3 DEF NextUpload

\* There is nothing at first.
LEMMA UploadBegins == ASSUME InitUpload PROVE UploadInv
<1>1. /\ stored = [k \in ChunkSet |-> "none"] /\ temp = stored /\ target = "none"
      /\ sender = [r \in Senders |-> Still]
  BY DEF InitUpload
<1>2. UploadTypes  BY <1>1, StillTyped DEF UploadTypes, Contents, StoringSteps
<1>3. ChunksWhole  BY <1>1, StillTyped DEF ChunksWhole, HasTemp, Storing
<1>4. QED  BY <1>2, <1>3 DEF UploadInv

\* UploadChunk, UploadComplete: for any number of requests, chunks, failed writes
\* and restarts, a merge puts a whole file in place, unless two requests were
\* storing one chunk at a time.
THEOREM UploadIntact == SpecUpload => []TargetIntact
<1>1. InitUpload => UploadInv  BY UploadBegins
<1>2. UploadInv /\ [NextUpload]_varsUpload => UploadInv'  BY UploadsStep
<1>3. UploadInv => TargetIntact  BY DEF UploadInv, ChunksWhole, TargetIntact
<1>4. QED  BY <1>1, <1>2, <1>3, PTL DEF SpecUpload

(* Types. *)

\* The session, the results and the bounds.
UploadRest ==
  /\ session \in {"none", "torn", "whole"} /\ target \in {"none", "whole", "broken"}
  /\ joined \in BOOLEAN /\ shared \in BOOLEAN
  /\ sentCount \in [sent : 0..MaxSent, cuts : 0..MaxCuts]

LEMMA SentTyped ==
  ASSUME UploadRest, (\E r \in Senders : Send(r)) \/ Cut \/ UNCHANGED sentCount
  PROVE  sentCount' \in [sent : 0..MaxSent, cuts : 0..MaxCuts]
<1>1. sentCount \in [sent : 0..MaxSent, cuts : 0..MaxCuts]  BY DEF UploadRest
<1>2. ASSUME NEW r \in Senders, Send(r) PROVE sentCount' \in [sent : 0..MaxSent, cuts : 0..MaxCuts]
  <2>1. sentCount.sent + 1 \in 0..MaxSent  BY <1>1, <1>2, UploadAssumption DEF Send
  <2>2. sentCount' = [sentCount EXCEPT !.sent = sentCount.sent + 1]  BY <1>2 DEF Send
  <2>3. QED  BY <1>1, <2>1, <2>2
<1>3. CASE Cut
  <2>1. sentCount.cuts + 1 \in 0..MaxCuts  BY <1>1, <1>3, UploadAssumption DEF Cut
  <2>2. sentCount' = [sentCount EXCEPT !.cuts = sentCount.cuts + 1]  BY <1>3 DEF Cut
  <2>3. QED  BY <1>1, <2>1, <2>2
<1>4. QED  BY <1>1, <1>2, <1>3

LEMMA UploadRestStep == ASSUME UploadRest, [NextUpload]_varsUpload PROVE UploadRest'
<1>1. sentCount' \in [sent : 0..MaxSent, cuts : 0..MaxCuts]
  <2>1. (\E r \in Senders : Send(r)) \/ Cut \/ UNCHANGED sentCount
    BY DEF NextUpload, varsUpload, UploadsStop, BeginSession, SaveSession, SendChunk, OpenTemp,
           FinishTemp, TempFails, ClearOld, RenameTemp, AskMerge, CreateJoined, CopyChunk,
           Publish, RemoveSession
  <2>2. QED  BY <2>1, SentTyped
<1>2. session' \in {session, "torn", "whole", "none"}
  BY DEF NextUpload, varsUpload, UploadsStop, BeginSession, SaveSession, SendChunk, OpenTemp,
         FinishTemp, TempFails, ClearOld, RenameTemp, AskMerge, CreateJoined, CopyChunk,
         Publish, RemoveSession
<1>3. target' \in {target, "whole", "broken"} /\ joined' \in {joined, TRUE, FALSE}
  BY DEF NextUpload, varsUpload, UploadsStop, BeginSession, SaveSession, SendChunk, OpenTemp,
         FinishTemp, TempFails, ClearOld, RenameTemp, AskMerge, CreateJoined, CopyChunk,
         Publish, RemoveSession, resultVars
<1>4. shared' \in BOOLEAN
  <2>1. shared' = shared \/ \E r \in Senders, k \in ChunkSet : SendChunk(r, k)
    BY DEF NextUpload, varsUpload, UploadsStop, BeginSession, SaveSession, OpenTemp,
           FinishTemp, TempFails, ClearOld, RenameTemp, AskMerge, CreateJoined, CopyChunk,
           Publish, RemoveSession
  <2>2. ASSUME NEW r \in Senders, NEW k \in ChunkSet, SendChunk(r, k) PROVE shared' \in BOOLEAN
    <3>1. shared' = (shared \/ \E o \in Senders \ {r} : Storing(o, k))  BY <2>2 DEF SendChunk
    <3>2. QED  BY <3>1
  <2>3. QED  BY <2>1, <2>2 DEF UploadRest
<1>5. QED  BY <1>1, <1>2, <1>3, <1>4 DEF UploadRest

\* UploadInit, UploadChunk, UploadComplete: a chunk, its temporary file and a
\* request have their types after any request, failed write and restart.
THEOREM UploadTyping == SpecUpload => []UploadTypeOK
<1>1. InitUpload => UploadRest /\ UploadInv
  <2> SUFFICES ASSUME InitUpload PROVE UploadRest /\ UploadInv  OBVIOUS
  <2>1. /\ session = "none" /\ joined = FALSE /\ target = "none" /\ shared = FALSE
        /\ sentCount = [sent |-> 0, cuts |-> 0]
    BY DEF InitUpload
  <2>2. 0 \in 0..MaxSent /\ 0 \in 0..MaxCuts  BY UploadAssumption
  <2>5. sentCount \in [sent : 0..MaxSent, cuts : 0..MaxCuts]  BY <2>1, <2>2
  <2>6. UploadRest
    <3>1. joined \in BOOLEAN /\ shared \in BOOLEAN  BY <2>1
    <3>2. QED  BY <2>1, <2>5, <3>1 DEF UploadRest
  <2>7. UploadInv  BY UploadBegins
  <2>8. QED  BY <2>6, <2>7
<1>2. UploadRest /\ UploadInv /\ [NextUpload]_varsUpload => UploadRest' /\ UploadInv'
  BY UploadRestStep, UploadsStep
<1>3. UploadRest /\ UploadInv => UploadTypeOK
  BY DEF UploadRest, UploadInv, UploadTypes, Contents, Sending, StoringSteps, UploadTypeOK
<1>4. QED  BY <1>1, <1>2, <1>3, PTL DEF SpecUpload

------------------------------------------------------------------------------
(* THE PASSWORD OF A SITE'S DATABASE.  An operation in flight that no other   *)
(* has crossed has left the two stores as its step says, so the stores agree  *)
(* whenever no crossed operation is in flight, the task that has written the  *)
(* new password and not yet given it to MariaDB excepted: what it would write *)
(* back is then what MariaDB accepts.                                         *)

ChangeSteps == {"none", "read", "written", "altered", "undo"}
ReinstallSteps == {"none", "deploying", "dropped", "created"}

CredTypes ==
  /\ configFile \in Nat /\ accepted \in Nat
  /\ change \in [step : ChangeSteps, old : Nat, new : Nat]
  /\ change.step # "none" => change.old # 0 /\ change.new # 0
  /\ copy \in [Rewriters -> Nat]
  /\ reinstall \in [Reinstallers -> [step : ReinstallSteps, new : Nat]]
  /\ \A h \in Reinstallers : reinstall[h].step # "none" => reinstall[h].new # 0
  /\ crossed \subseteq Busy /\ tainted \in BOOLEAN
  /\ credCount \in [requests : Nat, faults : Nat] /\ credCount.requests # 0

WorkerHas ==
  "worker" \notin crossed =>
    /\ change.step = "read" => configFile = change.old
    /\ change.step \in {"written", "undo", "altered"} => configFile = change.new
    /\ change.step = "altered" => accepted = change.new
RewriterHas(h) == h \notin crossed /\ copy[h] # 0 => configFile = copy[h]
ReinstallerHas(h) ==
  h \notin crossed =>
    /\ reinstall[h].step # "none" => configFile = 0
    /\ reinstall[h].step = "created" => accepted = reinstall[h].new
StoresFit ==
  IF change.step \in {"written", "undo"} THEN change.old = accepted
  ELSE configFile = 0 \/ configFile = accepted
Undoubted == tainted \/ crossed # {} \/ StoresFit

CredClaims ==
  /\ WorkerHas
  /\ \A h \in Rewriters : RewriterHas(h)
  /\ \A h \in Reinstallers : ReinstallerHas(h)
CredInv == CredTypes /\ CredClaims /\ Undoubted

\* What a step of a leaves of the list of those crossed.
Beside(a) ==
  /\ (crossed \cup Crossed(a)) \ {a} \subseteq crossed'
  /\ crossed' \subseteq crossed \cup Crossed(a)

\* An operation another's step does not cross finds both passwords as they were.
LEMMA NotCrossed ==
  ASSUME NEW a, NEW b, b \in Busy, b # a, b \notin crossed', Beside(a)
  PROVE  b \notin crossed /\ configFile' = configFile /\ (b \notin Rewriters => accepted' = accepted)
BY DEF Beside, Crossed

LEMMA WorkerKept ==
  ASSUME CredInv, NEW a, a # "worker", Beside(a), change' = change PROVE WorkerHas'
<1>1. ASSUME "worker" \notin crossed', change.step # "none"
      PROVE  WorkerHas /\ "worker" \notin crossed /\ configFile' = configFile
               /\ accepted' = accepted
  <2>1. "worker" \in Busy  BY <1>1 DEF Busy
  <2>2. QED  BY <1>1, <2>1, NotCrossed, CredAssumption DEF CredInv, CredClaims
<1>2. QED  BY <1>1 DEF WorkerHas

LEMMA RewriterKept ==
  ASSUME CredInv, NEW a, NEW h \in Rewriters, h # a, Beside(a), copy'[h] = copy[h]
  PROVE  RewriterHas(h)'
<1>1. ASSUME h \notin crossed', copy[h] # 0
      PROVE  RewriterHas(h) /\ h \notin crossed /\ configFile' = configFile
  <2>1. h \in Busy  BY <1>1 DEF Busy
  <2>2. QED  BY <1>1, <2>1, NotCrossed DEF CredInv, CredClaims
<1>2. QED  BY <1>1 DEF RewriterHas

LEMMA ReinstallerKept ==
  ASSUME CredInv, NEW a, NEW h \in Reinstallers, h # a, Beside(a),
         reinstall'[h] = reinstall[h]
  PROVE  ReinstallerHas(h)'
<1>1. ASSUME h \notin crossed', reinstall[h].step # "none"
      PROVE  ReinstallerHas(h) /\ h \notin crossed /\ configFile' = configFile
               /\ accepted' = accepted
  <2>1. h \in Busy  BY <1>1 DEF Busy
  <2>2. QED  BY <1>1, <2>1, NotCrossed, CredAssumption DEF CredInv, CredClaims
<1>2. QED  BY <1>1 DEF ReinstallerHas

\* Only operations in flight are crossed, before the step of one and after it.
LEMMA CrossedBusy ==
  ASSUME crossed \subseteq Busy, NEW a, Beside(a), Busy \ {a} \subseteq Busy',
         a \in Busy' \/ a \notin crossed'
  PROVE  (crossed \subseteq Busy)'
BY DEF Beside, Crossed

\* The history that a step writes.
Ceases(a) == Settles(a) \/ \E c \in BOOLEAN : Completes(a, c)

LEMMA HistoryKept ==
  ASSUME CredTypes, NEW a, Goes(a) \/ Ceases(a)
  PROVE  Beside(a) /\ tainted' \in BOOLEAN /\ (Ceases(a) => a \notin crossed')
<1>1. Ceases(a) => crossed' = (crossed \cup Crossed(a)) \ {a}
  BY DEF Ceases, Settles, Completes
<1>2. Goes(a) => crossed' = crossed \cup Crossed(a)  BY DEF Goes
<1>3. Beside(a) /\ (Ceases(a) => a \notin crossed')  BY <1>1, <1>2 DEF Beside
<1>4. tainted' \in BOOLEAN
  <2>1. CASE Goes(a)  BY <2>1 DEF Goes, CredTypes
  <2>2. CASE Settles(a)  BY <2>2 DEF Settles
  <2>3. CASE \E c \in BOOLEAN : Completes(a, c)  BY <2>3 DEF Completes
  <2>4. QED  BY <2>1, <2>2, <2>3 DEF Ceases
<1>5. QED  BY <1>3, <1>4

\* A step that leaves the passwords and the list of those crossed.
LEMMA QuietBeside ==
  ASSUME UNCHANGED <<configFile, accepted, crossed>>, NEW a PROVE Beside(a)
BY DEF Beside, Crossed

LEMMA RequestTyped ==
  ASSUME CredTypes, Request
  PROVE  credCount' \in [requests : Nat, faults : Nat] /\ credCount'.requests \in Nat \ {0}
<1>1. credCount \in [requests : Nat, faults : Nat]  BY DEF CredTypes
<1>2. credCount' = [credCount EXCEPT !.requests = credCount.requests + 1]  BY DEF Request
<1>3. credCount'.requests = credCount.requests + 1  BY <1>1, <1>2
<1>4. QED  BY <1>1, <1>2, <1>3

LEMMA FaultTyped ==
  ASSUME CredTypes, Fault \/ UNCHANGED credCount
  PROVE  credCount' \in [requests : Nat, faults : Nat] /\ credCount'.requests # 0
<1>1. credCount \in [requests : Nat, faults : Nat] /\ credCount.requests # 0  BY DEF CredTypes
<1>2. CASE UNCHANGED credCount  BY <1>1, <1>2
<1>3. CASE Fault
  <2>1. credCount' = [credCount EXCEPT !.faults = credCount.faults + 1]  BY <1>3 DEF Fault
  <2>2. QED  BY <1>1, <2>1
<1>4. QED  BY <1>2, <1>3

(* The task of the worker. *)

\* A step of the worker, in the fields it may change.
WorkerMoves ==
  /\ Beside("worker") /\ UNCHANGED <<copy, reinstall>>
  /\ configFile' \in Nat /\ accepted' \in Nat /\ tainted' \in BOOLEAN
  /\ change' \in [step : ChangeSteps, old : Nat, new : Nat]
  /\ change'.step # "none" => change'.old # 0 /\ change'.new # 0
  /\ change'.step # "none" \/ "worker" \notin crossed'
  /\ credCount' \in [requests : Nat, faults : Nat] /\ credCount'.requests # 0

LEMMA WorkerMovesKeep ==
  ASSUME CredInv, WorkerMoves, WorkerHas', Undoubted' PROVE CredInv'
<1>1. \A h \in Rewriters : RewriterHas(h)'
  BY RewriterKept, CredAssumption DEF WorkerMoves
<1>2. \A h \in Reinstallers : ReinstallerHas(h)'
  BY ReinstallerKept, CredAssumption DEF WorkerMoves
<1>3. (crossed \subseteq Busy)'
  <2>1. Busy \ {"worker"} \subseteq Busy'  BY DEF WorkerMoves, Busy
  <2>2. "worker" \in Busy' \/ "worker" \notin crossed'  BY DEF WorkerMoves, Busy
  <2>3. QED  BY <2>1, <2>2, CrossedBusy DEF CredInv, CredTypes, WorkerMoves
<1>4. CredTypes'  BY <1>3 DEF CredInv, CredTypes, WorkerMoves
<1>5. QED  BY <1>1, <1>2, <1>4 DEF CredInv, CredClaims

\* The facts of a task in flight that its steps start from.
LEMMA ChangeFacts ==
  ASSUME CredInv
  PROVE  /\ change \in [step : ChangeSteps, old : Nat, new : Nat]
         /\ change.step # "none" => change.old # 0 /\ change.new # 0 /\ "worker" \in Busy
         /\ configFile \in Nat /\ accepted \in Nat /\ tainted \in BOOLEAN
         /\ credCount \in [requests : Nat, faults : Nat] /\ credCount.requests # 0
         /\ WorkerHas /\ Undoubted /\ CredTypes /\ crossed \subseteq Busy
BY DEF CredInv, CredTypes, CredClaims, Busy

LEMMA UnchangingTyped ==
  Unchanging \in [step : ChangeSteps, old : Nat, new : Nat] /\ Unchanging.step = "none"
BY DEF Unchanging, ChangeSteps

LEMMA ReadForChangeStep == ASSUME CredInv, ReadForChange PROVE CredInv'
<1>1. /\ UNCHANGED <<configFile, accepted, copy, reinstall, crossed, tainted>>
      /\ change.step = "none" /\ configFile # 0 /\ Request
      /\ change' = [step |-> "read", old |-> configFile, new |-> credCount'.requests]
  BY DEF ReadForChange
<1>2. credCount' \in [requests : Nat, faults : Nat] /\ credCount'.requests \in Nat \ {0}
  BY <1>1, RequestTyped, ChangeFacts
<1>3. /\ change' \in [step : ChangeSteps, old : Nat, new : Nat]
      /\ change'.step = "read" /\ change'.old = configFile /\ change'.new # 0
  BY <1>1, <1>2, ChangeFacts DEF ChangeSteps
<1>4. WorkerMoves  BY <1>1, <1>2, <1>3, QuietBeside, ChangeFacts DEF WorkerMoves
<1>5. WorkerHas'  BY <1>1, <1>3 DEF WorkerHas
<1>6. Undoubted'  BY <1>1, <1>3, ChangeFacts DEF Undoubted, StoresFit
<1>7. QED  BY <1>4, <1>5, <1>6, WorkerMovesKeep

LEMMA WriteNewStep == ASSUME CredInv, WriteNew PROVE CredInv'
<1>1. /\ UNCHANGED <<accepted, copy, reinstall, credCount>> /\ Goes("worker")
      /\ change.step = "read" /\ configFile' = change.new
      /\ change' = [change EXCEPT !.step = "written"]
  BY DEF WriteNew
<1>2. Beside("worker") /\ tainted' \in BOOLEAN  BY <1>1, HistoryKept, ChangeFacts
<1>3. /\ change' \in [step : ChangeSteps, old : Nat, new : Nat]
      /\ change'.step = "written" /\ change'.old = change.old /\ change'.new = change.new
  BY <1>1, ChangeFacts DEF ChangeSteps
<1>4. WorkerMoves  BY <1>1, <1>2, <1>3, ChangeFacts DEF WorkerMoves
<1>5. WorkerHas'  BY <1>1, <1>3 DEF WorkerHas
<1>6. Undoubted'
  <2>1. SUFFICES ASSUME ~tainted', crossed' = {} PROVE change'.old = accepted'
    BY <1>3 DEF Undoubted, StoresFit
  <2>2. ~tainted /\ crossed = {}  BY <1>1, <2>1 DEF Goes
  <2>3. configFile = change.old /\ (configFile = 0 \/ configFile = accepted)
    BY <1>1, <2>2, ChangeFacts DEF WorkerHas, Undoubted, StoresFit
  <2>4. QED  BY <1>1, <1>3, <2>3, ChangeFacts
<1>7. QED  BY <1>4, <1>5, <1>6, WorkerMovesKeep

\* The task ends with nothing to settle, or with both passwords its own.
LEMMA ChangeEnds ==
  ASSUME CredInv, change' = Unchanging, UNCHANGED <<accepted, copy, reinstall>>,
         configFile' \in Nat, Fault \/ UNCHANGED credCount,
         Ceases("worker"),
         ~tainted' /\ crossed' = {} => configFile' = 0 \/ configFile' = accepted
  PROVE  CredInv'
<1>1. Beside("worker") /\ tainted' \in BOOLEAN  BY HistoryKept, ChangeFacts
<1>2. "worker" \notin crossed'  BY HistoryKept, ChangeFacts
<1>3. WorkerMoves
  BY <1>1, <1>2, UnchangingTyped, FaultTyped, ChangeFacts DEF WorkerMoves
<1>4. WorkerHas' /\ Undoubted'  BY UnchangingTyped DEF WorkerHas, Undoubted, StoresFit
<1>5. QED  BY <1>3, <1>4, WorkerMovesKeep

LEMMA ChangeEndSteps ==
  ASSUME CredInv, WriteNewFails \/ Flush \/ WriteOld \/ WriteOldFails PROVE CredInv'
<1>1. CASE WriteNewFails
  <2>1. /\ change' = Unchanging /\ UNCHANGED <<accepted, copy, reinstall>>
        /\ configFile' \in {configFile, 0} /\ Fault /\ change.step = "read"
        /\ Completes("worker", FALSE)
    BY <1>1 DEF WriteNewFails
  <2>2. ASSUME ~tainted', crossed' = {} PROVE configFile' = 0 \/ configFile' = accepted
    BY <2>1, <2>2, ChangeFacts DEF Completes, Undoubted, StoresFit
  <2>3. configFile' \in Nat  BY <2>1, ChangeFacts
  <2>4. Ceases("worker")  BY <2>1 DEF Ceases
  <2>5. QED  BY <2>1, <2>2, <2>3, <2>4, ChangeEnds
<1>2. CASE Flush
  <2>1. /\ change' = Unchanging /\ UNCHANGED <<configFile, accepted, copy, reinstall, credCount>>
        /\ change.step = "altered" /\ Settles("worker")
    BY <1>2 DEF Flush
  <2>2. ASSUME ~tainted', crossed' = {} PROVE configFile' = 0 \/ configFile' = accepted
    BY <2>1, <2>2, ChangeFacts DEF Settles, WorkerHas
  <2>3. configFile' \in Nat  BY <2>1, ChangeFacts
  <2>4. Ceases("worker")  BY <2>1 DEF Ceases
  <2>5. QED  BY <2>1, <2>2, <2>3, <2>4, ChangeEnds
<1>3. CASE WriteOld
  <2>1. /\ change' = Unchanging /\ UNCHANGED <<accepted, copy, reinstall, credCount>>
        /\ configFile' = change.old /\ change.step = "undo" /\ Completes("worker", FALSE)
    BY <1>3 DEF WriteOld
  <2>2. ASSUME ~tainted', crossed' = {} PROVE configFile' = 0 \/ configFile' = accepted
    BY <2>1, <2>2, ChangeFacts DEF Completes, Undoubted, StoresFit
  <2>3. configFile' \in Nat  BY <2>1, ChangeFacts
  <2>4. Ceases("worker")  BY <2>1 DEF Ceases
  <2>5. QED  BY <2>1, <2>2, <2>3, <2>4, ChangeEnds
<1>4. CASE WriteOldFails
  <2>1. /\ change' = Unchanging /\ UNCHANGED <<accepted, copy, reinstall>> /\ Fault
        /\ configFile' \in {configFile, 0} /\ Completes("worker", TRUE)
    BY <1>4 DEF WriteOldFails
  <2>2. ASSUME ~tainted', crossed' = {} PROVE configFile' = 0 \/ configFile' = accepted
    BY <2>1, <2>2 DEF Completes
  <2>3. configFile' \in Nat  BY <2>1, ChangeFacts
  <2>4. Ceases("worker")  BY <2>1 DEF Ceases
  <2>5. QED  BY <2>1, <2>2, <2>3, <2>4, ChangeEnds
<1>5. QED  BY <1>1, <1>2, <1>3, <1>4

LEMMA AlterStep == ASSUME CredInv, Alter PROVE CredInv'
<1>1. /\ UNCHANGED <<configFile, copy, reinstall, credCount>> /\ Goes("worker")
      /\ change.step = "written" /\ accepted' = change.new
      /\ change' = [change EXCEPT !.step = "altered"]
  BY DEF Alter
<1>2. Beside("worker") /\ tainted' \in BOOLEAN  BY <1>1, HistoryKept, ChangeFacts
<1>3. /\ change' \in [step : ChangeSteps, old : Nat, new : Nat]
      /\ change'.step = "altered" /\ change'.old = change.old /\ change'.new = change.new
  BY <1>1, ChangeFacts DEF ChangeSteps
<1>4. WorkerMoves  BY <1>1, <1>2, <1>3, ChangeFacts DEF WorkerMoves
<1>5. "worker" \notin crossed' => configFile' = change.new
  BY <1>1, ChangeFacts DEF Goes, WorkerHas
<1>6. WorkerHas'  BY <1>1, <1>3, <1>5 DEF WorkerHas
<1>7. Undoubted'  BY <1>1, <1>3, <1>5 DEF Undoubted, StoresFit
<1>8. QED  BY <1>4, <1>6, <1>7, WorkerMovesKeep

LEMMA UndoSteps == ASSUME CredInv, AlterFails \/ FlushFails PROVE CredInv'
<1>1. /\ UNCHANGED <<configFile, accepted, copy, reinstall, crossed>>
      /\ change.step \in {"written", "altered"} /\ change' = [change EXCEPT !.step = "undo"]
      /\ tainted' = TRUE \/ (tainted' = tainted /\ change.step = "written")
      /\ Fault \/ UNCHANGED credCount
  BY DEF AlterFails, FlushFails
<1>2. /\ change' \in [step : ChangeSteps, old : Nat, new : Nat]
      /\ change'.step = "undo" /\ change'.old = change.old /\ change'.new = change.new
  BY <1>1, ChangeFacts DEF ChangeSteps
<1>3. WorkerMoves
  BY <1>1, <1>2, QuietBeside, FaultTyped, ChangeFacts DEF WorkerMoves
<1>4. WorkerHas'  BY <1>1, <1>2, ChangeFacts DEF WorkerHas
<1>5. Undoubted'  BY <1>1, <1>2, ChangeFacts DEF Undoubted, StoresFit
<1>6. QED  BY <1>3, <1>4, <1>5, WorkerMovesKeep

(* The handlers that rewrite the file for another line of it. *)

\* The facts a step of a handler starts from.
LEMMA HandlerFacts ==
  ASSUME CredInv
  PROVE  /\ CredTypes /\ configFile \in Nat /\ accepted \in Nat /\ Undoubted
         /\ copy \in [Rewriters -> Nat]
         /\ reinstall \in [Reinstallers -> [step : ReinstallSteps, new : Nat]]
         /\ \A h \in Reinstallers : reinstall[h].step # "none" => reinstall[h].new # 0
         /\ \A h \in Rewriters : RewriterHas(h)
         /\ \A h \in Reinstallers : ReinstallerHas(h)
         /\ "worker" \notin crossed =>
              (change.step \in {"written", "undo"} => configFile = change.new /\ change.new # 0)
BY DEF CredInv, CredTypes, CredClaims, WorkerHas

RewriterMoves(h) ==
  /\ Beside(h) /\ UNCHANGED <<accepted, change, reinstall>>
  /\ configFile' \in Nat /\ tainted' \in BOOLEAN
  /\ copy' \in [Rewriters -> Nat]
  /\ \A o \in Rewriters \ {h} : copy'[o] = copy[o]
  /\ copy'[h] # 0 \/ h \notin crossed'
  /\ credCount' \in [requests : Nat, faults : Nat] /\ credCount'.requests # 0

LEMMA RewriterMovesKeep ==
  ASSUME CredInv, NEW h \in Rewriters, RewriterMoves(h), RewriterHas(h)', Undoubted'
  PROVE  CredInv'
<1>1. WorkerHas'  BY WorkerKept, CredAssumption DEF RewriterMoves
<1>2. \A o \in Rewriters : RewriterHas(o)'
  <2>1. ASSUME NEW o \in Rewriters \ {h} PROVE RewriterHas(o)'
    BY <2>1, RewriterKept DEF RewriterMoves
  <2>2. QED  BY <2>1
<1>3. \A o \in Reinstallers : ReinstallerHas(o)'
  BY ReinstallerKept, CredAssumption DEF RewriterMoves
<1>4. (crossed \subseteq Busy)'
  <2>1. Busy \ {h} \subseteq Busy'  BY DEF RewriterMoves, Busy
  <2>2. h \in Busy' \/ h \notin crossed'  BY DEF RewriterMoves, Busy
  <2>3. QED  BY <2>1, <2>2, CrossedBusy DEF CredInv, CredTypes, RewriterMoves
<1>5. CredTypes'  BY <1>4 DEF CredInv, CredTypes, RewriterMoves
<1>6. QED  BY <1>1, <1>2, <1>3, <1>5 DEF CredInv, CredClaims

\* When a handler's step leaves nobody in doubt, a task in flight was not crossed.
LEMMA NobodyCrossed ==
  ASSUME CredInv, NEW h, h # "worker", Beside(h), crossed' = {},
         change.step \in {"written", "undo"}
  PROVE  "worker" \notin crossed /\ configFile' = configFile /\ accepted' = accepted
<1>1. "worker" \in Busy  BY DEF Busy
<1>2. QED  BY <1>1, NotCrossed, CredAssumption

LEMMA RewriterSteps ==
  ASSUME CredInv, NEW h \in Rewriters, ReadConfig(h) \/ WriteBack(h) \/ WriteBackFails(h)
  PROVE  CredInv'
<1>1. h # "worker"  BY CredAssumption
<1>2. CASE ReadConfig(h)
  <2>1. /\ UNCHANGED <<configFile, accepted, change, reinstall, crossed, tainted>>
        /\ copy' = [copy EXCEPT ![h] = configFile] /\ configFile # 0 /\ Request
    BY <1>2 DEF ReadConfig
  <2>2. RewriterMoves(h)
    BY <2>1, QuietBeside, RequestTyped, HandlerFacts DEF RewriterMoves, CredTypes
  <2>3. RewriterHas(h)'  BY <2>1, HandlerFacts DEF RewriterHas
  <2>4. Undoubted'  BY <2>1, HandlerFacts DEF Undoubted, StoresFit
  <2>5. QED  BY <2>2, <2>3, <2>4, RewriterMovesKeep
<1>3. CASE WriteBack(h) \/ WriteBackFails(h)
  <2>1. /\ UNCHANGED <<accepted, change, reinstall>> /\ Completes(h, FALSE)
        /\ copy' = [copy EXCEPT ![h] = 0] /\ copy[h] # 0
        /\ configFile' \in {configFile, 0, copy[h]} /\ (Fault \/ UNCHANGED credCount)
    BY <1>3 DEF WriteBack, WriteBackFails
  <2>2. Ceases(h)  BY <2>1 DEF Ceases
  <2>3. Beside(h) /\ tainted' \in BOOLEAN /\ h \notin crossed'
    BY <2>2, HistoryKept, HandlerFacts
  <2>4. copy' \in [Rewriters -> Nat] /\ copy[h] \in Nat /\ copy'[h] = 0
    BY <2>1, HandlerFacts
  <2>5. RewriterMoves(h)
    BY <2>1, <2>3, <2>4, FaultTyped, HandlerFacts DEF RewriterMoves
  <2>6. RewriterHas(h)'  BY <2>4 DEF RewriterHas
  <2>7. Undoubted'
    <3>1. SUFFICES ASSUME ~tainted', crossed' = {} PROVE StoresFit'  BY DEF Undoubted
    <3>2. ~tainted /\ h \notin crossed /\ crossed = {}
      BY <2>1, <3>1 DEF Completes
    <3>3. configFile' \in {configFile, 0}  BY <2>1, <3>2, HandlerFacts DEF RewriterHas
    <3>4. StoresFit  BY <3>2, HandlerFacts DEF Undoubted
    <3>5. QED  BY <2>1, <3>3, <3>4 DEF StoresFit
  <2>8. QED  BY <2>5, <2>6, <2>7, RewriterMovesKeep
<1>4. QED  BY <1>2, <1>3

(* ReinstallWordPress. *)

ReinstallerMoves(h) ==
  /\ Beside(h) /\ UNCHANGED <<change, copy>>
  /\ configFile' \in Nat /\ accepted' \in Nat /\ tainted' \in BOOLEAN
  /\ reinstall' \in [Reinstallers -> [step : ReinstallSteps, new : Nat]]
  /\ \A o \in Reinstallers \ {h} : reinstall'[o] = reinstall[o]
  /\ reinstall'[h].step # "none" => reinstall'[h].new # 0
  /\ reinstall'[h].step # "none" \/ h \notin crossed'
  /\ credCount' \in [requests : Nat, faults : Nat] /\ credCount'.requests # 0

LEMMA ReinstallerMovesKeep ==
  ASSUME CredInv, NEW h \in Reinstallers, ReinstallerMoves(h), ReinstallerHas(h)', Undoubted'
  PROVE  CredInv'
<1>1. WorkerHas'  BY WorkerKept, CredAssumption DEF ReinstallerMoves
<1>2. \A o \in Rewriters : RewriterHas(o)'
  BY RewriterKept, CredAssumption DEF ReinstallerMoves
<1>3. \A o \in Reinstallers : ReinstallerHas(o)'
  <2>1. ASSUME NEW o \in Reinstallers \ {h} PROVE ReinstallerHas(o)'
    BY <2>1, ReinstallerKept DEF ReinstallerMoves
  <2>2. QED  BY <2>1
<1>4. (crossed \subseteq Busy)'
  <2>1. Busy \ {h} \subseteq Busy'  BY DEF ReinstallerMoves, Busy
  <2>2. h \in Busy' \/ h \notin crossed'  BY DEF ReinstallerMoves, Busy
  <2>3. QED  BY <2>1, <2>2, CrossedBusy DEF CredInv, CredTypes, ReinstallerMoves
<1>5. CredTypes'  BY <1>4 DEF CredInv, CredTypes, ReinstallerMoves
<1>6. QED  BY <1>1, <1>2, <1>3, <1>5 DEF CredInv, CredClaims

\* A reinstallation on its way leaves itself out of doubt when the file has no
\* password, or the one MariaDB accepts.
LEMMA ReinstallUndoubted ==
  ASSUME CredInv, NEW h \in Reinstallers, ReinstallerMoves(h),
         ~tainted' /\ crossed' = {} =>
           /\ (~tainted /\ crossed = {}) \/ configFile' # configFile
           /\ configFile' = 0 \/ configFile' = accepted'
  PROVE  Undoubted'
<1>1. SUFFICES ASSUME ~tainted', crossed' = {} PROVE StoresFit'  BY DEF Undoubted
<1>2. h # "worker" /\ change' = change /\ Beside(h)  BY CredAssumption DEF ReinstallerMoves
<1>3. CASE change.step \in {"written", "undo"}
  <2>1. configFile' = configFile /\ accepted' = accepted
    BY <1>1, <1>2, <1>3, NobodyCrossed
  <2>2. StoresFit  BY <1>1, <2>1, HandlerFacts DEF Undoubted
  <2>3. QED  BY <1>2, <1>3, <2>1, <2>2 DEF StoresFit
<1>4. CASE change.step \notin {"written", "undo"}  BY <1>1, <1>2, <1>4 DEF StoresFit
<1>5. QED  BY <1>3, <1>4

LEMMA ReinstallProceeds ==
  ASSUME CredInv, NEW h \in Reinstallers, Goes(h),
         EmptyWebRoot(h) \/ DropOld(h) \/ CreateNew(h)
  PROVE  CredInv'
<1>1. Beside(h) /\ tainted' \in BOOLEAN  BY HistoryKept, HandlerFacts
<1>2. /\ crossed' = {} => crossed = {}
      /\ tainted' = tainted
      /\ h \notin crossed' => h \notin crossed
  BY DEF Goes
<1>3. CASE EmptyWebRoot(h)
  <2>1. /\ UNCHANGED <<accepted, change, copy>> /\ configFile' = 0 /\ Request
        /\ reinstall' = [reinstall EXCEPT ![h] = [step |-> "deploying",
                                                 new |-> credCount'.requests]]
    BY <1>3 DEF EmptyWebRoot
  <2>2. credCount' \in [requests : Nat, faults : Nat] /\ credCount'.requests \in Nat \ {0}
    BY <2>1, RequestTyped, HandlerFacts
  <2>3. /\ reinstall' \in [Reinstallers -> [step : ReinstallSteps, new : Nat]]
        /\ reinstall'[h].step = "deploying" /\ reinstall'[h].new # 0
        /\ \A o \in Reinstallers \ {h} : reinstall'[o] = reinstall[o]
    BY <2>1, <2>2, HandlerFacts DEF ReinstallSteps
  <2>4. ReinstallerMoves(h)  BY <1>1, <2>1, <2>2, <2>3, HandlerFacts DEF ReinstallerMoves
  <2>5. ReinstallerHas(h)'  BY <2>1, <2>3 DEF ReinstallerHas
  <2>6. Undoubted'  BY <1>2, <2>1, <2>4, ReinstallUndoubted
  <2>7. QED  BY <2>4, <2>5, <2>6, ReinstallerMovesKeep
<1>4. CASE DropOld(h)
  <2>1. /\ UNCHANGED <<configFile, change, copy>> /\ (Fault \/ UNCHANGED credCount)
        /\ accepted' \in {0, accepted} /\ reinstall[h].step = "deploying"
        /\ reinstall' = [reinstall EXCEPT ![h].step = "dropped"]
    BY <1>4 DEF DropOld, Reinstalls, Proceeds
  <2>2. /\ reinstall' \in [Reinstallers -> [step : ReinstallSteps, new : Nat]]
        /\ reinstall'[h].step = "dropped" /\ reinstall'[h].new # 0
        /\ \A o \in Reinstallers \ {h} : reinstall'[o] = reinstall[o]
    BY <2>1, HandlerFacts DEF ReinstallSteps
  <2>3. ReinstallerMoves(h)
    BY <1>1, <2>1, <2>2, FaultTyped, HandlerFacts DEF ReinstallerMoves
  <2>4. h \notin crossed => configFile = 0  BY <2>1, HandlerFacts DEF ReinstallerHas
  <2>5. ReinstallerHas(h)'  BY <1>2, <2>1, <2>2, <2>4 DEF ReinstallerHas
  <2>6. Undoubted'  BY <1>2, <2>1, <2>3, <2>4, ReinstallUndoubted
  <2>7. QED  BY <2>3, <2>5, <2>6, ReinstallerMovesKeep
<1>5. CASE CreateNew(h)
  <2>1. /\ UNCHANGED <<configFile, change, copy, credCount>>
        /\ accepted' = reinstall[h].new /\ reinstall[h].step = "dropped"
        /\ reinstall' = [reinstall EXCEPT ![h].step = "created"]
    BY <1>5 DEF CreateNew, Reinstalls, Proceeds
  <2>2. /\ reinstall' \in [Reinstallers -> [step : ReinstallSteps, new : Nat]]
        /\ reinstall'[h].step = "created" /\ reinstall'[h].new = reinstall[h].new
        /\ reinstall[h].new \in Nat \ {0}
        /\ \A o \in Reinstallers \ {h} : reinstall'[o] = reinstall[o]
    BY <2>1, HandlerFacts DEF ReinstallSteps
  <2>3. ReinstallerMoves(h)
    BY <1>1, <2>1, <2>2, FaultTyped, HandlerFacts DEF ReinstallerMoves
  <2>4. h \notin crossed => configFile = 0  BY <2>1, HandlerFacts DEF ReinstallerHas
  <2>5. ReinstallerHas(h)'  BY <1>2, <2>1, <2>2, <2>4 DEF ReinstallerHas
  <2>6. Undoubted'  BY <1>2, <2>1, <2>3, <2>4, ReinstallUndoubted
  <2>7. QED  BY <2>3, <2>5, <2>6, ReinstallerMovesKeep
<1>6. QED  BY <1>3, <1>4, <1>5

LEMMA ReinstallEnds ==
  ASSUME CredInv, NEW h \in Reinstallers,
         CreateNewFails(h) \/ GenerateConfig(h) \/ ReinstallFails(h)
  PROVE  CredInv'
<1>1. /\ UNCHANGED <<change, copy>> /\ (Fault \/ UNCHANGED credCount)
      /\ reinstall' = [reinstall EXCEPT ![h] = Unbegun] /\ reinstall[h].step # "none"
  BY DEF CreateNewFails, GenerateConfig, ReinstallFails, Returns, Reinstalls
<1>2. reinstall[h].new \in Nat \ {0} /\ (h \notin crossed => configFile = 0)
  BY <1>1, HandlerFacts DEF ReinstallerHas
<1>3. Ceases(h)
  BY DEF CreateNewFails, GenerateConfig, ReinstallFails, Ceases
<1>4. configFile' \in Nat /\ accepted' \in Nat
  <2>1. configFile' \in {configFile, 0, reinstall[h].new}
    BY DEF CreateNewFails, GenerateConfig, ReinstallFails
  <2>2. accepted' \in {accepted, 0, reinstall[h].new}
    BY DEF CreateNewFails, GenerateConfig, ReinstallFails
  <2>3. QED  BY <1>2, <2>1, <2>2, HandlerFacts
<1>5. Beside(h) /\ tainted' \in BOOLEAN /\ h \notin crossed'
  BY <1>3, HistoryKept, HandlerFacts
<1>6. /\ reinstall' \in [Reinstallers -> [step : ReinstallSteps, new : Nat]]
      /\ reinstall'[h].step = "none" /\ \A o \in Reinstallers \ {h} : reinstall'[o] = reinstall[o]
  BY <1>1, HandlerFacts DEF ReinstallSteps, Unbegun
<1>7. ReinstallerMoves(h)
  BY <1>1, <1>4, <1>5, <1>6, FaultTyped, HandlerFacts DEF ReinstallerMoves
<1>8. ReinstallerHas(h)'  BY <1>6 DEF ReinstallerHas
<1>9. ASSUME ~tainted', crossed' = {}
      PROVE  /\ (~tainted /\ crossed = {}) \/ configFile' # configFile
             /\ configFile' = 0 \/ configFile' = accepted'
  <2>1. h \notin crossed  BY <1>3, <1>9 DEF Ceases, Completes, Settles
  <2>2. CASE GenerateConfig(h)
    <3>1. /\ configFile' = reinstall[h].new /\ accepted' = accepted
          /\ reinstall[h].step = "created"
      BY <2>2 DEF GenerateConfig, Reinstalls
    <3>2. accepted = reinstall[h].new  BY <2>1, <3>1, HandlerFacts DEF ReinstallerHas
    <3>3. QED  BY <1>2, <2>1, <3>1, <3>2
  <2>3. CASE CreateNewFails(h) \/ ReinstallFails(h)
    <3>1. configFile' \in {configFile, 0}  BY <2>3 DEF CreateNewFails, ReinstallFails
    <3>2. Completes(h, FALSE)  BY <2>3 DEF CreateNewFails, ReinstallFails
    <3>3. ~tainted /\ crossed = {}  BY <1>9, <2>1, <3>2 DEF Completes
    <3>4. QED  BY <1>2, <2>1, <3>1, <3>3
  <2>4. QED  BY <2>2, <2>3
<1>10. Undoubted'  BY <1>7, <1>9, ReinstallUndoubted
<1>11. QED  BY <1>7, <1>8, <1>10, ReinstallerMovesKeep

\* The panel restarts.
LEMMA CutOffStep == ASSUME CredInv, CutOff PROVE CredInv'
<1>1. /\ UNCHANGED <<configFile, accepted>> /\ crossed' = {} /\ Fault
      /\ change' = Unchanging /\ copy' = [h \in Rewriters |-> 0]
      /\ reinstall' = [h \in Reinstallers |-> Unbegun]
      /\ tainted' = (tainted \/ crossed # {} \/ change.step \in {"written", "undo"})
  BY DEF CutOff
<1>2. copy' \in [Rewriters -> Nat] /\ \A h \in Rewriters : copy'[h] = 0  BY <1>1
<1>3. /\ reinstall' \in [Reinstallers -> [step : ReinstallSteps, new : Nat]]
      /\ \A h \in Reinstallers : reinstall'[h].step = "none"
  BY <1>1 DEF Unbegun, ReinstallSteps
<1>4. CredTypes'
  <2>1. (crossed \subseteq Busy)' /\ tainted' \in BOOLEAN  BY <1>1
  <2>2. QED
    BY <1>1, <1>2, <1>3, <2>1, FaultTyped, UnchangingTyped, HandlerFacts DEF CredTypes
<1>5. CredClaims'
  BY <1>1, <1>2, <1>3, UnchangingTyped
  DEF CredClaims, WorkerHas, RewriterHas, ReinstallerHas
<1>6. Undoubted'
  BY <1>1, UnchangingTyped, HandlerFacts DEF Undoubted, StoresFit
<1>7. QED  BY <1>4, <1>5, <1>6 DEF CredInv

LEMMA CredStep == ASSUME CredInv, [NextCred]_varsCred PROVE CredInv'
<1>1. CASE UNCHANGED varsCred
  BY <1>1 DEF varsCred, CredInv, CredTypes, CredClaims, WorkerHas, RewriterHas, ReinstallerHas,
              Undoubted, StoresFit, Busy
<1>2. CASE \/ ReadForChange \/ WriteNew \/ WriteNewFails \/ Alter \/ AlterFails
           \/ Flush \/ FlushFails \/ WriteOld \/ WriteOldFails \/ CutOff
  BY <1>2, ReadForChangeStep, WriteNewStep, ChangeEndSteps, AlterStep, UndoSteps, CutOffStep
<1>3. CASE \E h \in Rewriters : ReadConfig(h) \/ WriteBack(h) \/ WriteBackFails(h)
  BY <1>3, RewriterSteps
<1>4. CASE \E h \in Reinstallers : \/ EmptyWebRoot(h) \/ DropOld(h) \/ CreateNew(h)
                                   \/ CreateNewFails(h) \/ GenerateConfig(h)
                                   \/ ReinstallFails(h)
  <2>1. ASSUME NEW h \in Reinstallers, EmptyWebRoot(h) \/ DropOld(h) \/ CreateNew(h)
        PROVE  CredInv'
    <3>1. Goes(h)  BY <2>1 DEF EmptyWebRoot, DropOld, CreateNew
    <3>2. QED  BY <2>1, <3>1, ReinstallProceeds
  <2>2. QED  BY <1>4, <2>1, ReinstallEnds
<1>5. QED  BY <1>1, <1>2, <1>3, <1>4 DEF NextCred

\* The site logs in at first.
LEMMA CredBegins == ASSUME InitCred PROVE CredInv
<1>1. /\ configFile = 1 /\ accepted = 1 /\ change = Unchanging /\ crossed = {}
      /\ tainted = FALSE /\ credCount = [requests |-> 1, faults |-> 0]
      /\ copy = [h \in Rewriters |-> 0] /\ reinstall = [h \in Reinstallers |-> Unbegun]
  BY DEF InitCred
<1>0. /\ reinstall \in [Reinstallers -> [step : ReinstallSteps, new : Nat]]
      /\ \A h \in Reinstallers : reinstall[h].step = "none"
  BY <1>1 DEF Unbegun, ReinstallSteps
<1>2. CredTypes
  <2>1. copy \in [Rewriters -> Nat] /\ configFile \in Nat /\ accepted \in Nat  BY <1>1
  <2>2. credCount \in [requests : Nat, faults : Nat] /\ credCount.requests # 0  BY <1>1
  <2>3. QED  BY <1>0, <1>1, <2>1, <2>2, UnchangingTyped DEF CredTypes
<1>3. CredClaims
  BY <1>1, UnchangingTyped DEF CredClaims, WorkerHas, RewriterHas, ReinstallerHas, Unbegun
<1>4. Undoubted  BY <1>1, UnchangingTyped DEF Undoubted, StoresFit
<1>5. QED  BY <1>2, <1>3, <1>4 DEF CredInv

\* executeChangeDBPassword, ReinstallWordPress: for any number of requests, of
\* handlers and of faults, a site nothing works on has the password MariaDB
\* accepts, unless the history says why not.
THEOREM SiteAlwaysLogsIn == SpecCred => []SiteLogsIn
<1>1. InitCred => CredInv  BY CredBegins
<1>2. CredInv /\ [NextCred]_varsCred => CredInv'  BY CredStep
<1>3. CredInv => SiteLogsIn
  <2> SUFFICES ASSUME CredInv, Busy = {}, ~tainted PROVE configFile = 0 \/ configFile = accepted
    BY DEF SiteLogsIn
  <2>1. change.step = "none"  BY DEF Busy
  <2>2. crossed = {}  BY DEF CredInv, CredTypes
  <2>3. QED  BY <2>1, <2>2 DEF CredInv, Undoubted, StoresFit
<1>4. QED  BY <1>1, <1>2, <1>3, PTL DEF SpecCred

(* Types. *)

\* The bound on faults.
FaultsBounded == credCount.faults \in 0..MaxFaults

LEMMA FaultsStep == ASSUME CredTypes, FaultsBounded, [NextCred]_varsCred PROVE FaultsBounded'
<1>1. credCount \in [requests : Nat, faults : Nat]  BY DEF CredTypes
<1>2. Request \/ Fault \/ UNCHANGED credCount
  BY DEF NextCred, varsCred, ReadForChange, WriteNew, WriteNewFails, Alter, AlterFails, Flush,
         FlushFails, WriteOld, WriteOldFails, CutOff, ReadConfig, WriteBack, WriteBackFails,
         EmptyWebRoot, DropOld, CreateNew, CreateNewFails, GenerateConfig, ReinstallFails
<1>3. CASE Request
  <2>1. credCount' = [credCount EXCEPT !.requests = credCount.requests + 1]  BY <1>3 DEF Request
  <2>2. credCount'.faults = credCount.faults  BY <1>1, <2>1
  <2>3. QED  BY <2>2 DEF FaultsBounded
<1>4. CASE Fault
  <2>1. credCount' = [credCount EXCEPT !.faults = credCount.faults + 1]
        /\ credCount.faults < MaxFaults
    BY <1>4 DEF Fault
  <2>2. credCount'.faults = credCount.faults + 1  BY <1>1, <2>1
  <2>3. QED  BY <2>1, <2>2, CredAssumption DEF FaultsBounded
<1>5. QED  BY <1>2, <1>3, <1>4 DEF FaultsBounded

\* executeChangeDBPassword, ReinstallWordPress: passwords and operations have their
\* types, and only operations in flight are crossed.
THEOREM CredTyping == SpecCred => []CredTypeOK
<1>1. InitCred => FaultsBounded /\ CredInv
  <2>1. InitCred => FaultsBounded
    <3> SUFFICES ASSUME InitCred PROVE FaultsBounded  OBVIOUS
    <3>1. credCount.faults = 0  BY DEF InitCred
    <3>2. QED  BY <3>1, CredAssumption DEF FaultsBounded
  <2>2. QED  BY <2>1, CredBegins
<1>2. FaultsBounded /\ CredInv /\ [NextCred]_varsCred => FaultsBounded' /\ CredInv'
  BY FaultsStep, CredStep DEF CredInv
<1>3. FaultsBounded /\ CredInv => CredTypeOK
  <2> SUFFICES ASSUME FaultsBounded, CredInv PROVE CredTypeOK  OBVIOUS
  <2>1. credCount \in [requests : Nat, faults : 0..MaxFaults]
    <3>1. credCount \in [requests : Nat, faults : Nat]  BY DEF CredInv, CredTypes
    <3>2. QED  BY <3>1 DEF FaultsBounded
  <2>2. QED  BY <2>1 DEF CredInv, CredTypes, ChangeSteps, ReinstallSteps, CredTypeOK
<1>4. QED  BY <1>1, <1>2, <1>3, PTL DEF SpecCred

------------------------------------------------------------------------------
(* THE PANEL AND ITS PARTS.                                                  *)

\* A step of the panel is for each component one of its own steps or none.
LEMMA PartSteps ==
    ASSUME [NextPanel]_varsPanel
    PROVE  /\ [NextBan]_varsBan /\ [NextBans]_varsBans /\ [NextSvc]_varsSvc
           /\ [NextAl]_varsAl /\ [NextDb]_varsDb /\ [NextFb]_varsFb /\ [NextCert]_varsCert
           /\ [NextUp]_varsUp /\ [NextUpload]_varsUpload /\ [NextAcc]_varsAcc
           /\ [NextCred]_varsCred
<1>1. CASE NextPanel
  <2>1. [NextBan]_varsBan  BY <1>1 DEF NextPanel, Rests
  <2>2. [NextBans]_varsBans  BY <1>1 DEF NextPanel, Rests
  <2>3. [NextSvc]_varsSvc  BY <1>1 DEF NextPanel, Rests
  <2>4. [NextAl]_varsAl  BY <1>1 DEF NextPanel, Rests
  <2>5. [NextDb]_varsDb  BY <1>1 DEF NextPanel, Rests
  <2>6. [NextFb]_varsFb  BY <1>1 DEF NextPanel, Rests
  <2>7. [NextCert]_varsCert  BY <1>1 DEF NextPanel, Rests
  <2>8. [NextUp]_varsUp  BY <1>1 DEF NextPanel, Rests
  <2>9. [NextUpload]_varsUpload  BY <1>1 DEF NextPanel, Rests
  <2>10. [NextAcc]_varsAcc  BY <1>1 DEF NextPanel, Rests
  <2>11. [NextCred]_varsCred  BY <1>1 DEF NextPanel, Rests
  <2>12. QED  BY <2>1, <2>2, <2>3, <2>4, <2>5, <2>6, <2>7, <2>8, <2>9, <2>10, <2>11
<1>2. CASE UNCHANGED varsPanel  BY <1>2 DEF varsPanel
<1>3. QED  BY <1>1, <1>2

\* A behaviour of the composed specification is a behaviour of every component:
\* what is proved of a component's specification, here and in the other modules,
\* holds of every behaviour of SpecPanel.
THEOREM PanelIsItsParts ==
  SpecPanel =>
    /\ SpecBan /\ SpecBans /\ SpecDb /\ SpecFb /\ SpecCert /\ SpecUp
    /\ SpecUpload /\ SpecAcc /\ SpecCred
    /\ InitSvc /\ [][NextSvc]_varsSvc /\ InitAl /\ [][NextAl]_varsAl
<1>1. InitPanel => /\ InitBan /\ InitBans /\ InitSvc /\ InitAl /\ InitDb /\ InitFb
                   /\ InitCert /\ InitUp /\ InitUpload /\ InitAcc /\ InitCred
  BY DEF InitPanel
<1>2. QED
  BY <1>1, PartSteps, PTL DEF SpecPanel, SpecBan, SpecBans, SpecDb, SpecFb, SpecCert, SpecUp,
                              SpecUpload, SpecAcc, SpecCred

\* MCPanel.tla: whichever component runs, every variable of every component has its
\* type, for all values of the constants.
THEOREM PanelTyping == SpecPanel => []PanelTypeOK
<1>1. InitPanel => part \in Parts  BY DEF InitPanel
<1>2. part \in Parts /\ [NextPanel]_varsPanel => (part \in Parts)'
  BY DEF NextPanel, varsPanel
<1>3. SpecPanel => [](part \in Parts)  BY <1>1, <1>2, PTL DEF SpecPanel
<1>4. (/\ part \in Parts /\ BanTypeOK /\ BansTypeOK /\ SvcTypeOK /\ AlTypeOK /\ DbTypeOK
       /\ FbTypeOK /\ CertTypeOK /\ UpTypeOK /\ UploadTypeOK /\ AccTypeOK /\ CredTypeOK)
        => PanelTypeOK
  BY DEF PanelTypeOK
<1>5. QED
  BY <1>3, <1>4, PanelIsItsParts, BanTyping, BansTyping, SvcHolds, SvcTyped, AlHolds, AlTyped,
     DbTyping, FbTyping, CertTyping, UpTyping, UploadTyping, AccTyping, CredTyping, PTL

\* What is said of the states of the components.
PanelInv ==
  /\ OneWriter /\ NoLostBan /\ PageConverges /\ RefusedConfUndone /\ LoadIsSustained
  /\ RowHasCopy /\ RetentionBounded /\ OneFileBackup /\ FullSurvives
  /\ ServedCertValid /\ ExpiryNotOverstated /\ BinaryRecoverable /\ ServesUpgraded
  /\ KeysAgree /\ TargetIntact /\ RestartChangesNothing /\ SiteLogsIn

\* MCPanel.tla: every behaviour of the composed specification keeps what each
\* component promises of its states.
THEOREM PanelSafe == SpecPanel => []PanelInv
<1>1. SvcEditInv => RefusedConfUndone
  BY DEF SvcEditInv, EditInv, RefusedConfUndone, Editing
<1>2. LoadInv => LoadIsSustained  BY DEF LoadInv
<1>3. (/\ OneWriter /\ NoLostBan /\ PageConverges /\ RefusedConfUndone /\ LoadIsSustained
       /\ RowHasCopy /\ RetentionBounded /\ OneFileBackup /\ FullSurvives
       /\ ServedCertValid /\ ExpiryNotOverstated /\ BinaryRecoverable /\ ServesUpgraded
       /\ KeysAgree /\ TargetIntact /\ RestartChangesNothing /\ SiteLogsIn)
        => PanelInv
  BY DEF PanelInv
<1>4. QED
  BY <1>1, <1>2, <1>3, PanelIsItsParts, SvcHolds, AlHolds, WriterAlone, BansKept,
     PageBringsTogether, DumpsKeepCopy, DumpsStayBounded, OneBackup, FullArchiveKept,
     ServedInTime, ExpirySound, BinarySurvives, ServesSchema, KeysMoveTogether, UploadIntact,
     RestartHarmless, SiteAlwaysLogsIn, PTL

\* MCPanel.tla: no step of the composed specification starts a stopped service
\* again or tells a milestone twice.
THEOREM PanelStepsSafe == SpecPanel => GuardKeepsStop /\ MilestoneToldOnce
<1>1. StopInv /\ [NextSvc]_varsSvc => [Check => ~(svcStopped /\ ~svcUp /\ svcUp')]_varsSvc
  BY StopIsKept
<1>2. MilestoneInv /\ [NextAl]_varsAl =>
        [alTold' = <<"expiry", "alert">> /\ alTold # alTold' => alAfter \in {-1, LogCap}]_varsAl
  BY ToldOnlyWhenNew
<1>3. QED
  BY <1>1, <1>2, PanelIsItsParts, SvcHolds, AlHolds, PTL DEF GuardKeepsStop, MilestoneToldOnce

=============================================================================
