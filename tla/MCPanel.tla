------------------------------ MODULE MCPanel ------------------------------
(* The components of the panel that share no state with the sites, the task  *)
(* queue and the cron jobs, nor with each other: one behaviour is a behaviour *)
(* of one of them, chosen at the start, while the others stay as they began.  *)
EXTENDS NginxBanFile, BanControl, ServiceGuard, AlertMonitor, DbBackups,
        FileBackups, CertRenewal, PanelUpgrade, ChunkUploads, Accounts, SiteCredentials

VARIABLE part   \* the component that runs

Parts == {"banfile", "bans", "guard", "alerts", "dumps", "archives",
          "certificates", "upgrade", "uploads", "accounts", "credentials"}

varsPanel == <<part, varsBan, varsBans, varsSvc, varsAl, varsDb, varsFb, varsCert,
               varsUp, varsUpload, varsAcc, varsCred>>

InitPanel ==
  /\ part \in Parts
  /\ InitBan /\ InitBans /\ InitSvc /\ InitAl /\ InitDb /\ InitFb /\ InitCert
  /\ InitUp /\ InitUpload /\ InitAcc /\ InitCred
  \* A component that does not run has one initial state.
  /\ part = "banfile" \/ banned = {}
  /\ part = "guard" \/ svcChecked
  /\ part = "dumps" \/ mirror = "off"
  /\ part = "archives" \/ sending = "off"
  /\ part = "upgrade" \/ (versions = {<<0, 0>>} /\ oldConfig = "valid")

Rests(p, vars) == IF part = p THEN TRUE ELSE UNCHANGED vars

NextPanel ==
  /\ \/ part = "banfile" /\ NextBan
     \/ part = "bans" /\ NextBans
     \/ part = "guard" /\ NextSvc
     \/ part = "alerts" /\ NextAl
     \/ part = "dumps" /\ NextDb
     \/ part = "archives" /\ NextFb
     \/ part = "certificates" /\ NextCert
     \/ part = "upgrade" /\ NextUp
     \/ part = "uploads" /\ NextUpload
     \/ part = "accounts" /\ NextAcc
     \/ part = "credentials" /\ NextCred
  /\ Rests("banfile", varsBan) /\ Rests("bans", varsBans) /\ Rests("guard", varsSvc)
  /\ Rests("alerts", varsAl) /\ Rests("dumps", varsDb) /\ Rests("archives", varsFb)
  /\ Rests("certificates", varsCert) /\ Rests("upgrade", varsUp)
  /\ Rests("uploads", varsUpload) /\ Rests("accounts", varsAcc)
  /\ Rests("credentials", varsCred)
  /\ UNCHANGED part

\* The fairness of the guard and of the alert monitor, while they run.
FairPanel ==
  /\ WF_varsSvc(part = "guard" /\ Probe)
  /\ WF_varsSvc(part = "guard" /\ Check)
  /\ WF_varsSvc(part = "guard" /\ Serving)
  /\ WF_varsAl(part = "alerts" /\ StartChecks)
  /\ WF_varsAl(part = "alerts" /\ CheckRule)

SpecPanel == InitPanel /\ [][NextPanel]_varsPanel /\ FairPanel
------------------------------------------------------------------------------
\* Each variable of each component has its type.
PanelTypeOK ==
  /\ part \in Parts
  /\ BanTypeOK /\ BansTypeOK /\ SvcTypeOK /\ AlTypeOK /\ DbTypeOK /\ FbTypeOK /\ CertTypeOK
  /\ UpTypeOK /\ UploadTypeOK /\ AccTypeOK /\ CredTypeOK
============================================================================
