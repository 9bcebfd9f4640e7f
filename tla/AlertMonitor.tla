----------------------------- MODULE AlertMonitor ----------------------------
(* The alert monitor (executor/alert_monitor.go): once a minute every rule   *)
(* is checked; a rule that starts to hold is told, told again at intervals,  *)
(* and its end is told.  What a rule remembers is in memory; what was told   *)
(* is in alert_log, which one of the rules reads back.                       *)
EXTENDS Integers, Sequences

CONSTANTS
  Sustain,      \* minutes a load must last, and must be over
  Resend,       \* minutes after which an alert is told again
  LogCap,       \* rows kept in alert_log
  MaxChanges    \* bound on changes of the world, of the settings, restarts

ASSUME AlertAssumption ==
  {Sustain, Resend, LogCap} \subseteq Nat \ {0} /\ MaxChanges \in Nat

VARIABLES
  alWorld,    \* per rule: what the rule is about is the case
  alOn,       \* per rule: not switched off
  alRule,     \* per rule: firing, minutes since pendingSince and lastFired
  alFailed,   \* failures of the monitored site in a row
  alPre,      \* the answer of checkSites, taken before the mutex
  alNews,     \* the cached answer about new versions: "old" after a day
  alLog,      \* alert_log: rule, level, written within a day
  alNext,     \* the rule the loop is at, 0 between two minutes
  alTold,     \* the notice sent by the last step
  alLoaded,   \* checks in a row that found the load high
  alAfter,    \* rows written since the milestone was told (-1: not told)
  alChanges   \* changes so far

varsAl == <<alWorld, alOn, alRule, alFailed, alPre, alNews, alLog, alNext, alTold,
            alLoaded, alAfter, alChanges>>
loopVars == <<alRule, alFailed, alPre, alNews, alLog, alNext, alLoaded, alAfter>>

\* CPU, memory and the like; the end of a site's term; the sites; new versions.
Rules == <<"load", "expiry", "site", "update">>
RuleSet == {"load", "expiry", "site", "update"}
Quiet == [firing |-> FALSE, pending |-> 0, since |-> 0]

InitAl ==
  /\ alWorld = [r \in RuleSet |-> FALSE] /\ alOn = [r \in RuleSet |-> TRUE]
  /\ alRule = [r \in RuleSet |-> Quiet] /\ alFailed = 0 /\ alPre = "none"
  /\ alNews = "old" /\ alLog = <<>> /\ alNext = 0 /\ alTold = <<>>
  /\ alLoaded = 0 /\ alAfter = -1 /\ alChanges = 0
------------------------------------------------------------------------------
AlChange == alChanges < MaxChanges /\ alChanges' = alChanges + 1 /\ alTold' = <<>>

\* A load rises or falls, the site goes down or comes back, a version appears or
\* is installed.
WorldChanges(r) ==
  /\ r # "expiry" /\ AlChange
  /\ alWorld' = [alWorld EXCEPT ![r] = ~@]
  /\ UNCHANGED <<alOn, loopVars>>

\* A day with a milestone of the term begins or ends; the milestones are more
\* than a day apart.
MilestoneChanges ==
  /\ AlChange
  /\ alWorld' = [alWorld EXCEPT !["expiry"] = ~@]
  /\ alLog' = [k \in 1..Len(alLog) |-> [alLog[k] EXCEPT !.recent = FALSE]]
  /\ alAfter' = -1
  /\ UNCHANGED <<alOn, alRule, alFailed, alPre, alNews, alNext, alLoaded>>

\* SaveSettings.
Switch(r) ==
  /\ AlChange
  /\ alOn' = [alOn EXCEPT ![r] = ~@]
  /\ UNCHANGED <<alWorld, loopVars>>

\* A day passes, or ClearPanelUpdateAlertCache, ClearSystemUpdateAlertCache.
NewsAges ==
  /\ alNews # "old" /\ AlChange
  /\ alNews' = "old"
  /\ UNCHANGED <<alWorld, alOn, alRule, alFailed, alPre, alLog, alNext, alLoaded, alAfter>>

\* The panel starts again: only alert_log is left.
MonitorRestart ==
  /\ AlChange
  /\ alRule' = [r \in RuleSet |-> Quiet] /\ alLoaded' = 0
  /\ alFailed' = 0 /\ alPre' = "none" /\ alNews' = "old" /\ alNext' = 0
  /\ UNCHANGED <<alWorld, alOn, alLog, alAfter>>
------------------------------------------------------------------------------
AtMost(n, cap) == IF n < cap THEN n ELSE cap

\* checkSites: the site is probed, or its interval is not over and what is known
\* of it stands; a first failure is not reported.
ProbeSite ==
  \/ UNCHANGED alFailed
  \/ alFailed' = IF alWorld["site"] THEN AtMost(alFailed + 1, 2) ELSE 0

\* runChecks: the sites first, outside the mutex, when their rule is on.
StartChecks ==
  /\ alNext = 0
  /\ alNext' = 1 /\ alTold' = <<>>
  /\ IF alOn["site"] THEN ProbeSite /\ alPre' = IF alFailed' = 2 THEN "down" ELSE "up"
                     ELSE UNCHANGED alFailed /\ alPre' = "none"
  /\ UNCHANGED <<alWorld, alOn, alRule, alNews, alLog, alLoaded, alAfter, alChanges>>

\* Mutant: what was told is looked up in memory.
ToldInMemory == alRule["expiry"].firing

\* checkWebsiteExpiry leaves out a site that alert_log has told within a day.
ToldToday == \E k \in 1..Len(alLog) :
               alLog[k].rule = "expiry" /\ alLog[k].level = "critical" /\ alLog[k].recent

\* The checks that ask the system or the database each time.
CheckLoad(holds) == holds = alWorld["load"] /\ UNCHANGED <<alFailed, alNews>>

CheckExpiry(holds) ==
  holds = (alWorld["expiry"] /\ ~ToldToday) /\ UNCHANGED <<alFailed, alNews>>

\* The answer taken before the mutex; the sites are asked now when their rule was
\* switched on in between.
CheckSites(holds) ==
  /\ IF alPre = "none" THEN ProbeSite ELSE UNCHANGED alFailed
  /\ holds = IF alPre = "none" THEN alFailed' = 2 ELSE alPre = "down"
  /\ UNCHANGED alNews

\* The answer is cached for a day; a failed fetch answers no and is not cached.
CheckUpdate(holds) ==
  /\ \/ alNews # "old" /\ holds = (alNews = "new") /\ UNCHANGED alNews
     \/ alNews = "old" /\ ~holds /\ UNCHANGED alNews
     \/ alNews = "old" /\ holds = alWorld["update"] /\ alNews' = IF holds THEN "new" ELSE "none"
  /\ UNCHANGED alFailed

CheckFn(r, holds) ==
  \/ r = "load" /\ CheckLoad(holds)
  \/ r = "expiry" /\ CheckExpiry(holds)
  \/ r = "site" /\ CheckSites(holds)
  \/ r = "update" /\ CheckUpdate(holds)

\* Mutant: an alert is told once.
NoticeOnce(was, fires, since) ==
  IF fires /\ ~was.firing THEN "alert"
  ELSE IF ~fires /\ was.firing THEN "recovery" ELSE "none"

\* The three transitions of runChecks.
Notice(was, fires, since) ==
  IF fires /\ (~was.firing \/ since > Resend) THEN "alert"
  ELSE IF ~fires /\ was.firing THEN "recovery" ELSE "none"

\* logAlert keeps the last rows.
LogAlert(r, told) ==
  LET level == IF told = "alert" THEN "critical" ELSE "info"
      log == Append(alLog, [rule |-> r, level |-> level, recent |-> TRUE])
  IN /\ alLog' = IF Len(log) > LogCap THEN Tail(log) ELSE log
     /\ alAfter' = IF r = "expiry" /\ told = "alert" THEN 0
                   ELSE IF alAfter = -1 THEN -1 ELSE AtMost(alAfter + 1, LogCap)

\* sustainedFiring and what follows.  The end of a load is told only when the
\* last alert is more than five minutes old.
CheckOn(r, holds) ==
  LET was == alRule[r]
      pending == IF holds THEN AtMost(was.pending + 1, Sustain + 1) ELSE 0
      fires == IF r = "load" THEN pending > Sustain ELSE holds
      since == AtMost(was.since + 1, Resend + 1)
      told == Notice(was, fires, since)
      dropped == told = "recovery" /\ r = "load" /\ since <= Sustain
  IN /\ CheckFn(r, holds)
     /\ alRule' = [alRule EXCEPT ![r] =
          [firing |-> fires, pending |-> IF r = "load" THEN pending ELSE 0,
           since |-> IF told = "alert" \/ ~fires THEN 0 ELSE since]]
     /\ IF told = "none" THEN UNCHANGED <<alLog, alAfter>> ELSE LogAlert(r, told)
     /\ alTold' = IF told = "none" \/ dropped THEN <<>> ELSE <<r, told>>
     /\ alLoaded' = IF r # "load" THEN alLoaded
                    ELSE IF holds THEN AtMost(alLoaded + 1, Sustain + 1) ELSE 0

\* Mutant: a rule switched off keeps what it was waiting for.
CheckOffKeeping(r) ==
  /\ alRule' = [alRule EXCEPT ![r].firing = FALSE]
  /\ alLoaded' = IF r = "load" THEN 0 ELSE alLoaded
  /\ alTold' = <<>>
  /\ UNCHANGED <<alFailed, alNews, alLog, alAfter>>

\* A rule that is off forgets that it fires and what it was waiting for.
CheckOff(r) ==
  /\ alRule' = [alRule EXCEPT ![r] = Quiet]
  /\ alLoaded' = IF r = "load" THEN 0 ELSE alLoaded
  /\ alTold' = <<>>
  /\ UNCHANGED <<alFailed, alNews, alLog, alAfter>>

\* One turn of the loop over the rules, under the mutex.
CheckRule ==
  /\ alNext # 0
  /\ LET r == Rules[alNext]
     IN IF alOn[r] THEN \E holds \in BOOLEAN : CheckOn(r, holds) ELSE CheckOff(r)
  /\ alNext' = (alNext + 1) % 5
  /\ UNCHANGED <<alWorld, alOn, alPre, alChanges>>

NextAl ==
  \/ StartChecks \/ CheckRule \/ MilestoneChanges \/ NewsAges \/ MonitorRestart
  \/ \E r \in RuleSet : WorldChanges(r) \/ Switch(r)

\* The ticker keeps ticking.
SpecAl == InitAl /\ [][NextAl]_varsAl /\ WF_varsAl(StartChecks) /\ WF_varsAl(CheckRule)
------------------------------------------------------------------------------
\* Each variable has its type.
AlTypeOK ==
  /\ alWorld \in [RuleSet -> BOOLEAN] /\ alOn \in [RuleSet -> BOOLEAN]
  /\ alRule \in [RuleSet -> [firing : BOOLEAN, pending : 0..Sustain + 1,
                             since : 0..Resend + 1]]
  /\ alFailed \in 0..2 /\ alPre \in {"none", "up", "down"}
  /\ alNews \in {"old", "new", "none"}
  /\ alLog \in Seq([rule : RuleSet, level : {"critical", "info"}, recent : BOOLEAN])
  /\ Len(alLog) <= LogCap
  /\ alNext \in 0..4 /\ alLoaded \in 0..Sustain + 1 /\ alAfter \in -1..LogCap

\* sustainedFiring: the rule of a load fires only after checks in a row, with the
\* rule on and the panel running, found it high for the whole threshold.
LoadIsSustained == alRule["load"].firing => alLoaded > Sustain

\* runChecks: a load that stays high is told, and told again, for as long as its
\* rule is on.
LoadToldAgain ==
  []<>(alTold = <<"load", "alert">> \/ ~(alWorld["load"] /\ alOn["load"]))

\* checkWebsiteExpiry, logAlert: a milestone is told once, restarts included,
\* unless alert_log has turned over in between.
MilestoneToldOnce ==
  [][alTold' = <<"expiry", "alert">> /\ alTold # alTold' => alAfter \in {-1, LogCap}]_varsAl
==============================================================================
