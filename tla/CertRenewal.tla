---------------------------- MODULE CertRenewal ----------------------------
(* The nightly renewal of certificates (executor/ssl.go): the scheduler of  *)
(* 03:00, the task that walks over the sites with SSL, the two files an     *)
(* issue writes, the column with the expiry, and the reload that makes      *)
(* nginx serve the new certificate.  Time is counted in days: a certificate *)
(* has so many days left.  The CA and nginx are outside.                    *)
EXTENDS Integers, FiniteSets

CONSTANTS
  CertSites,       \* the sites with ssl_enabled = 1
  Lifetime,        \* days a new certificate is valid
  RenewDays,       \* the 30 days of renewThreshold
  MaxDays,         \* bound: days that pass
  MaxRefusals,     \* bound: issues the CA refuses
  MaxTears,        \* bound: issues that fail between their two files
  MaxStops         \* bound: restarts of the panel

ASSUME CertAssumption ==
  /\ RenewDays \in Nat \ {0} /\ Lifetime \in Nat /\ Lifetime > RenewDays
  /\ MaxDays \in Nat /\ MaxRefusals \in Nat /\ MaxTears \in Nat /\ MaxStops \in Nat

VARIABLES
  onDisk,          \* days left of the certificate in the directory of a site
  pair,            \* its key file belongs to it
  live,            \* days left of the certificate nginx serves
  inRow,           \* days left by ssl_expires_at
  renewal,         \* the task: step, sites to visit, the site at hand, any renewed
  due,             \* the scheduler sleeps until 03:00 "today" or "tomorrow"
  hour,            \* "night" before 03:00, "day" after
  excused,         \* history: days on which an issue was refused, torn or missed
  certCount        \* bounds: days, refusals, tears, stops; excuse of this day

varsCert == <<onDisk, pair, live, inRow, renewal, due, hour, excused, certCount>>
timeVars == <<due, hour, excused>>

Asleep == [step |-> "none", todo |-> {}, site |-> {}, any |-> FALSE]

InitCert ==
  /\ onDisk = [s \in CertSites |-> Lifetime]
  /\ pair = [s \in CertSites |-> TRUE]
  /\ live = onDisk /\ inRow = onDisk
  /\ renewal = Asleep
  /\ due = "today" /\ hour = "night"
  /\ excused = 0
  /\ certCount = [days |-> 0, refused |-> 0, torn |-> 0, stops |-> 0, today |-> FALSE]

Less(left) == [s \in CertSites |-> IF left[s] > 0 THEN left[s] - 1 ELSE 0]

\* A day passes; a task that started at 03:00 has ended by midnight.
Midnight ==
  /\ hour = "day" /\ renewal.step = "none" /\ certCount.days < MaxDays
  /\ hour' = "night" /\ due' = "today"
  /\ onDisk' = Less(onDisk) /\ live' = Less(live) /\ inRow' = Less(inRow)
  /\ excused' = excused + (IF certCount.today THEN 1 ELSE 0)
  /\ certCount' = [certCount EXCEPT !.days = @ + 1, !.today = FALSE]
  /\ UNCHANGED <<pair, renewal>>

\* 03:00: the scheduler queues the task, the worker queries the sites, and the
\* scheduler sleeps until the next day.
ThreeOClock ==
  /\ hour = "night"
  /\ hour' = "day"
  /\ due' = "tomorrow"
  /\ renewal' = IF due = "today"
                THEN [Asleep EXCEPT !.step = "walking", !.todo = CertSites] ELSE renewal
  /\ UNCHANGED <<onDisk, pair, live, inRow, excused, certCount>>

\* validateCertificate refuses what has expired; what is not near is passed by.
NotDue(s) == onDisk[s] = 0 \/ onDisk[s] > RenewDays

Visit(s) == renewal.step = "walking" /\ s \in renewal.todo
Visited(s) == [renewal EXCEPT !.todo = @ \ {s}]

PassBy(s) ==
  /\ Visit(s) /\ NotDue(s)
  /\ renewal' = Visited(s)
  /\ UNCHANGED <<onDisk, pair, live, inRow, timeVars, certCount>>

CaRefuses(s) ==
  /\ Visit(s) /\ ~NotDue(s) /\ certCount.refused < MaxRefusals
  /\ renewal' = Visited(s)
  /\ certCount' = [certCount EXCEPT !.refused = @ + 1, !.today = TRUE]
  /\ UNCHANGED <<onDisk, pair, live, inRow, timeVars>>

\* Mutant: the column is written with the order, before the files.
IssueCertRowFirst(s) ==
  /\ Visit(s) /\ ~NotDue(s)
  /\ inRow' = [inRow EXCEPT ![s] = Lifetime]
  /\ renewal' = [Visited(s) EXCEPT !.step = "issued", !.site = {s}]
  /\ UNCHANGED <<onDisk, pair, live, timeVars, certCount>>

\* The CA answers with a certificate.
IssueCert(s) ==
  /\ Visit(s) /\ ~NotDue(s)
  /\ renewal' = [Visited(s) EXCEPT !.step = "issued", !.site = {s}]
  /\ UNCHANGED <<onDisk, pair, live, inRow, timeVars, certCount>>

\* fullchain.pem is written over the old one.
WriteCert(s) ==
  /\ renewal.step = "issued" /\ renewal.site = {s}
  /\ onDisk' = [onDisk EXCEPT ![s] = Lifetime]
  /\ pair' = [pair EXCEPT ![s] = FALSE]
  /\ renewal' = [renewal EXCEPT !.step = "certified"]
  /\ UNCHANGED <<live, inRow, timeVars, certCount>>

WriteKey(s) ==
  /\ renewal.step = "certified" /\ renewal.site = {s}
  /\ pair' = [pair EXCEPT ![s] = TRUE]
  /\ renewal' = [renewal EXCEPT !.step = "keyed"]
  /\ UNCHANGED <<onDisk, live, inRow, timeVars, certCount>>

\* privkey.pem cannot be written: the site is reported and the walk goes on.
WriteKeyFails(s) ==
  /\ renewal.step = "certified" /\ renewal.site = {s} /\ certCount.torn < MaxTears
  /\ renewal' = [renewal EXCEPT !.step = "walking", !.site = {}]
  /\ certCount' = [certCount EXCEPT !.torn = @ + 1, !.today = TRUE]
  /\ UNCHANGED <<onDisk, pair, live, inRow, timeVars>>

RecordExpiry(s) ==
  /\ renewal.step = "keyed" /\ renewal.site = {s}
  /\ inRow' = [inRow EXCEPT ![s] = Lifetime]
  /\ renewal' = [renewal EXCEPT !.step = "walking", !.site = {}, !.any = TRUE]
  /\ UNCHANGED <<onDisk, pair, live, timeVars, certCount>>

\* nginx reads every certificate with its key, or refuses the reload.
ReloadCerts == live' = IF \A s \in CertSites : pair[s] THEN onDisk ELSE live

\* Mutant: the walk ends without a reload.
EndWalkUnloaded ==
  /\ renewal.step = "walking" /\ renewal.todo = {}
  /\ renewal' = Asleep
  /\ UNCHANGED <<onDisk, pair, live, inRow, timeVars, certCount>>

EndWalk ==
  /\ renewal.step = "walking" /\ renewal.todo = {}
  /\ IF renewal.any THEN ReloadCerts ELSE UNCHANGED live
  /\ renewal' = Asleep
  /\ UNCHANGED <<onDisk, pair, inRow, timeVars, certCount>>

\* The panel restarts: the task is lost, the scheduler sleeps until 03:00 of
\* the next day whatever the hour, and the regeneration of all sites at the
\* start reloads nginx.
StopPanel ==
  /\ certCount.stops < MaxStops
  /\ certCount' = [certCount EXCEPT !.stops = @ + 1, !.today = TRUE,
                     !.torn = @ + (IF renewal.step = "certified" THEN 1 ELSE 0)]
  /\ due' = "tomorrow"
  /\ renewal' = Asleep
  /\ ReloadCerts
  /\ UNCHANGED <<onDisk, pair, inRow, hour, excused>>

NextCert ==
  \/ Midnight \/ ThreeOClock \/ EndWalk \/ StopPanel
  \/ \E s \in CertSites :
       \/ PassBy(s) \/ CaRefuses(s) \/ IssueCert(s) \/ WriteCert(s)
       \/ WriteKey(s) \/ WriteKeyFails(s) \/ RecordExpiry(s)

SpecCert == InitCert /\ [][NextCert]_varsCert

----------------------------------------------------------------------------
\* Each variable has its type.
CertTypeOK ==
  /\ {onDisk, live, inRow} \subseteq [CertSites -> 0..Lifetime]
  /\ pair \in [CertSites -> BOOLEAN]
  /\ renewal \in [step : {"none", "walking", "issued", "certified", "keyed"},
                  todo : SUBSET CertSites, site : SUBSET CertSites, any : BOOLEAN]
  /\ due \in {"today", "tomorrow"} /\ hour \in {"night", "day"} /\ excused \in Nat
  /\ certCount \in [days : Nat, refused : Nat, torn : Nat, stops : Nat, today : BOOLEAN]

\* nginx serves an expired certificate only after as many days as the renewal
\* starts ahead (RenewDays) on which the CA refused or the panel restarted, or
\* after an issue that was cut off between its two files: a certificate whose
\* key is missing looks valid for its whole life, so no night repairs it, and
\* nginx refuses every reload meanwhile.
ServedCertValid ==
  \A s \in CertSites : live[s] = 0 => certCount.torn > 0 \/ excused >= RenewDays

\* The expiry the panel shows and warns by is never later than that of the
\* certificate on disk, whatever step a restart or a failure cuts off.
ExpiryNotOverstated == \A s \in CertSites : inRow[s] <= onDisk[s]
=============================================================================
