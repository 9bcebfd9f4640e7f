----------------------------- MODULE CertProofs -----------------------------
(* Proofs about the renewal of certificates, for any number of sites, days  *)
(* and failures: the panel never shows a later expiry than that of the      *)
(* certificate on disk, and nginx serves an expired one only after as many  *)
(* bad days as the renewal starts ahead.                                    *)
EXTENDS CertRenewal, TLAPS

Task == [step : {"none", "walking", "issued", "certified", "keyed"},
         todo : SUBSET CertSites, site : SUBSET CertSites, any : BOOLEAN]

CertTypes ==
  /\ onDisk \in [CertSites -> 0..Lifetime] /\ inRow \in [CertSites -> 0..Lifetime]
  /\ renewal \in Task

\* The site whose files are being written has the new certificate, and no day
\* passes while the task runs.
NewOnDisk ==
  renewal.step \in {"certified", "keyed"} =>
    \A s \in CertSites : renewal.site = {s} => onDisk[s] = Lifetime

CertInv == CertTypes /\ NewOnDisk /\ ExpiryNotOverstated

\* A step that touches neither of the two dates and does not go on with the
\* files of a site.
LEMMA CertFrame ==
    ASSUME CertInv, renewal' \in Task, UNCHANGED <<onDisk, inRow>>,
           renewal'.step \in {"certified", "keyed"} =>
             renewal.step \in {"certified", "keyed"} /\ renewal'.site = renewal.site
    PROVE  CertInv'
BY DEF CertInv, CertTypes, NewOnDisk, ExpiryNotOverstated

LEMMA TaskFacts ==
    ASSUME CertInv, NEW s \in CertSites
    PROVE  /\ Asleep \in Task /\ Asleep.step = "none"
           /\ [Asleep EXCEPT !.step = "walking", !.todo = CertSites] \in Task
           /\ [Asleep EXCEPT !.step = "walking", !.todo = CertSites].step = "walking"
           /\ Visited(s) \in Task /\ Visited(s).step = renewal.step
           /\ [Visited(s) EXCEPT !.step = "issued", !.site = {s}] \in Task
           /\ [Visited(s) EXCEPT !.step = "issued", !.site = {s}].step = "issued"
BY DEF CertInv, CertTypes, Task, Asleep, Visited

LEMMA MidnightStep == ASSUME CertInv, Midnight PROVE CertInv'
<1>1. /\ onDisk' = Less(onDisk) /\ inRow' = Less(inRow)
      /\ renewal' = renewal /\ renewal.step = "none"
  BY DEF Midnight
<1>2. Lifetime \in Nat  BY CertAssumption
<1>3. \A s \in CertSites : /\ onDisk[s] \in 0..Lifetime /\ inRow[s] \in 0..Lifetime
                           /\ inRow[s] <= onDisk[s]
  BY DEF CertInv, CertTypes, ExpiryNotOverstated
<1>4. CertTypes'  BY <1>1, <1>2, <1>3 DEF Less, CertInv, CertTypes
<1>5. NewOnDisk'  BY <1>1 DEF NewOnDisk
<1>6. ExpiryNotOverstated'  BY <1>1, <1>2, <1>3 DEF Less, ExpiryNotOverstated
<1>7. QED  BY <1>4, <1>5, <1>6 DEF CertInv

\* The walk, the answer of the CA, the end and a restart: no date changes.
LEMMA WalkStep ==
    ASSUME CertInv, NEW s \in CertSites, PassBy(s) \/ CaRefuses(s) \/ IssueCert(s)
    PROVE  CertInv'
<1>1. renewal.step = "walking"  BY DEF PassBy, CaRefuses, IssueCert, Visit
<1>2. /\ UNCHANGED <<onDisk, inRow>>
      /\ renewal' \in {Visited(s), [Visited(s) EXCEPT !.step = "issued", !.site = {s}]}
  BY DEF PassBy, CaRefuses, IssueCert
<1>3. renewal' \in Task /\ renewal'.step \in {"walking", "issued"}
  BY <1>1, <1>2, TaskFacts
<1>4. QED  BY <1>2, <1>3, CertFrame

LEMMA NewNightStep ==
    ASSUME CertInv, ThreeOClock \/ EndWalk \/ StopPanel
    PROVE  CertInv'
<1>1. /\ UNCHANGED <<onDisk, inRow>>
      /\ renewal' \in {Asleep, renewal, [Asleep EXCEPT !.step = "walking", !.todo = CertSites]}
  BY DEF ThreeOClock, EndWalk, StopPanel
<1>2. Asleep \in Task /\ [Asleep EXCEPT !.step = "walking", !.todo = CertSites] \in Task
      /\ Asleep.step = "none"
      /\ [Asleep EXCEPT !.step = "walking", !.todo = CertSites].step = "walking"
  BY DEF Asleep, Task
<1>3. renewal \in Task  BY DEF CertInv, CertTypes
<1>4. QED  BY <1>1, <1>2, <1>3, CertFrame

\* The certificate is written: the new one lasts longer than the row says.
LEMMA WriteCertStep == ASSUME CertInv, NEW s \in CertSites, WriteCert(s) PROVE CertInv'
<1>1. /\ onDisk' = [onDisk EXCEPT ![s] = Lifetime] /\ inRow' = inRow
      /\ renewal' = [renewal EXCEPT !.step = "certified"] /\ renewal.site = {s}
  BY DEF WriteCert
<1>2. Lifetime \in Nat  BY CertAssumption
<1>3. renewal \in Task /\ onDisk \in [CertSites -> 0..Lifetime]
      /\ inRow \in [CertSites -> 0..Lifetime]
  BY DEF CertInv, CertTypes
<1>4. renewal' \in Task /\ renewal'.site = {s}  BY <1>1, <1>3 DEF Task
<1>5. CertTypes'  BY <1>1, <1>2, <1>3, <1>4 DEF CertTypes
<1>6. NewOnDisk'  BY <1>1, <1>3, <1>4 DEF NewOnDisk
<1>7. ASSUME NEW o \in CertSites PROVE inRow'[o] <= onDisk'[o]
  <2>1. inRow[o] <= onDisk[o] /\ inRow[o] \in 0..Lifetime
    BY <1>3 DEF CertInv, ExpiryNotOverstated
  <2>2. QED  BY <1>1, <1>2, <1>3, <2>1
<1>8. QED  BY <1>5, <1>6, <1>7 DEF CertInv, ExpiryNotOverstated

LEMMA WriteKeyStep ==
    ASSUME CertInv, NEW s \in CertSites, WriteKey(s) \/ WriteKeyFails(s)
    PROVE  CertInv'
<1>1. /\ UNCHANGED <<onDisk, inRow>> /\ renewal.step = "certified"
      /\ renewal' \in {[renewal EXCEPT !.step = "keyed"],
                       [renewal EXCEPT !.step = "walking", !.site = {}]}
  BY DEF WriteKey, WriteKeyFails
<1>2. renewal \in Task  BY DEF CertInv, CertTypes
<1>3. [renewal EXCEPT !.step = "keyed"] \in Task
      /\ [renewal EXCEPT !.step = "keyed"].site = renewal.site
      /\ [renewal EXCEPT !.step = "walking", !.site = {}] \in Task
      /\ [renewal EXCEPT !.step = "walking", !.site = {}].step = "walking"
  BY <1>2 DEF Task
<1>4. QED  BY <1>1, <1>3, CertFrame

\* The column is written last, when the certificate on disk is the new one.
LEMMA RecordStep == ASSUME CertInv, NEW s \in CertSites, RecordExpiry(s) PROVE CertInv'
<1>1. /\ inRow' = [inRow EXCEPT ![s] = Lifetime] /\ onDisk' = onDisk
      /\ renewal' = [renewal EXCEPT !.step = "walking", !.site = {}, !.any = TRUE]
      /\ renewal.step = "keyed" /\ renewal.site = {s}
  BY DEF RecordExpiry
<1>2. Lifetime \in Nat  BY CertAssumption
<1>3. renewal \in Task /\ onDisk \in [CertSites -> 0..Lifetime]
      /\ inRow \in [CertSites -> 0..Lifetime]
  BY DEF CertInv, CertTypes
<1>4. renewal' \in Task /\ renewal'.step = "walking"  BY <1>1, <1>3 DEF Task
<1>5. CertTypes'  BY <1>1, <1>2, <1>3, <1>4 DEF CertTypes
<1>6. NewOnDisk'  BY <1>4 DEF NewOnDisk
<1>7. onDisk[s] = Lifetime  BY <1>1 DEF CertInv, NewOnDisk
<1>8. ASSUME NEW o \in CertSites PROVE inRow'[o] <= onDisk'[o]
  BY <1>1, <1>2, <1>3, <1>7 DEF CertInv, ExpiryNotOverstated
<1>9. QED  BY <1>5, <1>6, <1>8 DEF CertInv, ExpiryNotOverstated

LEMMA CertStep == ASSUME CertInv, [NextCert]_varsCert PROVE CertInv'
<1>1. CASE UNCHANGED varsCert
  BY <1>1 DEF varsCert, CertInv, CertTypes, NewOnDisk, ExpiryNotOverstated
<1>2. QED
  BY <1>1, MidnightStep, WalkStep, NewNightStep, WriteCertStep, WriteKeyStep, RecordStep
  DEF NextCert

LEMMA CertInitially == ASSUME InitCert PROVE CertInv
<1>1. onDisk = [s \in CertSites |-> Lifetime] /\ inRow = onDisk /\ renewal = Asleep
  BY DEF InitCert
<1>2. Asleep \in Task /\ Asleep.step = "none"  BY DEF Asleep, Task
<1>3. Lifetime \in Nat  BY CertAssumption
<1>4. QED
  BY <1>1, <1>2, <1>3 DEF CertInv, CertTypes, NewOnDisk, ExpiryNotOverstated

\* RenewAllCerts, issueCertificate: the expiry the panel shows and warns by is
\* never later than that of the certificate on disk, whatever step a failure of
\* the CA, of a write or a restart cuts off.
THEOREM ExpirySound == SpecCert => []ExpiryNotOverstated
<1>1. InitCert => CertInv  BY CertInitially
<1>2. CertInv /\ [NextCert]_varsCert => CertInv'  BY CertStep
<1>3. CertInv => ExpiryNotOverstated  BY DEF CertInv
<1>4. QED  BY <1>1, <1>2, <1>3, PTL DEF SpecCert

(* What nginx serves.  While no issue was torn, a site that has d days left  *)
(* has lost RenewDays - d days to the CA or to restarts.                     *)

Count == [days : Nat, refused : Nat, torn : Nat, stops : Nat, today : BOOLEAN]

CountTypes ==
  /\ live \in [CertSites -> 0..Lifetime] /\ pair \in [CertSites -> BOOLEAN]
  /\ hour \in {"night", "day"} /\ due \in {"today", "tomorrow"} /\ excused \in Nat
  /\ certCount \in Count

\* The task of this night has dealt with the site.
Passed(s) ==
  /\ hour = "day"
  /\ renewal.step = "none" \/ s \notin renewal.todo
  /\ ~(renewal.step = "issued" /\ renewal.site = {s})

\* The days that are left, against the days that were lost.
DaysAccounted ==
  \A s \in CertSites :
    /\ onDisk[s] + excused >= RenewDays
    /\ Passed(s) => certCount.today \/ onDisk[s] = 0 \/ onDisk[s] + excused > RenewDays

\* A site that is being renewed is not expired.
IssuesInTime ==
  \A s \in CertSites : renewal.step = "issued" /\ renewal.site = {s} => onDisk[s] > 0

\* Before 03:00 there is no task, and none to come only after a restart.
NightIsDue ==
  hour = "night" => renewal.step = "none" /\ (due = "tomorrow" => certCount.today)

\* The two files belong together, but between their writes.
PairsWhole ==
  \A s \in CertSites : pair[s] \/ (renewal.step = "certified" /\ renewal.site = {s})

\* nginx serves what is on disk, but while the walk has not reloaded it.
ServesDisk ==
  \A s \in CertSites :
    \/ live[s] = onDisk[s]
    \/ /\ live[s] > 0 /\ renewal.step # "none"
       /\ renewal.any \/ (renewal.step \in {"certified", "keyed"} /\ renewal.site = {s})

ServeInv ==
  /\ CertInv /\ CountTypes
  /\ certCount.torn = 0 =>
       DaysAccounted /\ IssuesInTime /\ NightIsDue /\ PairsWhole /\ ServesDisk

\* What the types give to the arithmetic below.
LEMMA CertNumbers ==
    ASSUME ServeInv
    PROVE  /\ RenewDays \in Nat /\ RenewDays > 0 /\ Lifetime \in Nat /\ Lifetime > RenewDays
           /\ excused \in Nat /\ certCount.torn \in Nat
           /\ \A s \in CertSites : onDisk[s] \in Nat /\ live[s] \in Nat
                                   /\ onDisk[s] <= Lifetime /\ live[s] <= Lifetime
<1>1. RenewDays \in Nat /\ RenewDays > 0 /\ Lifetime \in Nat /\ Lifetime > RenewDays
  BY CertAssumption
<1>2. \A s \in CertSites : onDisk[s] \in 0..Lifetime /\ live[s] \in 0..Lifetime
  BY DEF ServeInv, CertInv, CertTypes, CountTypes
<1>3. QED  BY <1>1, <1>2 DEF ServeInv, CountTypes, Count

LEMMA DayCounted ==
    ASSUME CountTypes, certCount' = [certCount EXCEPT !.days = @ + 1, !.today = FALSE]
    PROVE  certCount' \in Count /\ certCount'.torn = certCount.torn /\ certCount'.today = FALSE
<1> DEFINE n == certCount.days + 1
<1>1. certCount \in Count /\ n \in Nat  BY DEF CountTypes, Count
<1> HIDE DEF n
<1>2. ASSUME NEW b \in BOOLEAN, certCount' = [certCount EXCEPT !.days = n, !.today = b]
      PROVE  certCount' \in Count /\ certCount'.torn = certCount.torn /\ certCount'.today = b
  BY <1>1, <1>2 DEF Count
<1>3. certCount' = [certCount EXCEPT !.days = n, !.today = FALSE]  BY DEF n
<1>4. QED  BY <1>2, <1>3

LEMMA RefusalCounted ==
    ASSUME CountTypes, certCount' = [certCount EXCEPT !.refused = @ + 1, !.today = TRUE]
    PROVE  certCount' \in Count /\ certCount'.torn = certCount.torn /\ certCount'.today = TRUE
<1> DEFINE n == certCount.refused + 1
<1>1. certCount \in Count /\ n \in Nat  BY DEF CountTypes, Count
<1> HIDE DEF n
<1>2. ASSUME NEW b \in BOOLEAN, certCount' = [certCount EXCEPT !.refused = n, !.today = b]
      PROVE  certCount' \in Count /\ certCount'.torn = certCount.torn /\ certCount'.today = b
  BY <1>1, <1>2 DEF Count
<1>3. certCount' = [certCount EXCEPT !.refused = n, !.today = TRUE]  BY DEF n
<1>4. QED  BY <1>2, <1>3

LEMMA TearCounted ==
    ASSUME CountTypes, certCount' = [certCount EXCEPT !.torn = @ + 1, !.today = TRUE]
    PROVE  certCount' \in Count /\ certCount'.torn > 0
<1> DEFINE n == certCount.torn + 1
<1>1. certCount \in Count /\ n \in Nat /\ n > 0  BY DEF CountTypes, Count
<1> HIDE DEF n
<1>2. ASSUME NEW b \in BOOLEAN, certCount' = [certCount EXCEPT !.torn = n, !.today = b]
      PROVE  certCount' \in Count /\ certCount'.torn = n
  BY <1>1, <1>2 DEF Count
<1>3. certCount' = [certCount EXCEPT !.torn = n, !.today = TRUE]  BY DEF n
<1>4. QED  BY <1>1, <1>2, <1>3

LEMMA StopCounted ==
    ASSUME CountTypes, NEW cut \in Nat,
           certCount' = [certCount EXCEPT !.stops = @ + 1, !.today = TRUE, !.torn = @ + cut]
    PROVE  /\ certCount' \in Count /\ certCount'.torn = certCount.torn + cut
           /\ certCount'.today = TRUE
<1> DEFINE n == certCount.stops + 1
           m == certCount.torn + cut
<1>1. certCount \in Count /\ n \in Nat /\ m \in Nat  BY DEF CountTypes, Count
<1> HIDE DEF n, m
<1>2. ASSUME NEW b \in BOOLEAN,
             certCount' = [certCount EXCEPT !.stops = n, !.today = b, !.torn = m]
      PROVE  certCount' \in Count /\ certCount'.torn = m /\ certCount'.today = b
  BY <1>1, <1>2 DEF Count
<1>3. certCount' = [certCount EXCEPT !.stops = n, !.today = TRUE, !.torn = m]
  BY DEF n, m
<1>4. m = certCount.torn + cut  BY DEF m
<1>5. QED  BY <1>2, <1>3, <1>4

\* The counts and what nginx serves keep their types.
LEMMA CountTypesStep == ASSUME ServeInv, [NextCert]_varsCert PROVE CountTypes'
<1>1. CertTypes /\ CountTypes  BY DEF ServeInv, CertInv
<1>2. certCount' \in Count
  <2>1. \/ certCount' = certCount
        \/ certCount' = [certCount EXCEPT !.days = @ + 1, !.today = FALSE]
        \/ certCount' = [certCount EXCEPT !.refused = @ + 1, !.today = TRUE]
        \/ certCount' = [certCount EXCEPT !.torn = @ + 1, !.today = TRUE]
        \/ certCount' = [certCount EXCEPT !.stops = @ + 1, !.today = TRUE,
                           !.torn = @ + (IF renewal.step = "certified" THEN 1 ELSE 0)]
    BY DEF NextCert, varsCert, timeVars, Midnight, ThreeOClock, EndWalk, StopPanel, PassBy,
           CaRefuses, IssueCert, WriteCert, WriteKey, WriteKeyFails, RecordExpiry
  <2> DEFINE cut == IF renewal.step = "certified" THEN 1 ELSE 0
  <2>2. certCount \in Count /\ cut \in Nat  BY <1>1 DEF CountTypes
  <2>3. QED
    BY <1>1, <2>1, <2>2, DayCounted, RefusalCounted, TearCounted, StopCounted
<1>3. hour' \in {"night", "day"} /\ due' \in {"today", "tomorrow"} /\ excused' \in Nat
  <2>1. /\ hour' \in {hour, "night", "day"} /\ due' \in {due, "today", "tomorrow"}
        /\ \/ excused' = excused
           \/ excused' = excused + (IF certCount.today THEN 1 ELSE 0)
    BY DEF NextCert, varsCert, timeVars, Midnight, ThreeOClock, EndWalk, StopPanel, PassBy,
           CaRefuses, IssueCert, WriteCert, WriteKey, WriteKeyFails, RecordExpiry
  <2>2. QED  BY <1>1, <2>1 DEF CountTypes
<1>4. pair' \in [CertSites -> BOOLEAN]
  BY <1>1
  DEF CountTypes, NextCert, varsCert, timeVars, Midnight, ThreeOClock, EndWalk, StopPanel,
      PassBy, CaRefuses, IssueCert, WriteCert, WriteKey, WriteKeyFails, RecordExpiry
<1>5. live' \in [CertSites -> 0..Lifetime]
  <2>1. live' \in {live, onDisk, Less(live)}
    BY DEF NextCert, varsCert, timeVars, Midnight, ThreeOClock, EndWalk, StopPanel, ReloadCerts,
           PassBy, CaRefuses, IssueCert, WriteCert, WriteKey, WriteKeyFails, RecordExpiry
  <2>2. Less(live) \in [CertSites -> 0..Lifetime]
    <3>1. \A s \in CertSites : live[s] \in Nat /\ live[s] <= Lifetime /\ Lifetime \in Nat
      BY CertNumbers
    <3>2. \A s \in CertSites : (IF live[s] > 0 THEN live[s] - 1 ELSE 0) \in 0..Lifetime
      BY <3>1
    <3>3. QED  BY <3>2 DEF Less
  <2>3. QED  BY <1>1, <2>1, <2>2 DEF CertTypes, CountTypes
<1>6. QED  BY <1>2, <1>3, <1>4, <1>5 DEF CountTypes

\* A day passes: it was lost, or everything that is not expired had more than
\* RenewDays.
LEMMA MidnightServe ==
    ASSUME ServeInv, Midnight, certCount'.torn = 0
    PROVE  (DaysAccounted /\ IssuesInTime /\ NightIsDue /\ PairsWhole /\ ServesDisk)'
<1>1. /\ hour = "day" /\ renewal.step = "none" /\ hour' = "night" /\ due' = "today"
      /\ onDisk' = Less(onDisk) /\ live' = Less(live) /\ UNCHANGED <<pair, renewal>>
      /\ excused' = excused + (IF certCount.today THEN 1 ELSE 0)
      /\ certCount' = [certCount EXCEPT !.days = @ + 1, !.today = FALSE]
  BY DEF Midnight
<1>2. certCount.torn = 0  BY <1>1, DayCounted DEF ServeInv
<1>3. DaysAccounted /\ IssuesInTime /\ PairsWhole /\ ServesDisk /\ certCount.today \in BOOLEAN
  BY <1>2 DEF ServeInv, CountTypes, Count
<1>4. ASSUME NEW s \in CertSites PROVE onDisk'[s] + excused' >= RenewDays /\ ~Passed(s)'
  <2>1. Passed(s) /\ ~Passed(s)'  BY <1>1 DEF Passed
  <2>2. /\ onDisk[s] \in Nat /\ excused \in Nat /\ RenewDays \in Nat
        /\ onDisk[s] + excused >= RenewDays
        /\ certCount.today \/ onDisk[s] = 0 \/ onDisk[s] + excused > RenewDays
    BY <1>3, <2>1, CertNumbers DEF DaysAccounted
  <2>3. onDisk'[s] = IF onDisk[s] > 0 THEN onDisk[s] - 1 ELSE 0  BY <1>1 DEF Less
  <2>4. excused' = IF certCount.today THEN excused + 1 ELSE excused
    BY <1>1, <2>2
  <2>5. QED  BY <2>1, <2>2, <2>3, <2>4
<1>5. DaysAccounted'  BY <1>4 DEF DaysAccounted
<1>6. IssuesInTime' /\ NightIsDue' /\ PairsWhole'
  BY <1>1, <1>3 DEF IssuesInTime, NightIsDue, PairsWhole
<1>7. ServesDisk'  BY <1>1, <1>3 DEF ServesDisk, Less
<1>8. QED  BY <1>5, <1>6, <1>7

\* The walk begins with every site to visit, or a restart has cost the day.
LEMMA NightServe ==
    ASSUME ServeInv, ThreeOClock, certCount'.torn = 0
    PROVE  (DaysAccounted /\ IssuesInTime /\ NightIsDue /\ PairsWhole /\ ServesDisk)'
<1>1. /\ hour = "night" /\ hour' = "day" /\ UNCHANGED <<onDisk, live, pair, excused, certCount>>
      /\ renewal' = IF due = "today"
                    THEN [Asleep EXCEPT !.step = "walking", !.todo = CertSites] ELSE renewal
  BY DEF ThreeOClock
<1>2. /\ DaysAccounted /\ PairsWhole /\ ServesDisk /\ due \in {"today", "tomorrow"}
      /\ renewal.step = "none" /\ (due = "tomorrow" => certCount.today)
  BY <1>1 DEF ServeInv, CountTypes, NightIsDue
<1>3. \A s \in CertSites : live[s] = onDisk[s] /\ pair[s]
  BY <1>2 DEF PairsWhole, ServesDisk
<1>4. CASE due = "today"
  <2> DEFINE walk == [Asleep EXCEPT !.step = "walking", !.todo = CertSites]
  <2>1. renewal' = walk /\ walk.step = "walking" /\ walk.todo = CertSites
    BY <1>1, <1>4 DEF Asleep
  <2> HIDE DEF walk
  <2>2. \A s \in CertSites : ~Passed(s)'  BY <2>1 DEF Passed
  <2>3. DaysAccounted'  BY <1>1, <1>2, <2>2 DEF DaysAccounted
  <2>4. QED
    BY <1>1, <1>3, <2>1, <2>3 DEF IssuesInTime, NightIsDue, PairsWhole, ServesDisk
<1>5. CASE due = "tomorrow"
  <2>1. renewal' = renewal /\ certCount.today  BY <1>1, <1>2, <1>5
  <2>2. DaysAccounted'  BY <1>1, <1>2, <2>1 DEF DaysAccounted
  <2>3. QED
    BY <1>1, <1>2, <1>3, <2>1, <2>2 DEF IssuesInTime, NightIsDue, PairsWhole, ServesDisk
<1>6. QED  BY <1>2, <1>4, <1>5

\* The task that has dealt with one more site.
LEMMA VisitedFacts ==
    ASSUME ServeInv, certCount.torn = 0, NEW s \in CertSites, Visit(s)
    PROVE  /\ hour = "day" /\ renewal.step = "walking" /\ s \in renewal.todo
           /\ Visited(s).step = "walking" /\ Visited(s).todo = renewal.todo \ {s}
           /\ Visited(s).any = renewal.any
           /\ [Visited(s) EXCEPT !.step = "issued", !.site = {s}].step = "issued"
           /\ [Visited(s) EXCEPT !.step = "issued", !.site = {s}].site = {s}
           /\ [Visited(s) EXCEPT !.step = "issued", !.site = {s}].todo = renewal.todo \ {s}
           /\ [Visited(s) EXCEPT !.step = "issued", !.site = {s}].any = renewal.any
<1>1. renewal \in Task  BY DEF ServeInv, CertInv, CertTypes
<1>2. renewal.step = "walking" /\ s \in renewal.todo  BY DEF Visit
<1>3. hour = "day"  BY <1>2 DEF ServeInv, CountTypes, NightIsDue
<1>4. QED  BY <1>1, <1>2, <1>3 DEF Visited, Task

\* A site that is passed by is expired or has more than RenewDays left.
LEMMA PassByServe ==
    ASSUME ServeInv, NEW s \in CertSites, PassBy(s), certCount'.torn = 0
    PROVE  (DaysAccounted /\ IssuesInTime /\ NightIsDue /\ PairsWhole /\ ServesDisk)'
<1>1. /\ renewal' = Visited(s) /\ NotDue(s) /\ Visit(s)
      /\ UNCHANGED <<onDisk, pair, live, due, hour, excused, certCount>>
  BY DEF PassBy, timeVars
<1>2. DaysAccounted /\ NightIsDue /\ PairsWhole /\ ServesDisk /\ certCount.torn = 0
  BY <1>1 DEF ServeInv
<1>3. /\ hour = "day" /\ renewal.step = "walking" /\ renewal'.step = "walking"
      /\ renewal'.todo = renewal.todo \ {s} /\ renewal'.any = renewal.any
  BY <1>1, <1>2, VisitedFacts
<1>4. DaysAccounted'
  <2>1. ASSUME NEW o \in CertSites, Passed(o)'
        PROVE  certCount.today \/ onDisk[o] = 0 \/ onDisk[o] + excused > RenewDays
    <3>1. CASE o = s  BY <1>1, <3>1, CertNumbers DEF NotDue
    <3>2. CASE o # s
      <4>1. Passed(o)  BY <1>1, <1>3, <2>1, <3>2 DEF Passed
      <4>2. QED  BY <1>2, <4>1 DEF DaysAccounted
    <3>3. QED  BY <3>1, <3>2
  <2>2. QED  BY <1>1, <1>2, <2>1 DEF DaysAccounted
<1>5. QED
  BY <1>1, <1>2, <1>3, <1>4 DEF IssuesInTime, NightIsDue, PairsWhole, ServesDisk

\* A refusal costs the day.
LEMMA RefusalServe ==
    ASSUME ServeInv, NEW s \in CertSites, CaRefuses(s), certCount'.torn = 0
    PROVE  (DaysAccounted /\ IssuesInTime /\ NightIsDue /\ PairsWhole /\ ServesDisk)'
<1>1. /\ renewal' = Visited(s) /\ Visit(s)
      /\ certCount' = [certCount EXCEPT !.refused = @ + 1, !.today = TRUE]
      /\ UNCHANGED <<onDisk, pair, live, due, hour, excused>>
  BY DEF CaRefuses, timeVars
<1>2. certCount.torn = 0 /\ certCount'.today = TRUE
  BY <1>1, RefusalCounted DEF ServeInv
<1>3. DaysAccounted /\ PairsWhole /\ ServesDisk  BY <1>2 DEF ServeInv
<1>4. /\ hour = "day" /\ renewal.step = "walking" /\ renewal'.step = "walking"
      /\ renewal'.any = renewal.any
  BY <1>1, <1>2, VisitedFacts
<1>5. QED
  BY <1>1, <1>2, <1>3, <1>4
  DEF DaysAccounted, IssuesInTime, NightIsDue, PairsWhole, ServesDisk

LEMMA IssueServe ==
    ASSUME ServeInv, NEW s \in CertSites, IssueCert(s), certCount'.torn = 0
    PROVE  (DaysAccounted /\ IssuesInTime /\ NightIsDue /\ PairsWhole /\ ServesDisk)'
<1>1. /\ renewal' = [Visited(s) EXCEPT !.step = "issued", !.site = {s}]
      /\ ~NotDue(s) /\ Visit(s)
      /\ UNCHANGED <<onDisk, pair, live, due, hour, excused, certCount>>
  BY DEF IssueCert, timeVars
<1>2. DaysAccounted /\ PairsWhole /\ ServesDisk /\ certCount.torn = 0
  BY <1>1 DEF ServeInv
<1>3. /\ hour = "day" /\ renewal.step = "walking" /\ renewal'.step = "issued"
      /\ renewal'.site = {s} /\ renewal'.todo = renewal.todo \ {s}
      /\ renewal'.any = renewal.any
  BY <1>1, <1>2, VisitedFacts
<1>4. DaysAccounted'
  <2>1. ASSUME NEW o \in CertSites, Passed(o)' PROVE Passed(o)
    <3>1. o # s  BY <1>3, <2>1 DEF Passed
    <3>2. QED  BY <1>1, <1>3, <2>1, <3>1 DEF Passed
  <2>2. QED  BY <1>1, <1>2, <2>1 DEF DaysAccounted
<1>5. IssuesInTime'  BY <1>1, <1>3, CertNumbers DEF IssuesInTime, NotDue
<1>6. QED
  BY <1>1, <1>2, <1>3, <1>4, <1>5 DEF NightIsDue, PairsWhole, ServesDisk

\* The new certificate has more than RenewDays left; nginx serves the old one,
\* which was not expired when it was renewed.
LEMMA WriteServe ==
    ASSUME ServeInv, NEW s \in CertSites, WriteCert(s), certCount'.torn = 0
    PROVE  (DaysAccounted /\ IssuesInTime /\ NightIsDue /\ PairsWhole /\ ServesDisk)'
<1>1. /\ renewal.step = "issued" /\ renewal.site = {s}
      /\ onDisk' = [onDisk EXCEPT ![s] = Lifetime] /\ pair' = [pair EXCEPT ![s] = FALSE]
      /\ renewal' = [renewal EXCEPT !.step = "certified"]
      /\ UNCHANGED <<live, due, hour, excused, certCount>>
  BY DEF WriteCert, timeVars
<1>2. /\ DaysAccounted /\ IssuesInTime /\ NightIsDue /\ PairsWhole /\ ServesDisk
      /\ onDisk \in [CertSites -> 0..Lifetime] /\ pair \in [CertSites -> BOOLEAN]
      /\ renewal \in Task
  BY <1>1 DEF ServeInv, CertInv, CertTypes, CountTypes
<1>3. /\ renewal'.step = "certified" /\ renewal'.site = {s}
      /\ renewal'.todo = renewal.todo /\ renewal'.any = renewal.any
  BY <1>1, <1>2 DEF Task
<1>4. hour # "night"  BY <1>1, <1>2 DEF NightIsDue
<1>5. /\ onDisk'[s] = Lifetime
      /\ \A o \in CertSites : o # s => onDisk'[o] = onDisk[o] /\ pair'[o] = pair[o]
  BY <1>1, <1>2
<1>6. DaysAccounted'
  <2>1. ASSUME NEW o \in CertSites, o # s, Passed(o)' PROVE Passed(o)
    BY <1>1, <1>3, <2>1 DEF Passed
  <2>2. ASSUME NEW o \in CertSites
        PROVE  /\ onDisk'[o] + excused >= RenewDays
               /\ Passed(o)' => certCount.today \/ onDisk'[o] = 0
                                \/ onDisk'[o] + excused > RenewDays
    <3>1. CASE o = s  BY <1>5, <3>1, CertNumbers
    <3>2. CASE o # s  BY <1>2, <1>5, <2>1, <3>2 DEF DaysAccounted
    <3>3. QED  BY <3>1, <3>2
  <2>3. QED  BY <1>1, <2>2 DEF DaysAccounted
<1>7. PairsWhole'  BY <1>1, <1>2, <1>3, <1>5 DEF PairsWhole
<1>8. ServesDisk'
  <2>1. live[s] > 0
    <3>1. live[s] = onDisk[s] \/ live[s] > 0  BY <1>2 DEF ServesDisk
    <3>2. onDisk[s] > 0  BY <1>1, <1>2 DEF IssuesInTime
    <3>3. QED  BY <3>1, <3>2
  <2>2. ASSUME NEW o \in CertSites, o # s
        PROVE  live[o] = onDisk'[o] \/ (live[o] > 0 /\ renewal.any)
    <3>1. renewal.site # {o}  BY <1>1, <2>2
    <3>2. QED  BY <1>1, <1>2, <1>5, <2>2, <3>1 DEF ServesDisk
  <2>3. QED  BY <1>1, <1>3, <2>1, <2>2 DEF ServesDisk
<1>9. QED  BY <1>1, <1>3, <1>4, <1>6, <1>7, <1>8 DEF IssuesInTime, NightIsDue

LEMMA KeyServe ==
    ASSUME ServeInv, NEW s \in CertSites, WriteKey(s), certCount'.torn = 0
    PROVE  (DaysAccounted /\ IssuesInTime /\ NightIsDue /\ PairsWhole /\ ServesDisk)'
<1>1. /\ renewal.step = "certified" /\ renewal.site = {s}
      /\ pair' = [pair EXCEPT ![s] = TRUE]
      /\ renewal' = [renewal EXCEPT !.step = "keyed"]
      /\ UNCHANGED <<onDisk, live, due, hour, excused, certCount>>
  BY DEF WriteKey, timeVars
<1>2. /\ DaysAccounted /\ NightIsDue /\ PairsWhole /\ ServesDisk
      /\ pair \in [CertSites -> BOOLEAN] /\ renewal \in Task
  BY <1>1 DEF ServeInv, CertInv, CertTypes, CountTypes
<1>3. /\ renewal'.step = "keyed" /\ renewal'.site = {s}
      /\ renewal'.todo = renewal.todo /\ renewal'.any = renewal.any
  BY <1>1, <1>2 DEF Task
<1>4. hour # "night"  BY <1>1, <1>2 DEF NightIsDue
<1>5. \A o \in CertSites : Passed(o)' => Passed(o)  BY <1>1, <1>3 DEF Passed
<1>6. DaysAccounted'  BY <1>1, <1>2, <1>5 DEF DaysAccounted
<1>7. PairsWhole'
  <2>1. ASSUME NEW o \in CertSites PROVE pair'[o]
    <3>1. CASE o = s  BY <1>1, <1>2, <3>1
    <3>2. CASE o # s
      <4>1. renewal.site # {o}  BY <1>1, <3>2
      <4>2. QED  BY <1>1, <1>2, <3>2, <4>1 DEF PairsWhole
    <3>3. QED  BY <3>1, <3>2
  <2>2. QED  BY <2>1 DEF PairsWhole
<1>8. ServesDisk'  BY <1>1, <1>2, <1>3 DEF ServesDisk
<1>9. QED  BY <1>1, <1>3, <1>4, <1>6, <1>7, <1>8 DEF IssuesInTime, NightIsDue

LEMMA RecordServe ==
    ASSUME ServeInv, NEW s \in CertSites, RecordExpiry(s), certCount'.torn = 0
    PROVE  (DaysAccounted /\ IssuesInTime /\ NightIsDue /\ PairsWhole /\ ServesDisk)'
<1>1. /\ renewal.step = "keyed" /\ renewal.site = {s}
      /\ renewal' = [renewal EXCEPT !.step = "walking", !.site = {}, !.any = TRUE]
      /\ UNCHANGED <<onDisk, pair, live, due, hour, excused, certCount>>
  BY DEF RecordExpiry, timeVars
<1>2. /\ DaysAccounted /\ NightIsDue /\ PairsWhole /\ ServesDisk /\ renewal \in Task
  BY <1>1 DEF ServeInv, CertInv, CertTypes
<1>3. /\ renewal'.step = "walking" /\ renewal'.any = TRUE
      /\ renewal'.todo = renewal.todo
  BY <1>1, <1>2 DEF Task
<1>4. hour # "night"  BY <1>1, <1>2 DEF NightIsDue
<1>5. \A o \in CertSites : Passed(o)' => Passed(o)  BY <1>1, <1>3 DEF Passed
<1>6. DaysAccounted'  BY <1>1, <1>2, <1>5 DEF DaysAccounted
<1>7. PairsWhole'  BY <1>1, <1>2 DEF PairsWhole
<1>8. ServesDisk'  BY <1>1, <1>2, <1>3 DEF ServesDisk
<1>9. QED  BY <1>1, <1>3, <1>4, <1>6, <1>7, <1>8 DEF IssuesInTime, NightIsDue

\* The walk is over: nginx reads every certificate, unless none has changed.
LEMMA EndServe ==
    ASSUME ServeInv, EndWalk, certCount'.torn = 0
    PROVE  (DaysAccounted /\ IssuesInTime /\ NightIsDue /\ PairsWhole /\ ServesDisk)'
<1>1. /\ renewal.step = "walking" /\ renewal.todo = {} /\ renewal' = Asleep
      /\ IF renewal.any THEN ReloadCerts ELSE UNCHANGED live
      /\ UNCHANGED <<onDisk, pair, due, hour, excused, certCount>>
  BY DEF EndWalk, timeVars
<1>2. DaysAccounted /\ NightIsDue /\ PairsWhole /\ ServesDisk  BY <1>1 DEF ServeInv
<1>3. renewal'.step = "none"  BY <1>1 DEF Asleep
<1>4. hour = "day"  BY <1>1, <1>2 DEF ServeInv, CountTypes, NightIsDue
<1>5. \A o \in CertSites : Passed(o)  BY <1>1, <1>4 DEF Passed
<1>6. DaysAccounted'  BY <1>1, <1>2, <1>5 DEF DaysAccounted
<1>7. \A o \in CertSites : pair[o]  BY <1>1, <1>2 DEF PairsWhole
<1>8. \A o \in CertSites : live'[o] = onDisk[o]
  <2>1. CASE renewal.any  BY <1>1, <1>7, <2>1 DEF ReloadCerts
  <2>2. CASE ~renewal.any  BY <1>1, <1>2, <2>2 DEF ServesDisk
  <2>3. QED  BY <2>1, <2>2
<1>9. QED
  BY <1>1, <1>3, <1>4, <1>6, <1>7, <1>8 DEF IssuesInTime, NightIsDue, PairsWhole, ServesDisk

\* A restart costs the day; if it does not fall between the two files, nginx
\* reads every certificate.
LEMMA StopServe ==
    ASSUME ServeInv, StopPanel, certCount'.torn = 0
    PROVE  (DaysAccounted /\ IssuesInTime /\ NightIsDue /\ PairsWhole /\ ServesDisk)'
<1> DEFINE cut == IF renewal.step = "certified" THEN 1 ELSE 0
<1>1. /\ certCount' = [certCount EXCEPT !.stops = @ + 1, !.today = TRUE, !.torn = @ + cut]
      /\ due' = "tomorrow" /\ renewal' = Asleep /\ ReloadCerts
      /\ UNCHANGED <<onDisk, pair, hour, excused>>
  BY DEF StopPanel
<1>2. /\ certCount'.torn = certCount.torn + cut /\ certCount'.today = TRUE
      /\ certCount.torn \in Nat /\ cut \in Nat
  <2>1. CountTypes /\ cut \in Nat  BY DEF ServeInv
  <2>2. QED  BY <1>1, <2>1, StopCounted, CertNumbers
<1>3. certCount.torn = 0 /\ renewal.step # "certified"
  <2>1. certCount.torn = 0 /\ cut = 0  BY <1>2
  <2>2. QED  BY <2>1
<1>4. DaysAccounted /\ PairsWhole  BY <1>3 DEF ServeInv
<1>5. renewal'.step = "none"  BY <1>1 DEF Asleep
<1>6. \A o \in CertSites : pair[o]  BY <1>3, <1>4 DEF PairsWhole
<1>7. live' = onDisk  BY <1>1, <1>6 DEF ReloadCerts
<1>8. DaysAccounted'  BY <1>1, <1>2, <1>4 DEF DaysAccounted
<1>9. QED
  BY <1>1, <1>2, <1>5, <1>6, <1>7, <1>8 DEF IssuesInTime, NightIsDue, PairsWhole, ServesDisk

LEMMA ServedStep == ASSUME ServeInv, [NextCert]_varsCert PROVE ServeInv'
<1>1. CertInv' /\ CountTypes'  BY CertStep, CountTypesStep DEF ServeInv
<1>2. SUFFICES ASSUME certCount'.torn = 0
               PROVE  (DaysAccounted /\ IssuesInTime /\ NightIsDue /\ PairsWhole
                       /\ ServesDisk)'
  BY <1>1 DEF ServeInv
<1>3. CASE UNCHANGED varsCert
  BY <1>2, <1>3
  DEF ServeInv, varsCert, DaysAccounted, Passed, IssuesInTime, NightIsDue, PairsWhole,
      ServesDisk
<1>4. ASSUME NEW s \in CertSites, WriteKeyFails(s) PROVE FALSE
  <2>1. certCount' = [certCount EXCEPT !.torn = @ + 1, !.today = TRUE] /\ CountTypes
    BY <1>4 DEF WriteKeyFails, ServeInv
  <2>2. QED  BY <1>2, <2>1, TearCounted
<1>5. QED
  BY <1>2, <1>3, <1>4, MidnightServe, NightServe, EndServe, StopServe, PassByServe,
     RefusalServe, IssueServe, WriteServe, KeyServe, RecordServe
  DEF NextCert

LEMMA ServeInitially == ASSUME InitCert PROVE ServeInv
<1>1. /\ onDisk = [s \in CertSites |-> Lifetime] /\ pair = [s \in CertSites |-> TRUE]
      /\ live = onDisk /\ renewal = Asleep /\ due = "today" /\ hour = "night" /\ excused = 0
      /\ certCount = [days |-> 0, refused |-> 0, torn |-> 0, stops |-> 0, today |-> FALSE]
  BY DEF InitCert
<1>2. /\ RenewDays \in Nat /\ Lifetime \in Nat /\ Lifetime > RenewDays
      /\ Asleep.step = "none"
  BY CertAssumption DEF Asleep
<1>3. CountTypes  BY <1>1, <1>2 DEF CountTypes, Count
<1>4. DaysAccounted /\ IssuesInTime  BY <1>1, <1>2 DEF DaysAccounted, Passed, IssuesInTime
<1>5. NightIsDue /\ PairsWhole /\ ServesDisk
  BY <1>1, <1>2 DEF NightIsDue, PairsWhole, ServesDisk
<1>6. QED  BY <1>3, <1>4, <1>5, CertInitially DEF ServeInv

LEMMA ServedHolds == SpecCert => []ServeInv
<1>1. ServeInv /\ [NextCert]_varsCert => ServeInv'  BY ServedStep
<1>2. InitCert => ServeInv  BY ServeInitially
<1>3. QED  BY <1>1, <1>2, PTL DEF SpecCert

\* Each variable has its type: no certificate has more than Lifetime days, nor
\* fewer than none.
THEOREM CertTyping == SpecCert => []CertTypeOK
<1>1. ServeInv => CertTypeOK
  BY DEF ServeInv, CertInv, CertTypes, CountTypes, Task, Count, CertTypeOK
<1>2. QED  BY <1>1, ServedHolds, PTL

\* StartSSLRenewalScheduler, RenewAllCerts: nginx serves an expired certificate
\* only after RenewDays bad days - days on which the CA refused a site or the
\* panel restarted - or after an issue that was cut off between its two files.
THEOREM ServedInTime == SpecCert => []ServedCertValid
<1>1. ServeInv => ServedCertValid
  <2> SUFFICES ASSUME ServeInv, NEW s \in CertSites, live[s] = 0, ~(certCount.torn > 0)
               PROVE  excused >= RenewDays
    BY DEF ServedCertValid
  <2>1. certCount.torn = 0  BY CertNumbers
  <2>2. onDisk[s] = 0 /\ onDisk[s] + excused >= RenewDays
    BY <2>1, CertNumbers DEF ServeInv, ServesDisk, DaysAccounted
  <2>3. QED  BY <2>2, CertNumbers
<1>2. QED  BY <1>1, ServedHolds, PTL
=============================================================================
