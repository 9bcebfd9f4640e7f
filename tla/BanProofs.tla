--------------------------- MODULE BanProofs ----------------------------
(* Proofs about the bans.  The file of banned addresses, for any number of  *)
(* callers, addresses and calls, dead callers included: one writer at a     *)
(* time, and no ban lost, until somebody has found a lock more than thirty  *)
(* seconds old.  The ban page, for any addresses and events: one visit that *)
(* nothing disturbs brings the rows and the firewall together.              *)
EXTENDS NginxBanFile, BanControl, SequenceTheorems, FiniteSetTheorems, TLAPS

Call == [pc : {"idle", "wait", "break"} \cup InUpdate, kind : BanKinds,
         ips : SUBSET Addresses, seen : SUBSET Addresses]

Updating(c) == banCall[c].pc \in InUpdate

\* What a caller computed from, and what it would undo.
Honest(c) ==
  /\ BanAt(c, "write") /\ banCall[c].kind # "replace" => banCall[c].seen = banned
  /\ banCall[c].pc \in {"test", "restore"} => banned = WantedBans(banCall[c])

\* Nobody is about to remove a lock that is not its own.
NoBreaker == \A c \in Callers : ~BanAt(c, "break")

BanInv ==
  /\ BanTypeOK
  /\ ~banBroken => NoBreaker /\ \A c \in Callers : Updating(c) => banLock = {c} /\ Honest(c)

\* A step of one caller: the others stay where they are.
LEMMA BanFrame ==
    ASSUME BanInv, NEW c \in Callers, NEW call \in Call,
           banCall' = [banCall EXCEPT ![c] = call],
           banned' \subseteq Addresses, banLock' \subseteq Callers, banAged' \in BOOLEAN,
           banBroken' \in BOOLEAN, banCalls' \in Nat,
           ~banBroken' =>
             /\ ~banBroken
             /\ call.pc # "break"
             /\ Updating(c)' => banLock' = {c} /\ Honest(c)'
             /\ \A o \in Callers \ {c} : Updating(o) => banLock' = banLock /\ banned' = banned
    PROVE  BanInv'
<1>1. /\ banCall \in [Callers -> Call]
      /\ banCall' \in [Callers -> Call] /\ banCall'[c] = call
      /\ \A o \in Callers \ {c} : banCall'[o] = banCall[o]
  BY DEF BanInv, BanTypeOK, Call
<1>2. BanTypeOK'  BY <1>1 DEF BanTypeOK, Call
<1>3. ASSUME ~banBroken' PROVE NoBreaker'
  BY <1>1, <1>3 DEF BanInv, NoBreaker, BanAt
<1>4. ASSUME ~banBroken', NEW o \in Callers, Updating(o)'
      PROVE  banLock' = {o} /\ Honest(o)'
  <2>1. CASE o = c  BY <1>4, <2>1
  <2>2. CASE o # c
    <3>1. Updating(o) /\ banCall'[o] = banCall[o]  BY <1>1, <1>4, <2>2 DEF Updating
    <3>2. banLock' = banLock /\ banned' = banned  BY <1>4, <2>2, <3>1
    <3>3. banLock = {o} /\ Honest(o)  BY <1>4, <3>1 DEF BanInv
    <3>4. QED  BY <3>1, <3>2, <3>3 DEF Honest, BanAt, WantedBans
  <2>3. QED  BY <2>1, <2>2
<1>5. QED  BY <1>2, <1>3, <1>4 DEF BanInv

\* While a caller updates the file no other does.
LEMMA Alone ==
    ASSUME BanInv, ~banBroken, NEW c \in Callers, Updating(c)
    PROVE  /\ banLock = {c} /\ Honest(c)
           /\ \A o \in Callers \ {c} : ~Updating(o)
<1>1. banLock = {c} /\ Honest(c)  BY DEF BanInv
<1>2. \A o \in Callers \ {c} : Updating(o) => banLock = {o}  BY DEF BanInv
<1>3. QED  BY <1>1, <1>2

LEMMA CallTyped ==
    ASSUME BanInv, NEW c \in Callers
    PROVE  /\ banCall[c] \in Call
           /\ \A pc \in {"idle", "wait", "break"} \cup InUpdate :
                [banCall[c] EXCEPT !.pc = pc] \in Call
           /\ NotCalling \in Call
           /\ \A k \in BanKinds, ips \in SUBSET Addresses :
                [pc |-> "wait", kind |-> k, ips |-> ips, seen |-> {}] \in Call
           /\ banned \subseteq Addresses /\ banLock \subseteq Callers /\ banAged \in BOOLEAN
           /\ banBroken \in BOOLEAN /\ banCalls \in Nat
BY DEF BanInv, BanTypeOK, Call, NotCalling, BanKinds, InUpdate

\* What a change of the step, or of the step and what was read, leaves of a call.
LEMMA CallMoved ==
    ASSUME NEW call \in Call, NEW pc \in {"idle", "wait", "break"} \cup InUpdate,
           NEW new, new = [call EXCEPT !.pc = pc]
    PROVE  /\ new \in Call /\ new.pc = pc /\ new.seen = call.seen
           /\ new.kind = call.kind /\ new.ips = call.ips
           /\ call.kind \in BanKinds /\ call.seen \subseteq Addresses
BY DEF Call

LEMMA CallRead ==
    ASSUME NEW call \in Call, NEW pc \in {"idle", "wait", "break"} \cup InUpdate,
           NEW seen \in SUBSET Addresses,
           NEW new, new = [call EXCEPT !.pc = pc, !.seen = seen]
    PROVE  /\ new \in Call /\ new.pc = pc /\ new.seen = seen
           /\ new.kind = call.kind /\ new.ips = call.ips
           /\ call.kind \in BanKinds
BY DEF Call

LEMMA WantedTyped ==
    ASSUME NEW call \in Call
    PROVE  WantedBans(call) \subseteq Addresses
BY DEF Call, WantedBans, BanKinds

\* A caller goes on to a step in which it holds no lock.
LEMMA LeaveStep ==
    ASSUME BanInv, NEW c \in Callers, NEW call \in Call,
           call.pc \in {"idle", "wait"},
           banCall' = [banCall EXCEPT ![c] = call], banCalls' \in Nat,
           UNCHANGED <<banned, banLock, banAged, banBroken>>
    PROVE  BanInv'
<1>1. banCall'[c] = call  BY DEF BanInv, BanTypeOK
<1>2. ~Updating(c)'  BY <1>1 DEF Updating, InUpdate
<1>3. QED  BY <1>2, CallTyped, BanFrame

LEMMA CallBanStep == ASSUME BanInv, NEW c \in Callers, CallBan(c) PROVE BanInv'
<1>1. PICK k \in BanKinds, ips \in SUBSET Addresses :
        banCall' = [banCall EXCEPT ![c] = [pc |-> "wait", kind |-> k, ips |-> ips, seen |-> {}]]
  BY DEF CallBan
<1>2. banCalls' \in Nat  BY CallTyped DEF CallBan
<1>3. QED  BY <1>1, <1>2, CallTyped, LeaveStep DEF CallBan

LEMMA GiveUpStep ==
    ASSUME BanInv, NEW c \in Callers, GiveUp(c) \/ DieInBan(c) PROVE BanInv'
<1>1. banCall' = [banCall EXCEPT ![c] = NotCalling] /\ NotCalling.pc = "idle"
      /\ UNCHANGED <<banned, banLock, banAged, banBroken, banCalls>>
  BY DEF GiveUp, DieInBan, BanReturn, NotCalling
<1>2. QED  BY <1>1, CallTyped, LeaveStep

\* The lock file is made only where there is none, so nobody updates.
LEMMA AcquireStep == ASSUME BanInv, NEW c \in Callers, AcquireBanLock(c) PROVE BanInv'
<1> DEFINE pc == IF banCall[c].kind = "replace" THEN "write" ELSE "read"
           call == [banCall[c] EXCEPT !.pc = pc]
<1>1. /\ banCall' = [banCall EXCEPT ![c] = call] /\ call \in Call /\ call.pc = pc
      /\ banCall'[c] = call /\ call.kind = banCall[c].kind
  <2>1. pc \in InUpdate /\ banCall[c] \in Call  BY CallTyped DEF InUpdate
  <2>2. banCall' = [banCall EXCEPT ![c] = call]  BY DEF AcquireBanLock, BanGoTo
  <2>3. call \in Call /\ call.pc = pc /\ call.kind = banCall[c].kind
    BY <2>1, CallMoved
  <2> HIDE DEF call
  <2>4. banCall'[c] = call  BY <2>2 DEF BanInv, BanTypeOK
  <2>5. QED  BY <2>2, <2>3, <2>4
<1>2. /\ banLock = {} /\ banLock' = {c} /\ banAged' = FALSE
      /\ UNCHANGED <<banned, banBroken, banCalls>>
  BY DEF AcquireBanLock
<1>3. Honest(c)'
  <2> HIDE DEF call
  <2>1. CASE banCall[c].kind = "replace"  BY <1>1, <2>1 DEF Honest, BanAt
  <2>2. CASE banCall[c].kind # "replace"  BY <1>1, <2>2 DEF Honest, BanAt
  <2>3. QED  BY <2>1, <2>2
<1>4. ~banBroken => \A o \in Callers : ~Updating(o)  BY <1>2 DEF BanInv
<1> HIDE DEF call
<1>5. call.pc # "break"  BY <1>1
<1>6. QED  BY <1>1, <1>2, <1>3, <1>4, <1>5, CallTyped, BanFrame

\* Once a lock has been found too old nothing is promised.
LEMMA BreakStep ==
    ASSUME BanInv, NEW c \in Callers, FindAgedLock(c) \/ BreakLock(c) PROVE BanInv'
<1>1. PICK pc \in {"break", "wait"} :
        banCall' = [banCall EXCEPT ![c] = [banCall[c] EXCEPT !.pc = pc]]
  BY DEF FindAgedLock, BreakLock, BanGoTo
<1>2. banBroken' = TRUE
  <2>1. CASE FindAgedLock(c)  BY <2>1 DEF FindAgedLock
  <2>2. CASE BreakLock(c)  BY <2>2 DEF BreakLock, BanInv, NoBreaker, BanTypeOK
  <2>3. QED  BY <2>1, <2>2
<1>3. banned' = banned /\ banLock' \in {banLock, {}} /\ banAged' \in {banAged, FALSE}
      /\ banCalls' = banCalls
  BY DEF FindAgedLock, BreakLock
<1>4. [banCall[c] EXCEPT !.pc = pc] \in Call  BY CallTyped
<1>5. QED  BY <1>1, <1>2, <1>3, <1>4, CallTyped, BanFrame

LEMMA ReadStep == ASSUME BanInv, NEW c \in Callers, ReadBanned(c) PROVE BanInv'
<1> DEFINE pc == "write"
           call == [banCall[c] EXCEPT !.pc = pc, !.seen = banned]
<1>1. /\ call \in Call /\ call.pc = pc /\ call.seen = banned
      /\ call.kind = banCall[c].kind /\ call.ips = banCall[c].ips
      /\ banCall[c].kind \in BanKinds
  <2>1. pc \in InUpdate /\ banCall[c] \in Call /\ banned \in SUBSET Addresses
    BY CallTyped DEF InUpdate
  <2> HIDE DEF pc
  <2>2. QED  BY <2>1, CallRead
<1>2. banCall' = [banCall EXCEPT ![c] = call] /\ banCall'[c] = call
  BY DEF ReadBanned, BanInv, BanTypeOK
<1>3. UNCHANGED <<banned, banLock, banAged, banBroken, banCalls>> /\ Updating(c)
  BY DEF ReadBanned, BanAt, Updating, InUpdate
<1> HIDE DEF call
<1>4. Honest(c)'  BY <1>1, <1>2, <1>3 DEF Honest, BanAt
<1>5. QED  BY <1>1, <1>2, <1>3, <1>4, Alone, CallTyped, BanFrame

\* What is written is what the caller wants of what it read, so of what was there.
LEMMA WriteStep == ASSUME BanInv, NEW c \in Callers, WriteBanned(c) PROVE BanInv'
<1> DEFINE new == WantedBans(banCall[c])
           pc == IF new = banned THEN "release" ELSE "test"
           call == [banCall[c] EXCEPT !.pc = pc, !.seen = banned]
<1>1. /\ call \in Call /\ call.pc = pc /\ call.seen = banned
      /\ call.kind = banCall[c].kind /\ call.ips = banCall[c].ips
      /\ banCall[c].kind \in BanKinds
  <2>1. pc \in InUpdate /\ banCall[c] \in Call /\ banned \in SUBSET Addresses
    BY CallTyped DEF InUpdate
  <2> HIDE DEF pc
  <2>2. QED  BY <2>1, CallRead
<1>2. banCall' = [banCall EXCEPT ![c] = call] /\ banCall'[c] = call /\ banned' = new
  BY DEF WriteBanned, BanInv, BanTypeOK
<1>3. UNCHANGED <<banLock, banAged, banBroken, banCalls>> /\ Updating(c) /\ BanAt(c, "write")
  BY DEF WriteBanned, BanAt, Updating, InUpdate
<1>4. new \subseteq Addresses  BY CallTyped, WantedTyped
<1>5. ASSUME ~banBroken PROVE Honest(c)'
  <2>1. banCall[c].kind # "replace" => banCall[c].seen = banned
    BY <1>3, <1>5, Alone DEF Honest
  <2>2. WantedBans(call) = new  BY <1>1, <2>1 DEF WantedBans, BanKinds
  <2>3. pc # "write"  OBVIOUS
  <2>4. QED  BY <1>1, <1>2, <2>2, <2>3 DEF Honest, BanAt
<1> HIDE DEF call, new
<1>6. call.pc # "break"  BY <1>1
<1>7. QED  BY <1>1, <1>2, <1>3, <1>4, <1>5, <1>6, Alone, CallTyped, BanFrame

LEMMA TestStep == ASSUME BanInv, NEW c \in Callers, TestBanned(c) PROVE BanInv'
<1>1. PICK pc \in {"release", "restore"} :
        banCall' = [banCall EXCEPT ![c] = [banCall[c] EXCEPT !.pc = pc]]
  BY DEF TestBanned, BanGoTo
<1> DEFINE call == [banCall[c] EXCEPT !.pc = pc]
<1>2. /\ call \in Call /\ call.pc = pc /\ call.seen = banCall[c].seen
      /\ call.kind = banCall[c].kind /\ call.ips = banCall[c].ips
      /\ banCall[c].kind \in BanKinds
  <2>1. pc \in InUpdate /\ banCall[c] \in Call  BY CallTyped DEF InUpdate
  <2>2. QED  BY <2>1, CallMoved
<1>3. /\ UNCHANGED <<banned, banLock, banAged, banBroken, banCalls>>
      /\ Updating(c) /\ BanAt(c, "test") /\ banCall'[c] = call
  BY <1>1 DEF TestBanned, BanAt, Updating, InUpdate, BanInv, BanTypeOK
<1>4. ASSUME ~banBroken PROVE Honest(c)'
  <2>1. banned = WantedBans(banCall[c])  BY <1>3, <1>4, Alone DEF Honest, BanAt
  <2>2. WantedBans(call) = WantedBans(banCall[c])  BY <1>2 DEF WantedBans, BanKinds
  <2>3. QED  BY <1>2, <1>3, <2>1, <2>2 DEF Honest, BanAt
<1> HIDE DEF call
<1>5. call.pc # "break"  BY <1>2
<1>6. banCall' = [banCall EXCEPT ![c] = call]  BY <1>1 DEF call
<1>7. QED  BY <1>2, <1>3, <1>4, <1>5, <1>6, Alone, CallTyped, BanFrame

\* The restoration and the removal of the lock: the caller updates alone.
LEMMA RestoreStep == ASSUME BanInv, NEW c \in Callers, RestoreBanned(c) PROVE BanInv'
<1> DEFINE call == [banCall[c] EXCEPT !.pc = "release"]
<1>1. call \in Call /\ call.pc = "release" /\ banCall[c].seen \subseteq Addresses
  <2>1. "release" \in InUpdate /\ banCall[c] \in Call  BY CallTyped DEF InUpdate
  <2>2. QED  BY <2>1, CallMoved
<1>2. /\ banCall' = [banCall EXCEPT ![c] = call] /\ banCall'[c] = call
      /\ banned' = banCall[c].seen
      /\ UNCHANGED <<banLock, banAged, banBroken, banCalls>> /\ Updating(c)
  BY DEF RestoreBanned, BanGoTo, BanAt, Updating, InUpdate, BanInv, BanTypeOK
<1> HIDE DEF call
<1>3. Honest(c)'  BY <1>1, <1>2 DEF Honest, BanAt
<1>4. QED  BY <1>1, <1>2, <1>3, Alone, CallTyped, BanFrame

LEMMA ReleaseStep == ASSUME BanInv, NEW c \in Callers, ReleaseBanLock(c) PROVE BanInv'
<1>1. /\ banCall' = [banCall EXCEPT ![c] = NotCalling] /\ banCall'[c] = NotCalling
      /\ banLock' = {} /\ banAged' = FALSE /\ NotCalling.pc = "idle"
      /\ UNCHANGED <<banned, banBroken, banCalls>> /\ Updating(c)
  BY DEF ReleaseBanLock, BanReturn, BanAt, Updating, InUpdate, BanInv, BanTypeOK, NotCalling
<1>2. ~Updating(c)'  BY <1>1 DEF Updating, InUpdate
<1>3. QED  BY <1>1, <1>2, Alone, CallTyped, BanFrame

LEMMA BanStep == ASSUME BanInv, [NextBan]_varsBan PROVE BanInv'
<1>1. CASE UNCHANGED varsBan
  BY <1>1 DEF varsBan, BanInv, BanTypeOK, NoBreaker, Updating, Honest, BanAt
<1>2. CASE AgeLock
  BY <1>2 DEF AgeLock, BanInv, BanTypeOK, NoBreaker, Updating, Honest, BanAt
<1>3. QED
  BY <1>1, <1>2, CallBanStep, AcquireStep, BreakStep, GiveUpStep, ReadStep, WriteStep,
     TestStep, RestoreStep, ReleaseStep
  DEF NextBan, BanWaiting, BanUpdating

LEMMA BanInvariant == SpecBan => []BanInv
<1>1. InitBan => BanInv
  <2> SUFFICES ASSUME InitBan PROVE BanInv  OBVIOUS
  <2>1. NotCalling \in Call /\ NotCalling.pc = "idle"
    BY DEF NotCalling, Call, BanKinds
  <2>2. banCall = [c \in Callers |-> NotCalling]  BY DEF InitBan
  <2>3. banCall \in [Callers -> Call]  BY <2>1, <2>2
  <2>4. BanTypeOK  BY <2>3 DEF InitBan, BanTypeOK, Call
  <2>5. \A c \in Callers : banCall[c].pc = "idle"  BY <2>1, <2>2
  <2>6. QED  BY <2>4, <2>5 DEF BanInv, NoBreaker, BanAt, Updating, InUpdate
<1>2. BanInv /\ [NextBan]_varsBan => BanInv'  BY BanStep
<1>3. QED  BY <1>1, <1>2, PTL DEF SpecBan

\* Whatever the calls, each variable keeps its type.
THEOREM BanTyping == SpecBan => []BanTypeOK
<1>1. BanInv => BanTypeOK  BY DEF BanInv
<1>2. QED  BY <1>1, BanInvariant, PTL

\* withNginxBanLock: one caller at a time is between the reading of the file and
\* the removal of the lock, callers that die there included, until somebody
\* has found a lock more than thirty seconds old.
THEOREM WriterAlone == SpecBan => []OneWriter
<1>1. BanInv => OneWriter  BY DEF BanInv, OneWriter, Updating
<1>2. QED  BY <1>1, BanInvariant, PTL

\* updateNginxBannedIPs: an update is computed from what the file holds, and a
\* refused one is undone only while the file is what the update made of it.
THEOREM BansKept == SpecBan => []NoLostBan
<1>1. BanInv => NoLostBan
  BY DEF BanInv, NoLostBan, Updating, Honest, BanAt, InUpdate
<1>2. QED  BY <1>1, BanInvariant, PTL

------------------------------------------------------------------------------
(* The page of the bans.  What one undisturbed opening read stays true while  *)
(* it runs; after it no active row has expired, and after the second the four *)
(* places agree.                                                              *)

Levels5 == 2..5
Origins == Jails \cup {"panel", "panel_scan"}
BanRow == [ip : Ips, level : Levels5, from : Origins, expired : BOOLEAN, lifted : BOOLEAN]

\* The operations of the work under way.
PlainOps == {"scan_row", "nft_add", "nft_del", "jail_add", "nginx_add", "nginx_del"}
WideOps == {"nft_flush", "nginx_empty", "jail_empty"}
BanOps ==
  [do : PlainOps, ip : Ips, from : {"web"}] \cup [do : WideOps, ip : {"all"}, from : {"web"}]
    \cup [do : {"jail_del"}, ip : Ips, from : Jails]
    \cup [do : {"manual_row"}, ip : Ips, from : {2, 3, 5}]
Work == Seq(BanOps) \ {<<>>}

Pages == [pc : {"closed", "record", "review", "replace", "clean"}, jail : [Jails -> SUBSET Ips],
          nft : SUBSET Ips, web : SUBSET Ips, read : BOOLEAN]

PageTypes ==
  /\ rows \in Seq(BanRow) /\ nft \subseteq Ips /\ refused \subseteq Ips
  /\ jail \in [Jails -> SUBSET Ips]
  /\ jobs \in Seq(Work) /\ Len(jobs) <= MaxJobs
  /\ sync \in Pages
  /\ tries \in [Ips -> 0..MaxTries] /\ calm \in -1..2

Held == jail["web"] \cup jail["ssh"]
NoneExpired == \A i \in Ids : Active(i) => ~rows[i].expired
HeldHaveRows == \A ip \in Held : \E i \in Ids : rows[i].ip = ip /\ Active(i)
LongBlocked == \A i \in Ids : Active(i) => rows[i].ip \in nft \cup Held
WebBans == {rows[i].ip : i \in {k \in Ids : Active(k) /\ FromWeb(k)}}

\* What the page read is still so.
ReadTrue == sync.jail = jail /\ sync.nft \subseteq nft /\ sync.read

\* The second opening and later ones.
PageSteps ==
  calm >= 1 =>
    /\ NoneExpired
    /\ sync.pc \in {"record", "review"} => ReadTrue /\ sync.web = jail["web"]
    /\ sync.pc \in {"review", "replace", "clean"} => HeldHaveRows
    /\ sync.pc \in {"replace", "clean"} => LongBlocked
    /\ sync.pc = "replace" => sync.read /\ sync.web = jail["web"] \cup WebBans
    /\ sync.pc = "clean" => refused = jail["web"] \cup WebBans
    /\ sync.pc = "closed" /\ calm = 2 =>
         HeldHaveRows /\ LongBlocked /\ refused = jail["web"] \cup WebBans
PageInv == PageTypes /\ PageSteps

(* Rows and operations. *)

LEMMA OpTyped ==
  ASSUME NEW ip \in Ips
  PROVE  /\ \A do \in PlainOps : Op(do, ip) \in BanOps
         /\ \A j \in Jails : [do |-> "jail_del", ip |-> ip, from |-> j] \in BanOps
         /\ \A l \in {2, 3, 5} : [do |-> "manual_row", ip |-> ip, from |-> l] \in BanOps
BY DEF Op, BanOps, PlainOps

LEMMA WideOpTyped == ASSUME NEW do \in WideOps PROVE Op(do, "all") \in BanOps
BY DEF Op, BanOps, WideOps

LEMMA RowTyped ==
  ASSUME NEW ip \in Ips, NEW level \in Levels5, NEW from \in Origins
  PROVE  /\ Row(ip, level, from) \in BanRow /\ Row(ip, level, from).ip = ip
         /\ ~Row(ip, level, from).expired /\ ~Row(ip, level, from).lifted
         /\ Row(ip, level, from).from = from
BY DEF Row, BanRow

LEMMA InsertTyped ==
  ASSUME PageTypes, NEW new \in BanRow, Insert(new) PROVE rows' \in Seq(BanRow)
BY DEF PageTypes, Insert

LEMMA StartTyped ==
  ASSUME PageTypes, NEW ops \in Seq(BanOps), ops # <<>>, Start(ops)
  PROVE  jobs' \in Seq(Work) /\ Len(jobs') <= MaxJobs
<1>1. ops \in Work /\ jobs \in Seq(Work) /\ MaxJobs \in Nat
  BY BanControlAssumption DEF Work, PageTypes
<1>2. jobs' = Append(jobs, ops) /\ Len(jobs) < MaxJobs  BY DEF Start
<1>3. QED  BY <1>1, <1>2

LEMMA OneOp ==
  ASSUME NEW op \in BanOps
  PROVE  /\ <<op>> \in Seq(BanOps) /\ <<op>> # <<>>
         /\ <<>> \in Seq(BanOps)
OBVIOUS

LEMMA MoreOps ==
  ASSUME NEW s \in Seq(BanOps), NEW t \in Seq(BanOps), s # <<>> \/ t # <<>>
  PROVE  s \o t \in Seq(BanOps) /\ s \o t # <<>>
BY ConcatProperties, ConcatSimplifications

\* A row whose fields change stays a row.
LEMMA RowChanged ==
  ASSUME PageTypes, NEW i \in Ids, NEW row \in BanRow, rows' = [rows EXCEPT ![i] = row]
  PROVE  rows' \in Seq(BanRow)
BY ExceptSeq DEF PageTypes, Ids

\* The rows of a set are lifted, in place.
LEMMA RowsLifted ==
  ASSUME PageTypes, NEW over,
         rows' = [i \in Ids |-> [rows[i] EXCEPT !.lifted = rows[i].lifted \/ i \in over]]
  PROVE  /\ rows' \in Seq(BanRow) /\ Ids' = Ids
         /\ \A i \in Ids : /\ rows'[i].ip = rows[i].ip /\ rows'[i].from = rows[i].from
                           /\ rows'[i].expired = rows[i].expired
                           /\ rows'[i].level = rows[i].level
                           /\ ~rows'[i].lifted <=> ~rows[i].lifted /\ i \notin over
<1> DEFINE e(i) == [rows[i] EXCEPT !.lifted = rows[i].lifted \/ i \in over]
<1>1. rows \in Seq(BanRow) /\ Len(rows) \in Nat  BY DEF PageTypes
<1>2. \A i \in Ids : rows[i] \in BanRow  BY <1>1 DEF Ids
<1>3. \A i \in Ids : /\ e(i) \in BanRow
                     /\ e(i).ip = rows[i].ip /\ e(i).from = rows[i].from
                     /\ e(i).expired = rows[i].expired /\ e(i).level = rows[i].level
                     /\ ~e(i).lifted <=> ~rows[i].lifted /\ i \notin over
  BY <1>2 DEF BanRow
<1>4. rows' = [i \in 1..Len(rows) |-> e(i)]  BY DEF Ids
<1> HIDE DEF e
<1>5. rows' \in Seq(BanRow)
  <2>1. rows' \in [1..Len(rows) -> BanRow]  BY <1>3, <1>4 DEF Ids
  <2>2. QED  BY <1>1, <2>1, SeqDef
<1>6. Len(rows') = Len(rows)  BY <1>1, <1>4, <1>5, LenProperties
<1>7. \A i \in Ids : rows'[i] = e(i)  BY <1>4 DEF Ids
<1>8. QED  BY <1>3, <1>5, <1>6, <1>7 DEF Ids

(* Whatever disturbs the page leaves nothing to show but the types. *)

\* The fields a step of anything but the page leaves alone or keeps typed.
DisturbTyped ==
  /\ Disturb /\ sync' = sync
  /\ rows' \in Seq(BanRow) /\ nft' \subseteq Ips /\ refused' \subseteq Ips
  /\ jail' \in [Jails -> SUBSET Ips] /\ tries' \in [Ips -> 0..MaxTries]
  /\ jobs' \in Seq(Work) /\ Len(jobs') <= MaxJobs

LEMMA DisturbKeeps == ASSUME PageInv, DisturbTyped PROVE PageInv'
<1>1. calm' \in {0, -1}  BY DEF DisturbTyped, Disturb
<1>2. PageTypes'  BY <1>1 DEF PageInv, PageTypes, DisturbTyped
<1>3. QED  BY <1>1, <1>2 DEF PageInv, PageSteps

\* The facts about the state that a step of the others starts from.
LEMMA BansFacts ==
  ASSUME PageInv
  PROVE  /\ PageTypes /\ rows \in Seq(BanRow) /\ nft \subseteq Ips /\ refused \subseteq Ips
         /\ jail \in [Jails -> SUBSET Ips] /\ tries \in [Ips -> 0..MaxTries]
         /\ jobs \in Seq(Work) /\ Len(jobs) <= MaxJobs
         /\ \A i \in Ids : rows[i] \in BanRow
         /\ MaxTries \in Nat
BY BanControlAssumption DEF PageInv, PageTypes, Ids

LEMMA JailSteps ==
  ASSUME PageInv, NEW j \in Jails, NEW ip \in Ips, Offend(j, ip) \/ Forgive(j, ip)
  PROVE  PageInv'
<1>1. /\ UNCHANGED <<rows, nft, refused, sync, tries>> /\ Disturb
      /\ \/ jail' = [jail EXCEPT ![j] = jail[j] \cup {ip}]
         \/ jail' = [jail EXCEPT ![j] = jail[j] \ {ip}]
      /\ \/ UNCHANGED jobs
         \/ \E do \in {"nginx_add", "nginx_del"} : Start(<<Op(do, ip)>>)
  BY DEF Offend, Forgive, Event
<1>2. jail' \in [Jails -> SUBSET Ips]  BY <1>1, BansFacts
<1>3. jobs' \in Seq(Work) /\ Len(jobs') <= MaxJobs
  <2>1. ASSUME NEW do \in {"nginx_add", "nginx_del"}, Start(<<Op(do, ip)>>)
        PROVE  jobs' \in Seq(Work) /\ Len(jobs') <= MaxJobs
    <3>1. Op(do, ip) \in BanOps  BY OpTyped DEF PlainOps
    <3>2. QED  BY <2>1, <3>1, OneOp, StartTyped, BansFacts
  <2>2. QED  BY <1>1, <2>1, BansFacts
<1>4. QED  BY <1>1, <1>2, <1>3, BansFacts, DisturbKeeps DEF DisturbTyped

LEMMA LoginSteps ==
  ASSUME PageInv, NEW ip \in Ips, FailLogin(ip) \/ ForgetTries(ip) PROVE PageInv'
<1>1. CASE FailLogin(ip)
  <2>1. /\ UNCHANGED <<jail, refused, jobs, sync>> /\ Disturb
        /\ tries' = [tries EXCEPT ![ip] = IF tries[ip] < MaxTries THEN tries[ip] + 1
                                          ELSE tries[ip]]
        /\ \/ Insert(Row(ip, 3, "panel")) /\ nft' = nft \cup {ip}
           \/ UNCHANGED <<rows, nft>>
    BY <1>1 DEF FailLogin, Event
  <2>2. tries' \in [Ips -> 0..MaxTries]  BY <2>1, BansFacts
  <2>3. Row(ip, 3, "panel") \in BanRow  BY RowTyped DEF Levels5, Origins
  <2>4. rows' \in Seq(BanRow) /\ nft' \subseteq Ips  BY <2>1, <2>3, InsertTyped, BansFacts
  <2>5. QED  BY <2>1, <2>2, <2>4, BansFacts, DisturbKeeps DEF DisturbTyped
<1>2. CASE ForgetTries(ip)
  <2>1. /\ UNCHANGED <<rows, nft, jail, refused, jobs, sync>> /\ Disturb
        /\ tries' = [tries EXCEPT ![ip] = 0]
    BY <1>2 DEF ForgetTries, Event
  <2>2. tries' \in [Ips -> 0..MaxTries]  BY <2>1, BansFacts
  <2>3. QED  BY <2>1, <2>2, BansFacts, DisturbKeeps DEF DisturbTyped
<1>3. QED  BY <1>1, <1>2

\* Work that is started on an address.
LEMMA StartSteps ==
  ASSUME PageInv, NEW ip \in Ips, Scan(ip) \/ ManualBan(ip) PROVE PageInv'
<1>1. /\ UNCHANGED <<rows, nft, jail, refused, sync, tries>> /\ Disturb
  BY DEF Scan, ManualBan, Event
<1>2. jobs' \in Seq(Work) /\ Len(jobs') <= MaxJobs
  <2>1. CASE Scan(ip)
    <3>1. Start(<<Op("scan_row", ip), Op("nft_add", ip)>>)  BY <2>1 DEF Scan
    <3>2. Op("scan_row", ip) \in BanOps /\ Op("nft_add", ip) \in BanOps
      BY OpTyped DEF PlainOps
    <3>3. <<Op("scan_row", ip), Op("nft_add", ip)>> \in Seq(BanOps)  BY <3>2
    <3>4. QED  BY <3>1, <3>3, StartTyped, BansFacts
  <2>2. CASE ManualBan(ip)
    <3>1. PICK level \in {2, 3, 5} :
            Start(<<Op("jail_add", ip), [do |-> "manual_row", ip |-> ip, from |-> level]>>
                  \o (IF level >= 3 THEN <<Op("nft_add", ip)>> ELSE <<>>)
                  \o <<Op("nginx_add", ip)>>)
      BY <2>2 DEF ManualBan
    <3> DEFINE s == <<Op("jail_add", ip), [do |-> "manual_row", ip |-> ip, from |-> level]>>
               t == IF level >= 3 THEN <<Op("nft_add", ip)>> ELSE <<>>
               u == <<Op("nginx_add", ip)>>
    <3>0. /\ Op("jail_add", ip) \in BanOps /\ Op("nft_add", ip) \in BanOps
          /\ Op("nginx_add", ip) \in BanOps
          /\ [do |-> "manual_row", ip |-> ip, from |-> level] \in BanOps
      BY OpTyped DEF PlainOps
    <3>2. s \in Seq(BanOps) /\ t \in Seq(BanOps) /\ u \in Seq(BanOps) /\ s # <<>>
      BY <3>0
    <3>3. Start(s \o t \o u)  BY <3>1
    <3> HIDE DEF s, t, u
    <3>4. s \o t \in Seq(BanOps) /\ s \o t # <<>>  BY <3>2, MoreOps
    <3>5. s \o t \o u \in Seq(BanOps) /\ s \o t \o u # <<>>  BY <3>2, <3>4, MoreOps
    <3>6. QED  BY <3>3, <3>5, StartTyped, BansFacts
  <2>3. QED  BY <2>1, <2>2
<1>3. QED  BY <1>1, <1>2, BansFacts, DisturbKeeps DEF DisturbTyped

LEMMA UnbanStep == ASSUME PageInv, NEW i \in Ids, Unban(i) PROVE PageInv'
<1> DEFINE ip == rows[i].ip
           from == rows[i].from
           s == IF from \in Jails
                THEN <<[do |-> "jail_del", ip |-> ip, from |-> from]>> ELSE <<>>
           t == IF from = "web" THEN <<Op("nginx_del", ip)>> ELSE <<>>
           u == <<Op("nft_del", ip)>>
           b == [rows[i] EXCEPT !.lifted = TRUE]
<1>1. /\ UNCHANGED <<nft, jail, refused, sync, tries>> /\ Disturb
      /\ rows' = [rows EXCEPT ![i] = b] /\ Start(s \o t \o u)
  BY DEF Unban, Event
<1>0. rows[i] \in BanRow  BY BansFacts
<1>2. ip \in Ips /\ b \in BanRow  BY <1>0 DEF BanRow
<1>3. s \in Seq(BanOps) /\ t \in Seq(BanOps) /\ u \in Seq(BanOps) /\ u # <<>>
  <2> HIDE DEF ip, from
  <2>1. /\ Op("nginx_del", ip) \in BanOps /\ Op("nft_del", ip) \in BanOps
        /\ from \in Jails => [do |-> "jail_del", ip |-> ip, from |-> from] \in BanOps
    BY <1>2, OpTyped DEF PlainOps
  <2>2. QED  BY <2>1
<1> HIDE DEF s, t, u, b
<1>4. s \o t \in Seq(BanOps)  BY <1>3, ConcatProperties
<1>5. s \o t \o u \in Seq(BanOps) /\ s \o t \o u # <<>>  BY <1>3, <1>4, MoreOps
<1>6. jobs' \in Seq(Work) /\ Len(jobs') <= MaxJobs
  BY <1>1, <1>5, StartTyped, BansFacts
<1>7. rows' \in Seq(BanRow)  BY <1>1, <1>2, RowChanged, BansFacts
<1>8. QED  BY <1>1, <1>6, <1>7, BansFacts, DisturbKeeps DEF DisturbTyped

LEMMA PermanentStep == ASSUME PageInv, NEW i \in Ids, PermanentBan(i) PROVE PageInv'
<1> DEFINE ip == rows[i].ip
           s == <<Op("nft_add", ip)>>
           t == IF FromWeb(i) THEN <<Op("nginx_add", ip)>> ELSE <<>>
           b == [rows[i] EXCEPT !.level = 5, !.expired = FALSE]
<1>1. /\ UNCHANGED <<nft, jail, refused, sync, tries>> /\ Disturb
      /\ rows' = [rows EXCEPT ![i].level = 5, ![i].expired = FALSE] /\ Start(s \o t)
  BY DEF PermanentBan, Event
<1>0. rows[i] \in BanRow /\ 5 \in Levels5  BY BansFacts DEF Levels5
<1>2. ip \in Ips /\ b \in BanRow  BY <1>0 DEF BanRow
<1>3. rows' = [rows EXCEPT ![i] = b]
  <2>1. rows \in [1..Len(rows) -> BanRow] /\ i \in 1..Len(rows)  BY BansFacts DEF Ids
  <2>2. QED  BY <1>1, <2>1
<1>4. s \in Seq(BanOps) /\ t \in Seq(BanOps) /\ s # <<>>
  <2> HIDE DEF ip
  <2>1. Op("nft_add", ip) \in BanOps /\ Op("nginx_add", ip) \in BanOps
    BY <1>2, OpTyped DEF PlainOps
  <2>2. QED  BY <2>1
<1> HIDE DEF s, t, b
<1>5. s \o t \in Seq(BanOps) /\ s \o t # <<>>  BY <1>4, MoreOps
<1>6. jobs' \in Seq(Work) /\ Len(jobs') <= MaxJobs
  BY <1>1, <1>5, StartTyped, BansFacts
<1>7. rows' \in Seq(BanRow)  BY <1>2, <1>3, RowChanged, BansFacts
<1>8. QED  BY <1>1, <1>6, <1>7, BansFacts, DisturbKeeps DEF DisturbTyped

LEMMA UnbanAllStep == ASSUME PageInv, UnbanAll PROVE PageInv'
<1>1. /\ UNCHANGED <<nft, jail, refused, sync, tries>> /\ Disturb
      /\ rows' = [i \in Ids |-> [rows[i] EXCEPT !.lifted = TRUE]]
      /\ Start(<<Op("nft_flush", "all"), Op("nginx_empty", "all"), Op("jail_empty", "all")>>)
  BY DEF UnbanAll, Event
<1>2. rows' \in Seq(BanRow)
  <2> DEFINE e(i) == [rows[i] EXCEPT !.lifted = TRUE]
  <2>1. \A i \in 1..Len(rows) : e(i) \in BanRow  BY BansFacts DEF BanRow, Ids
  <2>2. Len(rows) \in Nat /\ rows' = [i \in 1..Len(rows) |-> e(i)]
    BY <1>1, BansFacts DEF Ids
  <2> HIDE DEF e
  <2>3. QED  BY <2>1, <2>2, IsASeq
<1>3. <<Op("nft_flush", "all"), Op("nginx_empty", "all"), Op("jail_empty", "all")>>
        \in Seq(BanOps)
  BY WideOpTyped DEF WideOps
<1>4. jobs' \in Seq(Work) /\ Len(jobs') <= MaxJobs
  BY <1>1, <1>3, StartTyped, BansFacts
<1>5. QED  BY <1>1, <1>2, <1>4, BansFacts, DisturbKeeps DEF DisturbTyped

LEMMA ExpireStep == ASSUME PageInv, NEW i \in Ids, ExpireBan(i) PROVE PageInv'
<1> DEFINE b == [rows[i] EXCEPT !.expired = TRUE]
<1>1. /\ UNCHANGED <<nft, jail, refused, jobs, sync, tries>> /\ Disturb
      /\ rows' = [rows EXCEPT ![i] = b]
  BY DEF ExpireBan, Event
<1>2. b \in BanRow  BY BansFacts DEF BanRow
<1> HIDE DEF b
<1>3. rows' \in Seq(BanRow)  BY <1>1, <1>2, RowChanged, BansFacts
<1>4. QED  BY <1>1, <1>3, BansFacts, DisturbKeeps DEF DisturbTyped

LEMMA JobRemoved ==
  ASSUME NEW S, NEW s \in Seq(S), NEW k \in 1..Len(s)
  PROVE  RemoveAt(s, k) \in Seq(S) /\ Len(RemoveAt(s, k)) = Len(s) - 1
<1>1. SubSeq(s, 1, k - 1) \in Seq(S) /\ Len(SubSeq(s, 1, k - 1)) = k - 1
  BY SubSeqProperties
<1>2. SubSeq(s, k + 1, Len(s)) \in Seq(S) /\ Len(SubSeq(s, k + 1, Len(s))) = Len(s) - k
  BY SubSeqProperties
<1> DEFINE a == SubSeq(s, 1, k - 1)
           b == SubSeq(s, k + 1, Len(s))
<1>3. RemoveAt(s, k) = a \o b  BY DEF RemoveAt
<1> HIDE DEF a, b
<1>4. a \o b \in Seq(S) /\ Len(a \o b) = Len(a) + Len(b)  BY <1>1, <1>2, ConcatProperties DEF a, b
<1>5. Len(a) = k - 1 /\ Len(b) = Len(s) - k  BY <1>1, <1>2 DEF a, b
<1>6. QED  BY <1>3, <1>4, <1>5

LEMMA JobStepStep == ASSUME PageInv, NEW k \in 1..Len(jobs), JobStep(k) PROVE PageInv'
<1>1. jobs \in Seq(Work) /\ Len(jobs) \in Nat /\ jobs[k] \in Work /\ Len(jobs) <= MaxJobs
      /\ MaxJobs \in Nat
  BY BansFacts, BanControlAssumption
<1>2. jobs[k] \in Seq(BanOps) /\ jobs[k] # <<>>  BY <1>1 DEF Work
<1> DEFINE op == Head(jobs[k])
           ip == op.ip
<1>3. op \in BanOps  BY <1>2
<1>4. /\ jobs' = IF Len(jobs[k]) = 1 THEN RemoveAt(jobs, k)
                 ELSE [jobs EXCEPT ![k] = Tail(jobs[k])]
      /\ CASE op.do = "scan_row"   -> Insert(Row(ip, 4, "panel_scan"))
           [] op.do = "manual_row" -> Insert(Row(ip, op.from, "web"))
           [] OTHER                -> UNCHANGED rows
      /\ nft' \in {nft, {}, nft \ {ip}} \/ (op.do = "nft_add" /\ nft' = nft \cup {ip})
      /\ \/ refused' \in {refused, {}, refused \ {ip}, refused \ jail["web"]}
         \/ op.do \in {"nginx_add", "jail_add"} /\ refused' = refused \cup {ip}
      /\ \/ op.do = "jail_add" /\ jail' = [jail EXCEPT !["web"] = jail["web"] \cup {ip}]
         \/ op.do = "jail_del" /\ jail' = [jail EXCEPT ![op.from] = jail[op.from] \ {ip}]
         \/ jail' \in {jail, NoJail}
      /\ Disturb /\ UNCHANGED <<sync, tries>>
  BY DEF JobStep
<1>5. /\ op.do \in PlainOps => ip \in Ips
      /\ op.do = "jail_del" => op.from \in Jails
      /\ op.do = "manual_row" => ip \in Ips /\ op.from \in {2, 3, 5}
  BY <1>3 DEF BanOps, PlainOps, WideOps
<1> HIDE DEF op, ip
<1>6. jobs' \in Seq(Work) /\ Len(jobs') <= MaxJobs
  <2>1. CASE Len(jobs[k]) = 1
    <3>1. jobs' = RemoveAt(jobs, k)  BY <1>4, <2>1
    <3>2. QED  BY <1>1, <3>1, JobRemoved
  <2>2. CASE Len(jobs[k]) # 1
    <3>1. Tail(jobs[k]) \in Work
      <4>1. /\ Tail(jobs[k]) \in Seq(BanOps) /\ Len(Tail(jobs[k])) = Len(jobs[k]) - 1
            /\ Len(jobs[k]) \in Nat
        BY <1>2
      <4>2. Len(Tail(jobs[k])) # 0  BY <2>2, <4>1
      <4>3. Tail(jobs[k]) # <<>>  BY <4>2, EmptySeq
      <4>4. QED  BY <4>1, <4>3 DEF Work
    <3>2. jobs' = [jobs EXCEPT ![k] = Tail(jobs[k])]  BY <1>4, <2>2
    <3>3. QED  BY <1>1, <3>1, <3>2, ExceptSeq
  <2>3. QED  BY <2>1, <2>2
<1>7. rows' \in Seq(BanRow)
  <2>1. CASE op.do = "scan_row"
    <3>1. Row(ip, 4, "panel_scan") \in BanRow
      BY <1>5, <2>1, RowTyped DEF PlainOps, Levels5, Origins
    <3>2. QED  BY <1>4, <2>1, <3>1, InsertTyped, BansFacts
  <2>2. CASE op.do = "manual_row"
    <3>1. Row(ip, op.from, "web") \in BanRow
      BY <1>5, <2>2, RowTyped DEF Levels5, Origins, Jails
    <3>2. QED  BY <1>4, <2>2, <3>1, InsertTyped, BansFacts
  <2>3. CASE op.do \notin {"scan_row", "manual_row"}  BY <1>4, <2>3, BansFacts
  <2>4. QED  BY <2>1, <2>2, <2>3
<1>8. nft' \subseteq Ips /\ refused' \subseteq Ips
  BY <1>4, <1>5, BansFacts DEF PlainOps
<1>9. jail' \in [Jails -> SUBSET Ips]
  <2>1. NoJail \in [Jails -> SUBSET Ips] /\ "web" \in Jails  BY DEF NoJail, Jails
  <2>2. CASE op.do = "jail_add" /\ jail' = [jail EXCEPT !["web"] = jail["web"] \cup {ip}]
    BY <1>5, <2>1, <2>2, BansFacts DEF PlainOps
  <2>3. CASE op.do = "jail_del" /\ jail' = [jail EXCEPT ![op.from] = jail[op.from] \ {ip}]
    BY <1>5, <2>3, BansFacts
  <2>4. QED  BY <1>4, <2>1, <2>2, <2>3, BansFacts
<1>10. QED
  BY <1>4, <1>6, <1>7, <1>8, <1>9, BansFacts, DisturbKeeps DEF DisturbTyped

(* The page. *)

\* SetToSeq lists every element of a finite set.
LEMMA Listed ==
  ASSUME NEW S, IsFiniteSet(S)
  PROVE  /\ Cardinality(S) \in Nat /\ SetToSeq(S) \in [1..Cardinality(S) -> S]
         /\ \A x \in S : \E k \in 1..Cardinality(S) : SetToSeq(S)[k] = x
<1> DEFINE n == Cardinality(S)
<1>1. n \in Nat /\ ExistsBijection(1..n, S)  BY FS_CardinalityType
<1>2. \E f \in [1..n -> S] : IsInjective(f)
  BY <1>1 DEF ExistsBijection, Bijection, Injection
<1>3. SetToSeq(S) \in [1..n -> S] /\ IsInjective(SetToSeq(S))  BY <1>2 DEF SetToSeq
<1>4. SetToSeq(S) \in Injection(1..n, S)  BY <1>3 DEF Injection
<1>5. Cardinality(1..n) = n
  <2> HIDE DEF n
  <2>1. QED  BY <1>1, FS_Interval
<1>6. SetToSeq(S) \in Surjection(1..n, S)  BY <1>4, <1>5, FS_Injection
<1>7. QED  BY <1>1, <1>3, <1>6 DEF Surjection

\* The facts a step of the page starts from.
LEMMA PageFacts ==
  ASSUME PageInv
  PROVE  /\ PageTypes /\ PageSteps /\ sync \in Pages /\ calm \in -1..2
         /\ sync.jail \in [Jails -> SUBSET Ips] /\ sync.nft \subseteq Ips
         /\ sync.web \subseteq Ips /\ sync.read \in BOOLEAN
BY DEF PageInv, PageTypes, Pages

LEMMA OpenPageStep == ASSUME PageInv, OpenPage PROVE PageInv'
<1>1. PICK dumb \in SUBSET Jails :
        LET seen == [j \in Jails |-> IF j \in dumb THEN {} ELSE jail[j]]
        IN /\ sync' = [pc |-> "record", jail |-> seen, nft |-> nft,
                       web |-> seen["web"], read |-> "web" \notin dumb]
           /\ calm' = IF dumb = {} THEN calm ELSE -1
  BY DEF OpenPage
<1>2. /\ sync.pc = "closed" /\ UNCHANGED <<rows, nft, jail, refused, jobs, tries, events>>
  BY DEF OpenPage
<1> DEFINE seen == [j \in Jails |-> IF j \in dumb THEN {} ELSE jail[j]]
<1>3. /\ sync' = [pc |-> "record", jail |-> seen, nft |-> nft, web |-> seen["web"],
                  read |-> "web" \notin dumb]
      /\ seen \in [Jails -> SUBSET Ips] /\ seen["web"] \subseteq Ips
      /\ dumb = {} => seen = jail
  BY <1>1, BansFacts DEF Jails
<1> HIDE DEF seen
<1>4. /\ sync' \in Pages /\ sync'.pc = "record" /\ sync'.jail = seen /\ sync'.nft = nft
      /\ sync'.web = seen["web"] /\ dumb = {} => sync'.read
  BY <1>3, BansFacts DEF Pages
<1>5. calm' \in -1..2 /\ (calm' >= 1 => dumb = {} /\ calm >= 1)  BY <1>1, PageFacts
<1>6. PageTypes'  BY <1>2, <1>4, <1>5, BansFacts DEF PageTypes
<1>7. PageSteps'
  <2>1. SUFFICES ASSUME calm' >= 1
                 PROVE  NoneExpired' /\ ReadTrue' /\ (sync.web = jail["web"])'
    BY <1>4 DEF PageSteps
  <2>2. dumb = {} /\ NoneExpired  BY <1>5, <2>1, PageFacts DEF PageSteps
  <2>3. NoneExpired'  BY <1>2, <2>2 DEF NoneExpired, Ids, Active
  <2>4. QED  BY <1>2, <1>3, <1>4, <2>2, <2>3 DEF ReadTrue
<1>8. QED  BY <1>6, <1>7 DEF PageInv

LEMMA RecordJailedStep == ASSUME PageInv, RecordJailed PROVE PageInv'
<1> DEFINE unknown == {ip \in Jailed : ~ \E i \in Ids : rows[i].ip = ip /\ Active(i)}
           n == Cardinality(unknown)
<1>1. PICK level \in [unknown -> {2, 3, 5}] :
        /\ rows' = rows \o [k \in 1..n |->
               LET ip == SetToSeq(unknown)[k]
               IN Row(ip, level[ip], IF ip \in sync.jail["web"] THEN "web" ELSE "ssh")]
        /\ nft' = nft \cup {ip \in unknown : level[ip] >= 3}
  BY DEF RecordJailed
<1>2. /\ sync.pc = "record" /\ sync' = [sync EXCEPT !.pc = "review"]
      /\ UNCHANGED <<jail, refused, jobs, tries, calm, events>>
  BY DEF RecordJailed
<1> DEFINE from(ip) == IF ip \in sync.jail["web"] THEN "web" ELSE "ssh"
           e(k) == Row(SetToSeq(unknown)[k], level[SetToSeq(unknown)[k]],
                       from(SetToSeq(unknown)[k]))
           new == [k \in 1..n |-> e(k)]
<1>3. unknown \subseteq Ips /\ IsFiniteSet(unknown)
  <2>1. Jailed \subseteq Ips  BY PageFacts DEF Jailed, Jails
  <2>2. QED  BY <2>1, BanControlAssumption, FS_Subset
<1>4. /\ n \in Nat /\ SetToSeq(unknown) \in [1..n -> unknown]
      /\ \A x \in unknown : \E k \in 1..n : SetToSeq(unknown)[k] = x
  BY <1>3, Listed
<1>5. \A k \in 1..n : /\ e(k) \in BanRow /\ ~e(k).expired /\ ~e(k).lifted
                      /\ e(k).ip = SetToSeq(unknown)[k]
  <2>1. SUFFICES ASSUME NEW k \in 1..n
                 PROVE  /\ e(k) \in BanRow /\ ~e(k).expired /\ ~e(k).lifted
                        /\ e(k).ip = SetToSeq(unknown)[k]
    OBVIOUS
  <2> DEFINE ip == SetToSeq(unknown)[k]
  <2>2. ip \in unknown  BY <1>4
  <2>3. ip \in Ips  BY <1>3, <2>2
  <2>4. level[ip] \in Levels5 /\ from(ip) \in Origins
    <3>1. from(ip) \in Origins  BY DEF Origins, Jails
    <3> HIDE DEF ip, unknown
    <3>2. level[ip] \in {2, 3, 5}  BY <2>2
    <3>3. QED  BY <3>1, <3>2 DEF Levels5
  <2> HIDE DEF ip, from, unknown
  <2>5. /\ Row(ip, level[ip], from(ip)) \in BanRow
        /\ ~Row(ip, level[ip], from(ip)).expired /\ ~Row(ip, level[ip], from(ip)).lifted
        /\ Row(ip, level[ip], from(ip)).ip = ip
    BY <2>3, <2>4, RowTyped
  <2>6. e(k) = Row(ip, level[ip], from(ip))  BY DEF ip
  <2>7. QED  BY <2>5, <2>6 DEF ip
<1>6. rows' = rows \o new  BY <1>1
<1>7. nft \subseteq nft' /\ nft' \subseteq Ips  BY <1>1, <1>3, BansFacts
<1> HIDE DEF e
<1>8. new \in Seq(BanRow) /\ Len(new) = n /\ \A k \in 1..n : new[k] = e(k)
  <2>1. new \in [1..n -> BanRow]  BY <1>5
  <2>2. new \in Seq(BanRow)  BY <1>4, <2>1, SeqDef
  <2>3. Len(new) = n  BY <1>4, <2>1, <2>2, LenProperties
  <2>4. QED  BY <2>2, <2>3
<1> HIDE DEF new, n
<1>9. /\ rows' \in Seq(BanRow) /\ Len(rows') = Len(rows) + n /\ Len(rows) \in Nat
      /\ \A i \in Ids : rows'[i] = rows[i]
      /\ \A k \in 1..n : rows'[Len(rows) + k] = e(k)
  <2>1. rows \in Seq(BanRow)  BY BansFacts
  <2>2. /\ rows' \in Seq(BanRow) /\ Len(rows') = Len(rows) + n /\ Len(rows) \in Nat
        /\ \A i \in 1..(Len(rows) + n) :
             rows'[i] = IF i <= Len(rows) THEN rows[i] ELSE new[i - Len(rows)]
    <3>1. Len(rows) \in Nat /\ Len(new) = n  BY <1>8, <2>1
    <3>2. /\ rows \o new \in Seq(BanRow) /\ Len(rows \o new) = Len(rows) + Len(new)
          /\ \A i \in 1..(Len(rows) + Len(new)) :
               (rows \o new)[i] = IF i <= Len(rows) THEN rows[i] ELSE new[i - Len(rows)]
      BY <1>8, <2>1, ConcatProperties
    <3>3. QED  BY <1>6, <3>1, <3>2
  <2>3. \A i \in Ids : rows'[i] = rows[i]  BY <1>4, <2>2 DEF Ids
  <2>4. ASSUME NEW k \in 1..n PROVE rows'[Len(rows) + k] = e(k)
    <3>1. /\ Len(rows) + k \in 1..(Len(rows) + n) /\ ~(Len(rows) + k <= Len(rows))
          /\ Len(rows) + k - Len(rows) = k
      BY <1>4, <2>2
    <3>2. QED  BY <1>8, <2>2, <3>1
  <2>5. QED  BY <2>2, <2>3, <2>4
<1>10. sync' \in Pages /\ sync'.pc = "review" /\ sync'.jail = sync.jail
       /\ sync'.nft = sync.nft /\ sync'.web = sync.web /\ sync'.read = sync.read
  BY <1>2, PageFacts DEF Pages
<1>11. PageTypes'  BY <1>2, <1>7, <1>9, <1>10, BansFacts, PageFacts DEF PageTypes
<1>12. PageSteps'
  <2>1. SUFFICES ASSUME calm >= 1
                 PROVE  /\ NoneExpired' /\ HeldHaveRows'
                        /\ ReadTrue' /\ (sync.web = jail["web"])'
    BY <1>2, <1>10 DEF PageSteps
  <2>2. NoneExpired /\ ReadTrue /\ sync.web = jail["web"]
    BY <1>2, <2>1, PageFacts DEF PageSteps
  <2>3. NoneExpired'
    <3>1. ASSUME NEW i \in Ids', ~rows'[i].lifted PROVE ~rows'[i].expired
      <4>1. CASE i \in Ids  BY <1>9, <2>2, <3>1, <4>1 DEF NoneExpired, Active
      <4>2. CASE i \notin Ids
        <5>1. i - Len(rows) \in 1..n /\ Len(rows) + (i - Len(rows)) = i
          BY <1>4, <1>9, <4>2 DEF Ids
        <5>2. rows'[i] = e(i - Len(rows))  BY <1>9, <5>1
        <5>3. QED  BY <1>5, <5>1, <5>2
      <4>3. QED  BY <4>1, <4>2
    <3>2. QED  BY <3>1 DEF NoneExpired, Active
  <2>4. HeldHaveRows'
    <3>1. ASSUME NEW ip \in Held
          PROVE  \E i \in Ids' : rows'[i].ip = ip /\ ~rows'[i].lifted
      <4>1. ip \in Jailed  BY <2>2, <3>1 DEF Held, Jailed, ReadTrue
      <4>2. CASE ip \in unknown
        <5>1. PICK k \in 1..n : SetToSeq(unknown)[k] = ip  BY <1>4, <4>2
        <5>2. Len(rows) + k \in Ids' /\ rows'[Len(rows) + k] = e(k)
          BY <1>4, <1>9 DEF Ids
        <5>3. QED  BY <1>5, <5>1, <5>2
      <4>3. CASE ip \notin unknown
        <5>1. PICK i \in Ids : rows[i].ip = ip /\ Active(i)  BY <4>1, <4>3
        <5>2. i \in Ids' /\ rows'[i] = rows[i]  BY <1>4, <1>9 DEF Ids
        <5>3. QED  BY <5>1, <5>2 DEF Active
      <4>4. QED  BY <4>2, <4>3
    <3>2. Held' = Held  BY <1>2 DEF Held
    <3>3. QED  BY <3>1, <3>2 DEF HeldHaveRows, Active
  <2>5. QED  BY <1>2, <1>7, <1>10, <2>2, <2>3, <2>4 DEF ReadTrue
<1>13. QED  BY <1>11, <1>12 DEF PageInv

LEMMA ReviewRowsStep == ASSUME PageInv, ReviewRows PROVE PageInv'
<1> DEFINE kept == {i \in Ids : Active(i) /\ rows[i].ip \in Jailed}
           long == {i \in Ids : InForce(i) /\ Long(i) /\ rows[i].ip \notin Jailed}
           over == {i \in Ids : Active(i)} \ (kept \cup long)
           added == {i \in long : rows[i].ip \notin sync.nft}
           removed == {i \in over : Long(i)}
           AddedLast(i) == \A k \in removed : rows[k].ip = rows[i].ip => k < i
           web == sync.web \cup {rows[i].ip : i \in {k \in kept \cup long : FromWeb(k)}}
<1>1. /\ sync.pc = "review"
      /\ nft' = (nft \ {rows[i].ip : i \in removed})
                   \cup {rows[i].ip : i \in {k \in added : AddedLast(k)}}
      /\ rows' = [i \in Ids |-> [rows[i] EXCEPT !.lifted = rows[i].lifted \/ i \in over]]
      /\ sync' = [sync EXCEPT !.pc = "replace", !.web = web]
      /\ UNCHANGED <<jail, refused, jobs, tries, calm, events>>
  BY DEF ReviewRows
<1>2. \A i \in Ids : rows[i].ip \in Ips  BY BansFacts DEF BanRow
<1>3. nft' \subseteq Ips /\ web \subseteq Ips  BY <1>1, <1>2, BansFacts, PageFacts
<1>4. /\ rows' \in Seq(BanRow) /\ Ids' = Ids
      /\ \A i \in Ids : /\ rows'[i].ip = rows[i].ip /\ rows'[i].from = rows[i].from
                        /\ rows'[i].expired = rows[i].expired
                        /\ rows'[i].level = rows[i].level
                        /\ ~rows'[i].lifted <=> ~rows[i].lifted /\ i \notin over
  <2> HIDE DEF over
  <2>1. QED  BY <1>1, RowsLifted, BansFacts
<1>5. sync' \in Pages /\ sync'.pc = "replace" /\ sync'.web = web /\ sync'.read = sync.read
  <2> HIDE DEF web
  <2>1. QED  BY <1>1, <1>3, PageFacts DEF Pages
<1>6. PageTypes'  BY <1>1, <1>3, <1>4, <1>5, BansFacts, PageFacts DEF PageTypes
<1>7. PageSteps'
  <2>1. SUFFICES ASSUME calm >= 1
                 PROVE  /\ NoneExpired' /\ HeldHaveRows' /\ LongBlocked'
                        /\ sync'.read /\ (sync.web = jail["web"] \cup WebBans)'
    BY <1>1, <1>5 DEF PageSteps
  <2>2. NoneExpired /\ HeldHaveRows /\ ReadTrue /\ sync.web = jail["web"]
    BY <1>1, <2>1, PageFacts DEF PageSteps
  <2>3. Jailed = Held /\ Held' = Held  BY <1>1, <2>2 DEF Jailed, Held, ReadTrue
  <2>4. kept \cap over = {} /\ long \cap over = {}  OBVIOUS
  <2>5. \A i \in Ids : ~rows'[i].lifted <=> i \in kept \cup long
    <3>1. \A i \in kept \cup long : Active(i)  BY DEF InForce
    <3>2. QED  BY <1>4, <3>1 DEF Active
  <2>6. removed = {}
    <3>1. ASSUME NEW i \in removed PROVE FALSE
      <4>1. i \in Ids /\ Active(i) /\ Long(i) /\ i \notin kept /\ i \notin long  OBVIOUS
      <4>2. ~rows[i].expired  BY <2>2, <4>1 DEF NoneExpired
      <4>3. QED  BY <4>1, <4>2 DEF InForce
    <3>2. QED  BY <3>1
  <2>7. nft' = nft \cup {rows[i].ip : i \in added}
    <3>1. \A i \in added : AddedLast(i)  BY <2>6
    <3> HIDE DEF added, removed, AddedLast
    <3>2. QED  BY <1>1, <2>6, <3>1
  <2>8. NoneExpired'
    BY <1>4, <2>2, <2>5 DEF NoneExpired, Active, InForce
  <2>9. HeldHaveRows'
    <3>1. ASSUME NEW ip \in Held
          PROVE  \E i \in Ids : rows'[i].ip = ip /\ ~rows'[i].lifted
      <4>1. PICK i \in Ids : rows[i].ip = ip /\ Active(i)  BY <2>2, <3>1 DEF HeldHaveRows
      <4>2. i \in kept  BY <2>3, <3>1, <4>1
      <4>3. QED  BY <1>4, <2>5, <4>1, <4>2
    <3>2. QED  BY <1>4, <2>3, <3>1 DEF HeldHaveRows, Active
  <2>10. LongBlocked'
    <3>1. ASSUME NEW i \in Ids, ~rows'[i].lifted PROVE rows'[i].ip \in nft' \cup Held
      <4>1. CASE i \in kept  BY <1>4, <2>3, <4>1
      <4>2. CASE i \in long
        <5>1. CASE rows[i].ip \in sync.nft  BY <1>4, <2>2, <2>7, <5>1 DEF ReadTrue
        <5>2. CASE rows[i].ip \notin sync.nft
          <6>1. i \in added  BY <4>2, <5>2
          <6>2. QED  BY <1>4, <2>7, <6>1
        <5>3. QED  BY <5>1, <5>2
      <4>3. QED  BY <2>5, <3>1, <4>1, <4>2
    <3>2. QED  BY <1>4, <2>3, <3>1 DEF LongBlocked, Active
  <2>11. (sync.web = jail["web"] \cup WebBans)'
    <3>1. WebBans' = {rows'[i].ip : i \in {k \in Ids : ~rows'[k].lifted /\ rows'[k].from = "web"}}
      BY <1>4 DEF WebBans, Active, FromWeb
    <3>2. {k \in Ids : ~rows'[k].lifted /\ rows'[k].from = "web"}
            = {k \in kept \cup long : FromWeb(k)}
      BY <1>4, <2>5 DEF FromWeb
    <3>3. WebBans' = {rows[i].ip : i \in {k \in kept \cup long : FromWeb(k)}}
      BY <1>4, <3>1, <3>2
    <3>4. QED  BY <1>1, <1>5, <2>2, <3>3
  <2>12. QED  BY <1>5, <2>2, <2>8, <2>9, <2>10, <2>11 DEF ReadTrue
<1>8. QED  BY <1>6, <1>7 DEF PageInv

LEMMA ReplaceRefusedStep == ASSUME PageInv, ReplaceRefused PROVE PageInv'
<1>1. /\ sync.pc = "replace" /\ sync' = [sync EXCEPT !.pc = "clean"]
      /\ refused' = IF sync.read \/ sync.web # {} THEN sync.web ELSE refused
      /\ UNCHANGED <<rows, nft, jail, jobs, tries, calm, events>>
  BY DEF ReplaceRefused
<1>2. sync' \in Pages /\ sync'.pc = "clean"  BY <1>1, PageFacts DEF Pages
<1>3. refused' \subseteq Ips  BY <1>1, BansFacts, PageFacts
<1>4. PageTypes'  BY <1>1, <1>2, <1>3, BansFacts, PageFacts DEF PageTypes
<1>5. PageSteps'
  <2>1. SUFFICES ASSUME calm >= 1
                 PROVE  /\ NoneExpired' /\ HeldHaveRows' /\ LongBlocked'
                        /\ refused' = jail["web"] \cup WebBans'
    BY <1>1, <1>2 DEF PageSteps
  <2>2. /\ NoneExpired /\ HeldHaveRows /\ LongBlocked
        /\ sync.read /\ sync.web = jail["web"] \cup WebBans
    BY <1>1, <2>1, PageFacts DEF PageSteps
  <2>3. QED
    BY <1>1, <2>2
    DEF NoneExpired, HeldHaveRows, LongBlocked, WebBans, Held, Ids, Active, FromWeb
<1>6. QED  BY <1>4, <1>5 DEF PageInv

\* CleanExpiredBans leaves no active row that has expired; on a second opening it
\* finds none.
LEMMA CleanExpiredStep == ASSUME PageInv, CleanExpiredBans PROVE PageInv'
<1> DEFINE over == {i \in Ids : Active(i) /\ rows[i].expired}
           Of(from) == {rows[i].ip : i \in {k \in over : rows[k].from \in from}}
<1>1. /\ sync.pc = "clean"
      /\ rows' = [i \in Ids |-> [rows[i] EXCEPT !.lifted = rows[i].lifted \/ i \in over]]
      /\ nft' = nft \ Of({"panel", "panel_scan"}) /\ refused' = refused \ Of({"web"})
      /\ sync' = ClosedPage /\ calm' = IF calm = 2 THEN 2 ELSE calm + 1
      /\ UNCHANGED <<jail, jobs, tries, events>>
  BY DEF CleanExpiredBans
<1>2. /\ rows' \in Seq(BanRow) /\ Ids' = Ids
      /\ \A i \in Ids : /\ rows'[i].ip = rows[i].ip /\ rows'[i].from = rows[i].from
                        /\ rows'[i].expired = rows[i].expired
                        /\ rows'[i].level = rows[i].level
                        /\ ~rows'[i].lifted <=> ~rows[i].lifted /\ i \notin over
  <2> HIDE DEF over
  <2>1. QED  BY <1>1, RowsLifted, BansFacts
<1>3. sync' \in Pages /\ sync'.pc = "closed"
  <2>1. NoJail \in [Jails -> SUBSET Ips]  BY DEF NoJail
  <2>2. QED  BY <1>1, <2>1 DEF ClosedPage, Pages
<1>4. calm' \in -1..2  BY <1>1, PageFacts
<1>5. nft' \subseteq Ips /\ refused' \subseteq Ips  BY <1>1, BansFacts
<1>6. PageTypes'  BY <1>1, <1>2, <1>3, <1>4, <1>5, BansFacts DEF PageTypes
<1>7. NoneExpired'  BY <1>2 DEF NoneExpired, Active
<1>8. PageSteps'
  <2>1. SUFFICES ASSUME calm' = 2
                 PROVE  /\ HeldHaveRows' /\ LongBlocked'
                        /\ refused' = jail'["web"] \cup WebBans'
    BY <1>3, <1>7 DEF PageSteps
  <2>2. calm >= 1  BY <1>1, <2>1, PageFacts
  <2>3. /\ NoneExpired /\ HeldHaveRows /\ LongBlocked
        /\ refused = jail["web"] \cup WebBans
    BY <1>1, <2>2, PageFacts DEF PageSteps
  <2>4. over = {}  BY <2>3 DEF NoneExpired
  <2>5. nft' = nft /\ refused' = refused
    <3>1. \A from : Of(from) = {}  BY <2>4
    <3> HIDE DEF Of
    <3>2. QED  BY <1>1, <3>1
  <2>6. \A i \in Ids : ~rows'[i].lifted <=> ~rows[i].lifted
    <3> HIDE DEF over
    <3>1. QED  BY <1>2, <2>4
  <2>7. Held' = Held  BY <1>1 DEF Held
  <2>8. HeldHaveRows' /\ LongBlocked'
    BY <1>2, <2>3, <2>5, <2>6, <2>7 DEF HeldHaveRows, LongBlocked, Active
  <2>9. WebBans' = WebBans
    <3>1. WebBans' = {rows'[i].ip : i \in {k \in Ids : ~rows'[k].lifted /\ rows'[k].from = "web"}}
      BY <1>2 DEF WebBans, Active, FromWeb
    <3>2. {k \in Ids : ~rows'[k].lifted /\ rows'[k].from = "web"}
            = {k \in Ids : Active(k) /\ FromWeb(k)}
      BY <1>2, <2>6 DEF FromWeb, Active
    <3>3. QED  BY <1>2, <3>1, <3>2 DEF WebBans
  <2>10. QED  BY <1>1, <2>3, <2>5, <2>8, <2>9
<1>9. QED  BY <1>6, <1>8 DEF PageInv

LEMMA BansStep == ASSUME PageInv, [NextBans]_varsBans PROVE PageInv'
<1>1. CASE UNCHANGED varsBans
  BY <1>1 DEF varsBans, PageInv, PageTypes, PageSteps, NoneExpired, HeldHaveRows, LongBlocked,
              WebBans, Held, ReadTrue, Ids, Active, FromWeb
<1>2. CASE Page \/ UnbanAll
  BY <1>2, OpenPageStep, RecordJailedStep, ReviewRowsStep, ReplaceRefusedStep,
     CleanExpiredStep, UnbanAllStep
  DEF Page
<1>3. ASSUME NEW ip \in Ips,
             \/ FailLogin(ip) \/ ForgetTries(ip) \/ Scan(ip) \/ ManualBan(ip)
             \/ \E j \in Jails : Offend(j, ip) \/ Forgive(j, ip)
      PROVE  PageInv'
  BY <1>3, LoginSteps, StartSteps, JailSteps
<1>4. ASSUME NEW i \in Ids, Unban(i) \/ PermanentBan(i) \/ ExpireBan(i) PROVE PageInv'
  BY <1>4, UnbanStep, PermanentStep, ExpireStep
<1>5. ASSUME NEW k \in 1..Len(jobs), JobStep(k) PROVE PageInv'  BY <1>5, JobStepStep
<1>6. QED  BY <1>1, <1>2, <1>3, <1>4, <1>5 DEF NextBans

\* Types and the steps of the page, in every reachable state.
LEMMA PageHolds == SpecBans => []PageInv
<1>1. InitBans => PageInv
  <2> SUFFICES ASSUME InitBans PROVE PageInv  OBVIOUS
  <2>1. /\ rows = <<>> /\ nft = {} /\ jail = NoJail /\ refused = {} /\ jobs = <<>>
        /\ sync = ClosedPage /\ tries = [ip \in Ips |-> 0] /\ calm = 0
    BY DEF InitBans
  <2>2. NoJail \in [Jails -> SUBSET Ips]  BY DEF NoJail
  <2>3. ClosedPage \in Pages  BY <2>2 DEF ClosedPage, Pages
  <2>4. tries \in [Ips -> 0..MaxTries]  BY <2>1, BanControlAssumption
  <2>5. jobs \in Seq(Work) /\ Len(jobs) <= MaxJobs /\ rows \in Seq(BanRow)
    BY <2>1, BanControlAssumption
  <2>6. PageTypes  BY <2>1, <2>2, <2>3, <2>4, <2>5 DEF PageTypes
  <2>7. QED  BY <2>1, <2>6 DEF PageInv, PageSteps
<1>2. PageInv /\ [NextBans]_varsBans => PageInv'  BY BansStep
<1>3. QED  BY <1>1, <1>2, PTL DEF SpecBans

\* Each variable has its type; there is no empty work, and no more than allowed.
THEOREM BansTyping == SpecBans => []BansTypeOK
<1>1. PageInv => BansTypeOK
  <2> SUFFICES ASSUME PageInv PROVE BansTypeOK  OBVIOUS
  <2>1. PageTypes  BY DEF PageInv
  <2>2. Len(jobs) \in Nat /\ \A k \in 1..Len(jobs) : jobs[k] # <<>>
    BY <2>1 DEF PageTypes, Work
  <2>3. rows \in Seq([ip : Ips, level : 2..5, from : Jails \cup {"panel", "panel_scan"},
                    expired : BOOLEAN, lifted : BOOLEAN])
    BY <2>1 DEF PageTypes, BanRow, Levels5, Origins
  <2>4. QED  BY <2>1, <2>2, <2>3 DEF PageTypes, Pages, BansTypeOK
<1>2. QED  BY <1>1, PageHolds, PTL

\* SyncFail2banBans, CleanExpiredBans: for any number of addresses, rows and
\* clicks, two openings of the ban page with nothing else in between bring the
\* rows, nftables, the jails and nginx together.
THEOREM PageBringsTogether == SpecBans => []PageConverges
<1>1. PageInv => PageConverges
  <2> SUFFICES ASSUME PageInv, calm = 2, sync.pc = "closed"
               PROVE  NoneExpired /\ HeldHaveRows /\ LongBlocked
                        /\ refused = jail["web"] \cup WebBans
    BY DEF PageConverges, NoneExpired, HeldHaveRows, LongBlocked, Held, WebBans
  <2>1. QED  BY DEF PageInv, PageSteps
<1>2. QED  BY <1>1, PageHolds, PTL

==============================================================================
