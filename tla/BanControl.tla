----------------------------- MODULE BanControl ------------------------------
(* Who is banned (executor/fail2ban.go, handlers/firewall.go,                *)
(* middleware/scan_defense.go and login_attempt.go): the rows of             *)
(* firewall_bans, the nftables set of the long bans, the jails of Fail2ban   *)
(* and the addresses nginx refuses.  The four are brought together only when *)
(* the page of the bans is opened, beside everything that bans and unbans.   *)
(* Updates of the nginx file are single steps here (see NginxBanFile), and a *)
(* command given to Fail2ban includes the action it triggers.                *)
EXTENDS Integers, Sequences, FiniteSets, SequencesExt

CONSTANTS
  Ips,        \* addresses
  MaxTries,   \* failed logins that ban an address (MaxLoginAttempts)
  MaxRows,    \* bound on the rows of firewall_bans
  MaxJobs,    \* bound on the goroutines and requests under way
  MaxEvents   \* bound on the offences, clicks and expiries

ASSUME BanControlAssumption ==
  IsFiniteSet(Ips) /\ {MaxTries, MaxRows, MaxJobs, MaxEvents} \subseteq Nat

VARIABLES
  rows,     \* firewall_bans by id: address, level, jail, expired, lifted
  nft,      \* the set banned_ips of nftables
  jail,     \* what Fail2ban holds: wppanel and wppanel-404 are "web"
  refused,  \* the addresses in the file of nginx
  jobs,     \* work under way: for each, the operations still to do
  sync,     \* the opening of the ban page: where it is, what it read
  tries,    \* recent failed logins by address
  calm,     \* openings of the page since anything else happened (-1: in one)
  events    \* offences, clicks and expiries so far

varsBans == <<rows, nft, jail, refused, jobs, sync, tries, calm, events>>

Jails == {"web", "ssh"}
NoJail == [j \in Jails |-> {}]
ClosedPage == [pc |-> "closed", jail |-> NoJail, nft |-> {}, web |-> {}, read |-> FALSE]

Ids == 1..Len(rows)
Active(i) == ~rows[i].lifted
InForce(i) == Active(i) /\ ~rows[i].expired
Long(i) == rows[i].level >= 3
FromWeb(i) == rows[i].from = "web"
Row(ip, level, from) ==
  [ip |-> ip, level |-> level, from |-> from, expired |-> FALSE, lifted |-> FALSE]

InitBans ==
  /\ rows = <<>> /\ nft = {} /\ jail = NoJail /\ refused = {}
  /\ jobs = <<>> /\ sync = ClosedPage
  /\ tries = [ip \in Ips |-> 0] /\ calm = 0 /\ events = 0

\* Anything but the page itself disturbs what the page is putting in order.
Disturb == calm' = IF sync.pc = "closed" THEN 0 ELSE -1

Event == events < MaxEvents /\ events' = events + 1 /\ Disturb

Insert(new) == Len(rows) < MaxRows /\ rows' = Append(rows, new)

Start(ops) == Len(jobs) < MaxJobs /\ jobs' = Append(jobs, ops)

Op(kind, ip) == [do |-> kind, ip |-> ip, from |-> "web"]
------------------------------------------------------------------------------
\* Fail2ban bans an address by itself; the action of a web jail calls the panel.
Offend(j, ip) ==
  /\ ip \notin jail[j] /\ Event
  /\ jail' = [jail EXCEPT ![j] = @ \cup {ip}]
  /\ IF j = "web" THEN Start(<<Op("nginx_add", ip)>>) ELSE UNCHANGED jobs
  /\ UNCHANGED <<rows, nft, refused, sync, tries>>

\* bantime is over.
Forgive(j, ip) ==
  /\ ip \in jail[j] /\ Event
  /\ jail' = [jail EXCEPT ![j] = @ \ {ip}]
  /\ IF j = "web" THEN Start(<<Op("nginx_del", ip)>>) ELSE UNCHANGED jobs
  /\ UNCHANGED <<rows, nft, refused, sync, tries>>

\* RecordAttempt and banIP, under the mutex of the tracker, for a request that
\* passed IsBanned before.
FailLogin(ip) ==
  /\ ip \notin nft /\ Event
  /\ tries' = [tries EXCEPT ![ip] = IF @ < MaxTries THEN @ + 1 ELSE @]
  /\ IF tries'[ip] = MaxTries /\ ~ \E i \in Ids : rows[i].ip = ip /\ InForce(i)
     THEN Insert(Row(ip, 3, "panel")) /\ nft' = nft \cup {ip}
     ELSE UNCHANGED <<rows, nft>>
  /\ UNCHANGED <<jail, refused, jobs, sync>>

\* A successful login clears the attempts, and time takes them out of the window.
ForgetTries(ip) ==
  /\ tries[ip] > 0 /\ Event
  /\ tries' = [tries EXCEPT ![ip] = 0]
  /\ UNCHANGED <<rows, nft, jail, refused, jobs, sync>>

\* banScanIP counts the rows not lifted, expired ones too, without a lock.
Scan(ip) ==
  /\ ip \notin nft /\ Event
  /\ ~ \E i \in Ids : rows[i].ip = ip /\ Active(i)
  /\ Start(<<Op("scan_row", ip), Op("nft_add", ip)>>)
  /\ UNCHANGED <<rows, nft, jail, refused, sync, tries>>

\* executeManualBan, in the worker: Fail2ban first, then the row.
ManualBan(ip) ==
  /\ Event
  /\ \E level \in {2, 3, 5} :
       Start(<<Op("jail_add", ip), [do |-> "manual_row", ip |-> ip, from |-> level]>>
             \o (IF level >= 3 THEN <<Op("nft_add", ip)>> ELSE <<>>)
             \o <<Op("nginx_add", ip)>>)
  /\ UNCHANGED <<rows, nft, jail, refused, sync, tries>>

\* The row is lifted at once, the firewall in a goroutine.
Unban(i) ==
  /\ Active(i) /\ Event
  /\ rows' = [rows EXCEPT ![i].lifted = TRUE]
  /\ LET ip == rows[i].ip
         from == rows[i].from
     IN Start((IF from \in Jails
               THEN <<[do |-> "jail_del", ip |-> ip, from |-> from]>> ELSE <<>>)
              \o (IF from = "web" THEN <<Op("nginx_del", ip)>> ELSE <<>>)
              \o <<Op("nft_del", ip)>>)
  /\ UNCHANGED <<nft, jail, refused, sync, tries>>

\* Of any row, the lifted ones of the history too, which stay lifted.
PermanentBan(i) ==
  /\ rows[i].level # 5 /\ Event
  /\ rows' = [rows EXCEPT ![i].level = 5, ![i].expired = FALSE]
  /\ Start(<<Op("nft_add", rows[i].ip)>>
           \o (IF FromWeb(i) THEN <<Op("nginx_add", rows[i].ip)>> ELSE <<>>))
  /\ UNCHANGED <<nft, jail, refused, sync, tries>>

\* wp-panel --unban-all, another process.
UnbanAll ==
  /\ Event
  /\ rows' = [i \in Ids |-> [rows[i] EXCEPT !.lifted = TRUE]]
  /\ Start(<<Op("nft_flush", "all"), Op("nginx_empty", "all"), Op("jail_empty", "all")>>)
  /\ UNCHANGED <<nft, jail, refused, sync, tries>>

\* A ban with an end reaches it.
ExpireBan(i) ==
  /\ InForce(i) /\ rows[i].level # 5 /\ Event
  /\ rows' = [rows EXCEPT ![i].expired = TRUE]
  /\ UNCHANGED <<nft, jail, refused, jobs, sync, tries>>

\* The next operation of a goroutine, a request or a process.
JobStep(k) ==
  LET op == Head(jobs[k])
      ip == op.ip
  IN /\ jobs' = IF Len(jobs[k]) = 1 THEN RemoveAt(jobs, k)
                                    ELSE [jobs EXCEPT ![k] = Tail(@)]
     /\ CASE op.do = "scan_row"    -> Insert(Row(ip, 4, "panel_scan"))
          [] op.do = "manual_row"  -> Insert(Row(ip, op.from, "web"))
          [] OTHER                 -> UNCHANGED rows
     /\ nft' = CASE op.do = "nft_add"   -> nft \cup {ip}
                 [] op.do = "nft_del"   -> nft \ {ip}
                 [] op.do = "nft_flush" -> {}
                 [] OTHER               -> nft
     /\ refused' = CASE op.do \in {"nginx_add", "jail_add"}
                                              -> refused \cup {ip}
                     [] op.do = "nginx_del" \/ (op.do = "jail_del" /\ op.from = "web")
                                              -> refused \ {ip}
                     [] op.do = "nginx_empty" -> {}
                     [] op.do = "jail_empty"  -> refused \ jail["web"]
                     [] OTHER                 -> refused
     /\ jail' = CASE op.do = "jail_add"   -> [jail EXCEPT !["web"] = @ \cup {ip}]
                  [] op.do = "jail_del"   -> [jail EXCEPT ![op.from] = @ \ {ip}]
                  [] op.do = "jail_empty" -> NoJail
                  [] OTHER                -> jail
     /\ Disturb
     /\ UNCHANGED <<sync, tries, events>>
------------------------------------------------------------------------------
(* Opening the page: SyncFail2banBans under its mutex, then CleanExpiredBans. *)

\* The jails, one of which may not answer, and the nftables set.
OpenPage ==
  /\ sync.pc = "closed"
  /\ \E dumb \in SUBSET Jails :
       LET seen == [j \in Jails |-> IF j \in dumb THEN {} ELSE jail[j]]
       IN /\ sync' = [pc |-> "record", jail |-> seen, nft |-> nft,
                      web |-> seen["web"], read |-> "web" \notin dumb]
          /\ calm' = IF dumb = {} THEN calm ELSE -1
  /\ UNCHANGED <<rows, nft, jail, refused, jobs, tries, events>>

Jailed == sync.jail["web"] \cup sync.jail["ssh"]

\* The level of a new offence, by the bans of the last day and of the last month
\* (which of the rows are that recent is left open).
Levels(ip) ==
  LET past == {i \in Ids : rows[i].ip = ip}
  IN {2} \cup (IF past # {} THEN {3} ELSE {})
         \cup (IF Cardinality({i \in past : Long(i)}) >= 2 THEN {5} ELSE {})

\* A jailed address without a row gets one, and a long ban goes to nftables.
RecordJailed ==
  /\ sync.pc = "record"
  /\ LET unknown == {ip \in Jailed : ~ \E i \in Ids : rows[i].ip = ip /\ Active(i)}
     IN \E level \in [unknown -> {2, 3, 5}] :
          /\ \A ip \in unknown : level[ip] \in Levels(ip)
          /\ Len(rows) + Cardinality(unknown) <= MaxRows
          /\ rows' = rows \o [k \in 1..Cardinality(unknown) |->
                 LET ip == SetToSeq(unknown)[k]
                 IN Row(ip, level[ip], IF ip \in sync.jail["web"] THEN "web" ELSE "ssh")]
          /\ nft' = nft \cup {ip \in unknown : level[ip] >= 3}
  /\ sync' = [sync EXCEPT !.pc = "review"]
  /\ UNCHANGED <<jail, refused, jobs, tries, calm, events>>

\* Each active row in turn: kept while its address is jailed, enforced again
\* when it is a long ban in force, and lifted otherwise.
ReviewRows ==
  /\ sync.pc = "review"
  /\ LET kept == {i \in Ids : Active(i) /\ rows[i].ip \in Jailed}
         long == {i \in Ids : InForce(i) /\ Long(i) /\ rows[i].ip \notin Jailed}
         over == {i \in Ids : Active(i)} \ (kept \cup long)
         added == {i \in long : rows[i].ip \notin sync.nft}
         removed == {i \in over : Long(i)}
         AddedLast(i) == \A k \in removed : rows[k].ip = rows[i].ip => k < i
     IN /\ nft' = (nft \ {rows[i].ip : i \in removed})
                    \cup {rows[i].ip : i \in {k \in added : AddedLast(k)}}
        /\ rows' = [i \in Ids |-> [rows[i] EXCEPT !.lifted = @ \/ i \in over]]
        /\ sync' = [sync EXCEPT !.pc = "replace",
             !.web = @ \cup {rows[i].ip : i \in {k \in kept \cup long : FromWeb(k)}}]
  /\ UNCHANGED <<jail, refused, jobs, tries, calm, events>>

\* Mutant: only the jailed addresses are written.
ReplaceByJails ==
  /\ sync.pc = "replace"
  /\ refused' = IF sync.read THEN sync.jail["web"] ELSE refused
  /\ sync' = [sync EXCEPT !.pc = "clean"]
  /\ UNCHANGED <<rows, nft, jail, jobs, tries, calm, events>>

\* ReplaceNginxBannedIPs, when a web jail answered or there is anything to write.
ReplaceRefused ==
  /\ sync.pc = "replace"
  /\ refused' = IF sync.read \/ sync.web # {} THEN sync.web ELSE refused
  /\ sync' = [sync EXCEPT !.pc = "clean"]
  /\ UNCHANGED <<rows, nft, jail, jobs, tries, calm, events>>

\* CleanExpiredBans, and the page is answered.
CleanExpiredBans ==
  /\ sync.pc = "clean"
  /\ LET over == {i \in Ids : Active(i) /\ rows[i].expired}
         Of(from) == {rows[i].ip : i \in {k \in over : rows[k].from \in from}}
     IN /\ rows' = [i \in Ids |-> [rows[i] EXCEPT !.lifted = @ \/ i \in over]]
        /\ nft' = nft \ Of({"panel", "panel_scan"})
        /\ refused' = refused \ Of({"web"})
  /\ sync' = ClosedPage
  /\ calm' = IF calm = 2 THEN 2 ELSE calm + 1
  /\ UNCHANGED <<jail, jobs, tries, events>>

Page == OpenPage \/ RecordJailed \/ ReviewRows \/ ReplaceRefused \/ CleanExpiredBans

NextBans ==
  \/ Page \/ UnbanAll
  \/ \E ip \in Ips : \/ FailLogin(ip) \/ ForgetTries(ip) \/ Scan(ip) \/ ManualBan(ip)
                     \/ \E j \in Jails : Offend(j, ip) \/ Forgive(j, ip)
  \/ \E i \in Ids : Unban(i) \/ PermanentBan(i) \/ ExpireBan(i)
  \/ \E k \in 1..Len(jobs) : JobStep(k)

SpecBans == InitBans /\ [][NextBans]_varsBans
------------------------------------------------------------------------------
\* Each variable has its type.
BansTypeOK ==
  /\ rows \in Seq([ip : Ips, level : 2..5, from : Jails \cup {"panel", "panel_scan"},
                   expired : BOOLEAN, lifted : BOOLEAN])
  /\ nft \subseteq Ips /\ refused \subseteq Ips
  /\ jail \in [Jails -> SUBSET Ips]
  /\ sync.pc \in {"closed", "record", "review", "replace", "clean"}
  /\ Len(jobs) <= MaxJobs /\ \A k \in 1..Len(jobs) : jobs[k] # <<>>
  /\ tries \in [Ips -> 0..MaxTries] /\ calm \in -1..2

\* SyncFail2banBans, CleanExpiredBans: whatever order bans, unbans and expiries
\* came in, two openings of the page with nothing else in between bring the four
\* places together.  Every row not lifted is in force and is blocked if it is a
\* long ban, every jailed address has a row, and nginx refuses exactly the
\* jailed addresses and those of the web bans in force.
PageConverges ==
  calm = 2 /\ sync.pc = "closed" =>
    LET held == jail["web"] \cup jail["ssh"]
    IN /\ \A i \in Ids : Active(i) =>
            /\ ~rows[i].expired
            /\ rows[i].ip \in nft \cup held
       /\ \A ip \in held : \E i \in Ids : rows[i].ip = ip /\ Active(i)
       /\ refused = jail["web"] \cup
                    {rows[i].ip : i \in {k \in Ids : Active(k) /\ FromWeb(k)}}
==============================================================================
