---------------------------- MODULE NginxBanFile -----------------------------
(* The file of addresses nginx refuses (executor/nginx_ban.go).  The panel's *)
(* goroutines and the processes Fail2ban starts (wp-panel --banip-nginx)     *)
(* read, change and write it under a lock file made with O_EXCL: a caller    *)
(* that finds the lock waits up to five seconds, and removes the lock when   *)
(* it is more than thirty seconds old.                                       *)
EXTENDS Integers, FiniteSets

CONSTANTS
  Callers,        \* goroutines and processes that change the file
  Addresses,      \* what the file lists
  MaxBanCalls,    \* bound on the calls made
  BanFaults       \* BOOLEAN: a caller dies, or outlives thirty seconds

ASSUME BanAssumption == MaxBanCalls \in Nat /\ BanFaults \in BOOLEAN

VARIABLES
  banned,     \* the addresses in the file
  banLock,    \* the callers whose lock file exists: {} or one of them
  banAged,    \* the lock file is more than thirty seconds old
  banCall,    \* where each caller is, what it was called for, what it read
  banBroken,  \* some caller has found a lock too old
  banCalls    \* calls so far

varsBan == <<banned, banLock, banAged, banCall, banBroken, banCalls>>

\* AddNginxBan and RemoveNginxBan take one address, ReplaceNginxBannedIPs a set.
BanKinds == {"add", "remove", "replace"}

NotCalling == [pc |-> "idle", kind |-> "replace", ips |-> {}, seen |-> {}]

InUpdate == {"read", "write", "test", "restore", "release"}

BanAt(c, pc) == banCall[c].pc = pc

BanGoTo(c, pc) == banCall' = [banCall EXCEPT ![c].pc = pc]

InitBan ==
  /\ banned \in SUBSET Addresses
  /\ banLock = {} /\ banAged = FALSE
  /\ banCall = [c \in Callers |-> NotCalling]
  /\ banBroken = FALSE /\ banCalls = 0

CallBan(c) ==
  /\ BanAt(c, "idle") /\ banCalls < MaxBanCalls
  /\ \E k \in BanKinds, ips \in SUBSET Addresses :
       /\ k # "replace" => Cardinality(ips) = 1
       /\ banCall' = [banCall EXCEPT
            ![c] = [pc |-> "wait", kind |-> k, ips |-> ips, seen |-> {}]]
  /\ banCalls' = banCalls + 1
  /\ UNCHANGED <<banned, banLock, banAged, banBroken>>

\* Mutant: the lock file is opened without O_EXCL.
AcquireBanLockShared(c) ==
  /\ BanAt(c, "wait")
  /\ banLock' = {c} /\ banAged' = FALSE
  /\ BanGoTo(c, IF banCall[c].kind = "replace" THEN "write" ELSE "read")
  /\ UNCHANGED <<banned, banBroken, banCalls>>

\* OpenFile with O_EXCL succeeds.  A replacement reads nothing first.
AcquireBanLock(c) ==
  /\ BanAt(c, "wait") /\ banLock = {}
  /\ banLock' = {c} /\ banAged' = FALSE
  /\ BanGoTo(c, IF banCall[c].kind = "replace" THEN "write" ELSE "read")
  /\ UNCHANGED <<banned, banBroken, banCalls>>

\* The lock is there and is older than thirty seconds: Stat, then Remove.
FindAgedLock(c) ==
  /\ BanAt(c, "wait") /\ banLock # {} /\ banAged
  /\ banBroken' = TRUE
  /\ BanGoTo(c, "break")
  /\ UNCHANGED <<banned, banLock, banAged, banCalls>>

\* os.Remove takes away whatever lock file is there by now.
BreakLock(c) ==
  /\ BanAt(c, "break")
  /\ banLock' = {} /\ banAged' = FALSE
  /\ BanGoTo(c, "wait")
  /\ UNCHANGED <<banned, banBroken, banCalls>>

BanReturn(c) == banCall' = [banCall EXCEPT ![c] = NotCalling]

\* Five seconds have passed; the callers ignore the error.
GiveUp(c) ==
  /\ BanAt(c, "wait") /\ banLock # {}
  /\ BanReturn(c)
  /\ UNCHANGED <<banned, banLock, banAged, banBroken, banCalls>>

ReadBanned(c) ==
  /\ BanAt(c, "read")
  /\ banCall' = [banCall EXCEPT ![c].pc = "write", ![c].seen = banned]
  /\ UNCHANGED <<banned, banLock, banAged, banBroken, banCalls>>

\* What a caller wants the file to be, from what it read.
WantedBans(call) ==
  CASE call.kind = "add"     -> call.seen \cup call.ips
    [] call.kind = "remove"  -> call.seen \ call.ips
    [] call.kind = "replace" -> call.ips

\* The old content is read again, for the restoration; an unchanged content
\* is not written.
WriteBanned(c) ==
  /\ BanAt(c, "write")
  /\ banned' = WantedBans(banCall[c])
  /\ banCall' = [banCall EXCEPT
       ![c].pc = IF WantedBans(banCall[c]) = banned THEN "release" ELSE "test",
       ![c].seen = banned]
  /\ UNCHANGED <<banLock, banAged, banBroken, banCalls>>

\* Mutant: the lock is removed before nginx -t has accepted the file.
TestBannedUnlocked(c) ==
  /\ BanAt(c, "test")
  /\ banLock' = {}
  /\ \E pc \in {"release", "restore"} : BanGoTo(c, pc)
  /\ UNCHANGED <<banned, banAged, banBroken, banCalls>>

\* nginx -t, which fails for any error in any file.
TestBanned(c) ==
  /\ BanAt(c, "test")
  /\ \E pc \in {"release", "restore"} : BanGoTo(c, pc)
  /\ UNCHANGED <<banned, banLock, banAged, banBroken, banCalls>>

RestoreBanned(c) ==
  /\ BanAt(c, "restore")
  /\ banned' = banCall[c].seen
  /\ BanGoTo(c, "release")
  /\ UNCHANGED <<banLock, banAged, banBroken, banCalls>>

\* The deferred os.Remove, after the reload whatever its result.
ReleaseBanLock(c) ==
  /\ BanAt(c, "release")
  /\ banLock' = {} /\ banAged' = FALSE
  /\ BanReturn(c)
  /\ UNCHANGED <<banned, banBroken, banCalls>>

\* The process of a caller ends: its lock file stays.
DieInBan(c) ==
  /\ BanFaults /\ ~BanAt(c, "idle")
  /\ BanReturn(c)
  /\ UNCHANGED <<banned, banLock, banAged, banBroken, banCalls>>

\* Thirty seconds since the lock was made, its holder alive or not.
AgeLock ==
  /\ BanFaults /\ banLock # {} /\ ~banAged
  /\ banAged' = TRUE
  /\ UNCHANGED <<banned, banLock, banCall, banBroken, banCalls>>

BanWaiting(c) == CallBan(c) \/ AcquireBanLock(c) \/ FindAgedLock(c) \/ BreakLock(c) \/ GiveUp(c)

BanUpdating(c) ==
  ReadBanned(c) \/ WriteBanned(c) \/ TestBanned(c) \/ RestoreBanned(c) \/ ReleaseBanLock(c)

NextBan == AgeLock \/ \E c \in Callers : BanWaiting(c) \/ BanUpdating(c) \/ DieInBan(c)

SpecBan == InitBan /\ [][NextBan]_varsBan
------------------------------------------------------------------------------
\* Each variable has its type.
BanTypeOK ==
  /\ banned \subseteq Addresses
  /\ banLock \subseteq Callers
  /\ banAged \in BOOLEAN /\ banBroken \in BOOLEAN
  /\ banCall \in [Callers -> [pc : {"idle", "wait", "break"} \cup InUpdate,
                              kind : BanKinds, ips : SUBSET Addresses,
                              seen : SUBSET Addresses]]
  /\ banCalls \in Nat

\* withNginxBanLock: until somebody has found a lock more than thirty seconds
\* old, only the caller that made the lock file is between the reading of the
\* file and the removal of the lock, even though a caller may die holding it.
OneWriter ==
  ~banBroken =>
    \A c \in Callers : banCall[c].pc \in InUpdate => banLock = {c}

\* updateNginxBannedIPs, writeNginxBannedIPs: an update is computed from what
\* the file holds, and a refused one is undone only while the file is what the
\* update made of it: no ban that another caller recorded is lost.
NoLostBan ==
  ~banBroken =>
    \A c \in Callers :
      /\ BanAt(c, "write") /\ banCall[c].kind # "replace" => banCall[c].seen = banned
      /\ banCall[c].pc \in {"test", "restore"} => banned = WantedBans(banCall[c])
==============================================================================
