---------------------------- MODULE PanelUpgrade ----------------------------
(* The update of the panel by itself: the handler that replaces the binary  *)
(* (handlers/update.go), and what every process of the new binary, the      *)
(* panel or a command line that cron starts, does before anything else      *)
(* (main.go): the migrations, then the upgrades the database does not have  *)
(* yet (database/upgrades.go), the first of which moves the plugin          *)
(* configuration of a site and gives it a new key (upgrade_funcs.go).       *)
EXTENDS Integers, FiniteSets, Sequences

CONSTANTS
  Updaters,        \* requests to update the panel
  Starters,        \* processes: the panel, command lines
  Upgrades,        \* the number of entries of the list of upgrades
  MaxBegun,        \* bound: updates asked for and processes started
  MaxCrashes,      \* bound: steps that fail or processes that die
  MaxTicks         \* bound: seconds of the clock of CURRENT_TIMESTAMP

ASSUME UpgradeAssumption ==
  /\ Upgrades \in Nat \ {0}
  /\ MaxBegun \in Nat /\ MaxCrashes \in Nat /\ MaxTicks \in Nat

VARIABLES
  binary,          \* the file at installPath: "old", "new", "torn" or "none"
  backup,          \* the file at installPath.bak
  updater,         \* per request, where it stands
  panelDown,       \* the service found no whole binary to start
  swapClash,       \* history: a second update began while one was copying
  boot,            \* per process: its step and the upgrade it is at
  applied,         \* the upgrades whose changes the database has
  versions,        \* the rows of schema_version: <<version, second>>
  pluginKey,       \* the key of the site: in the row, in the new file (0: none)
  oldConfig,       \* the configuration in the web directory: "valid", "broken",
                   \* or gone: "moved" to its new place, "discarded"
  keyClash,        \* history: two processes moved the configuration at a time
  upCount          \* bounds: updates and starts, crashes, ticks, keys made

varsUp == <<binary, backup, updater, panelDown, swapClash, boot, applied, versions,
            pluginKey, oldConfig, keyClash, upCount>>
swapVars == <<binary, backup, updater, panelDown, swapClash>>
schemaVars == <<boot, applied, versions, pluginKey, oldConfig, keyClash>>

Off == [step |-> "off", at |-> 0, key |-> 0]

\* The version a beta release recorded; 0 stands for the baseline 1.0.0.
Beta == -1

\* An installation of the baseline version or of a beta, one from before versions
\* were recorded, or a new one, whose migrations made the newest schema.
InitUp ==
  /\ binary = "old" /\ backup = "none"
  /\ updater = [u \in Updaters |-> "idle"]
  /\ panelDown = FALSE /\ swapClash = FALSE
  /\ boot = [p \in Starters |-> Off]
  /\ \/ applied = {} /\ oldConfig \in {"valid", "broken"}
        /\ versions \in {{}, {<<0, 0>>}, {<<Beta, 0>>}}
     \/ applied = 1..Upgrades /\ oldConfig = "moved" /\ versions = {}
  /\ pluginKey = [row |-> 1, file |-> IF oldConfig = "moved" THEN 1 ELSE 0]
  /\ keyClash = FALSE
  /\ upCount = [begun |-> 0, crashes |-> 0, ticks |-> 0, keys |-> 1]

Whole(f) == f \in {"old", "new"}
Fails == upCount.crashes < MaxCrashes /\ upCount' = [upCount EXCEPT !.crashes = @ + 1]
Copying(u) == updater[u] \in {"renamed", "created"}

----------------------------------------------------------------------------
(* The replacement of the binary.                                           *)

\* The release is newer than the running process, and the download agrees with
\* the digest and the signature; a failure up to here changes nothing.
Download(u) ==
  /\ ~panelDown /\ updater[u] = "idle" /\ upCount.begun < MaxBegun
  /\ updater' = [updater EXCEPT ![u] = "verified"]
  /\ upCount' = [upCount EXCEPT !.begun = @ + 1]
  /\ UNCHANGED <<binary, backup, panelDown, swapClash, schemaVars>>

\* Mutant: the new file is written over the old one.
BackUpBinaryNot(u) ==
  /\ updater[u] = "verified"
  /\ updater' = [updater EXCEPT ![u] = "renamed"]
  /\ swapClash' = (swapClash \/ \E o \in Updaters \ {u} : Copying(o))
  /\ UNCHANGED <<binary, backup, panelDown, schemaVars, upCount>>

\* The old binary is renamed, over an older backup.
BackUpBinary(u) ==
  /\ updater[u] = "verified"
  /\ IF binary # "none" THEN backup' = binary /\ binary' = "none"
                        ELSE UNCHANGED <<binary, backup>>
  /\ updater' = [updater EXCEPT ![u] = "renamed"]
  /\ swapClash' = (swapClash \/ \E o \in Updaters \ {u} : Copying(o))
  /\ UNCHANGED <<panelDown, schemaVars, upCount>>

CreateBinary(u) ==
  /\ updater[u] = "renamed"
  /\ binary' = "torn"
  /\ updater' = [updater EXCEPT ![u] = "created"]
  /\ UNCHANGED <<backup, panelDown, swapClash, schemaVars, upCount>>

CopyBinary(u) ==
  /\ updater[u] = "created"
  /\ binary' = IF binary = "torn" THEN "new" ELSE binary
  /\ updater' = [updater EXCEPT ![u] = "idle"]
  /\ UNCHANGED <<backup, panelDown, swapClash, schemaVars, upCount>>

\* The file cannot be created, or the copy fails and is removed: the backup
\* comes back.
SwapFails(u) ==
  /\ Fails /\ Copying(u)
  /\ updater' = [updater EXCEPT ![u] = "idle"]
  /\ binary' = IF backup # "none" THEN backup
               ELSE IF updater[u] = "created" THEN "none" ELSE binary
  /\ backup' = "none"
  /\ UNCHANGED <<panelDown, swapClash, schemaVars>>

\* The panel dies or is restarted while a request copies.
SwapDies ==
  /\ Fails
  /\ \E u \in Updaters : Copying(u)
  /\ updater' = [u \in Updaters |-> "idle"]
  /\ panelDown' = ~Whole(binary)
  /\ UNCHANGED <<binary, backup, swapClash, schemaVars>>

----------------------------------------------------------------------------
(* The start of a process of the new binary.                                *)

Step(p, step) == boot' = [boot EXCEPT ![p].step = step]

Boot(p) ==
  /\ binary = "new" /\ boot[p].step = "off" /\ upCount.begun < MaxBegun
  /\ Step(p, "migrated")
  /\ upCount' = [upCount EXCEPT !.begun = @ + 1]
  /\ UNCHANGED <<swapVars, applied, versions, pluginKey, oldConfig, keyClash>>

\* newInstallCanary: the column the newest upgrade adds is there.
NewestSchema == Upgrades \in applied

\* Without a row of a version the newest column tells a new installation.
NewInstall(p) ==
  /\ boot[p].step = "migrated" /\ versions = {} /\ NewestSchema
  /\ versions' = {<<Upgrades, upCount.ticks>>}
  /\ Step(p, "serving")
  /\ UNCHANGED <<swapVars, applied, pluginKey, oldConfig, keyClash, upCount>>

\* ORDER BY updated_at DESC LIMIT 1: among the rows of the last second, which
\* one comes first is not determined.
ReadVersion(p) ==
  /\ boot[p].step = "migrated"
  /\ versions # {} \/ ~NewestSchema
  /\ \E v \in (IF versions = {} THEN {<<0, 0>>} ELSE versions) :
       /\ \A w \in versions : w[2] <= v[2]
       /\ boot' = [boot EXCEPT ![p] =
            IF v[1] = Beta THEN [Off EXCEPT !.step = "beta"]
                           ELSE [Off EXCEPT !.step = "upgrading", !.at = v[1] + 1]]
  /\ UNCHANGED <<swapVars, applied, versions, pluginKey, oldConfig, keyClash, upCount>>

\* A beta becomes the baseline: the rows are deleted, then one is written.
ClearBeta(p) ==
  /\ boot[p].step = "beta"
  /\ versions' = {}
  /\ Step(p, "cleared")
  /\ UNCHANGED <<swapVars, applied, pluginKey, oldConfig, keyClash, upCount>>

RecordBaseline(p) ==
  /\ boot[p].step = "cleared"
  /\ versions' = versions \cup {<<0, upCount.ticks>>}
  /\ boot' = [boot EXCEPT ![p] = [Off EXCEPT !.step = "upgrading", !.at = 1]]
  /\ UNCHANGED <<swapVars, applied, pluginKey, oldConfig, keyClash, upCount>>

Upgrading(p) == boot[p].step = "upgrading" /\ boot[p].at <= Upgrades

\* The statements of an entry; one that was applied before is skipped.
ApplySQL(p) ==
  /\ Upgrading(p) /\ boot[p].at # 1
  /\ applied' = applied \cup {boot[p].at}
  /\ Step(p, "applied")
  /\ UNCHANGED <<swapVars, versions, pluginKey, oldConfig, keyClash, upCount>>

\* Mutant: the version is recorded before its statements run.
RecordVersionEarly(p) ==
  /\ boot[p].step \in {"upgrading", "applied"}
  /\ boot[p].at <= Upgrades
  /\ versions' = versions \cup {<<boot[p].at, upCount.ticks>>}
  /\ boot' = [boot EXCEPT ![p].step = "upgrading",
                ![p].at = IF boot[p].step = "applied" THEN @ + 1 ELSE @]
  /\ UNCHANGED <<swapVars, applied, pluginKey, oldConfig, keyClash, upCount>>

RecordVersion(p) ==
  /\ boot[p].step = "applied"
  /\ versions' = versions \cup {<<boot[p].at, upCount.ticks>>}
  /\ boot' = [boot EXCEPT ![p] = [Off EXCEPT !.step = "upgrading", !.at = boot[p].at + 1]]
  /\ UNCHANGED <<swapVars, applied, pluginKey, oldConfig, keyClash, upCount>>

\* The first entry is migratePluginConfigs.  Without the old file nothing is
\* moved, a broken one is removed; for a valid one a new key is made.
Moving(p) == boot[p].step \in {"keyed", "filed", "rowed", "copied"}

ReadOldConfig(p) ==
  /\ Upgrading(p) /\ boot[p].at = 1
  /\ IF oldConfig = "valid"
       THEN /\ boot' = [boot EXCEPT ![p].step = "keyed", ![p].key = upCount.keys + 1]
            /\ upCount' = [upCount EXCEPT !.keys = @ + 1]
            /\ keyClash' = (keyClash \/ \E o \in Starters \ {p} : Moving(o))
            /\ UNCHANGED <<applied, oldConfig>>
       ELSE /\ Step(p, "applied") /\ applied' = applied \cup {1}
            /\ oldConfig' = IF oldConfig = "broken" THEN "discarded" ELSE oldConfig
            /\ UNCHANGED <<upCount, keyClash>>
  /\ UNCHANGED <<swapVars, versions, pluginKey>>

WriteNewConfig(p) ==
  /\ boot[p].step = "keyed"
  /\ pluginKey' = [pluginKey EXCEPT !.file = boot[p].key]
  /\ Step(p, "filed")
  /\ UNCHANGED <<swapVars, applied, versions, oldConfig, keyClash, upCount>>

UpdateKey(p) ==
  /\ boot[p].step = "filed"
  /\ pluginKey' = [pluginKey EXCEPT !.row = boot[p].key]
  /\ Step(p, "rowed")
  /\ UNCHANGED <<swapVars, applied, versions, oldConfig, keyClash, upCount>>

CopyPlugin(p) ==
  /\ boot[p].step = "rowed"
  /\ Step(p, "copied")
  /\ UNCHANGED <<swapVars, applied, versions, pluginKey, oldConfig, keyClash, upCount>>

RemoveOldConfig(p) ==
  /\ boot[p].step = "copied"
  /\ oldConfig' = "moved"
  /\ Step(p, "applied")
  /\ applied' = applied \cup {1}
  /\ UNCHANGED <<swapVars, versions, pluginKey, keyClash, upCount>>

\* Mutant: the failure of the UPDATE leaves the new file and removes the old.
MoveFailsCareless(p) ==
  /\ Fails /\ boot[p].step \in {"keyed", "filed", "rowed"}
  /\ oldConfig' = IF boot[p].step = "filed" THEN "moved" ELSE oldConfig
  /\ Step(p, "applied") /\ applied' = applied \cup {1}
  /\ UNCHANGED <<swapVars, versions, pluginKey, keyClash>>

\* A step of a site fails: what the failed UPDATE left is removed, the site
\* keeps its old file, and the upgrade counts as done.
MoveFails(p) ==
  /\ Fails /\ boot[p].step \in {"keyed", "filed", "rowed"}
  /\ pluginKey' = [pluginKey EXCEPT !.file = IF boot[p].step = "filed" THEN 0 ELSE @]
  /\ Step(p, "applied") /\ applied' = applied \cup {1}
  /\ UNCHANGED <<swapVars, versions, oldConfig, keyClash>>

\* The list is done (and another process cleared the rows of a beta in between,
\* if there is no row): the panel serves, or the command line does its work.
Serve(p) ==
  /\ boot[p].step = "upgrading" /\ boot[p].at > Upgrades
  /\ versions' = IF versions = {} THEN {<<Upgrades, upCount.ticks>>} ELSE versions
  /\ Step(p, "serving")
  /\ UNCHANGED <<swapVars, applied, pluginKey, oldConfig, keyClash, upCount>>

\* A statement fails (log.Fatalf), the process dies, or it has done its work.
Exit(p) ==
  /\ boot[p].step # "off"
  /\ IF boot[p].step = "serving" THEN UNCHANGED upCount ELSE Fails
  /\ boot' = [boot EXCEPT ![p] = Off]
  /\ UNCHANGED <<swapVars, applied, versions, pluginKey, oldConfig, keyClash>>

Tick ==
  /\ upCount.ticks < MaxTicks
  /\ upCount' = [upCount EXCEPT !.ticks = @ + 1]
  /\ UNCHANGED <<swapVars, schemaVars>>

NextUp ==
  \/ \E u \in Updaters : \/ Download(u) \/ BackUpBinary(u) \/ CreateBinary(u)
                         \/ CopyBinary(u) \/ SwapFails(u)
  \/ SwapDies \/ Tick
  \/ \E p \in Starters :
       \/ Boot(p) \/ NewInstall(p) \/ ReadVersion(p) \/ ClearBeta(p) \/ RecordBaseline(p)
       \/ ApplySQL(p) \/ RecordVersion(p) \/ ReadOldConfig(p) \/ WriteNewConfig(p) \/ UpdateKey(p)
       \/ CopyPlugin(p) \/ RemoveOldConfig(p) \/ MoveFails(p) \/ Serve(p) \/ Exit(p)

SpecUp == InitUp /\ [][NextUp]_varsUp

----------------------------------------------------------------------------
\* Each variable has its type.
UpTypeOK ==
  /\ {binary, backup} \subseteq {"old", "new", "torn", "none"}
  /\ updater \in [Updaters -> {"idle", "verified", "renamed", "created"}]
  /\ {panelDown, swapClash, keyClash} \subseteq BOOLEAN
  /\ boot \in [Starters -> [step : {"off", "migrated", "beta", "cleared", "upgrading", "keyed",
                                    "filed", "rowed", "copied", "applied", "serving"},
                            at : 0..Upgrades + 1, key : Nat]]
  /\ applied \subseteq 1..Upgrades
  /\ versions \subseteq (-1..Upgrades) \X Nat
  /\ pluginKey \in [row : Nat, file : Nat]
  /\ oldConfig \in {"valid", "broken", "moved", "discarded"}
  /\ upCount \in [begun : Nat, crashes : Nat, ticks : Nat, keys : Nat]

\* A whole binary always exists, at its place or as the backup, through every
\* failure and death, and at its place again once every update has answered
\* and none has died; unless two updates overlapped (nothing keeps them apart).
BinaryRecoverable ==
  \/ swapClash
  \/ /\ Whole(binary) \/ Whole(backup)
     /\ (\A u \in Updaters : ~Copying(u)) /\ upCount.crashes = 0 => Whole(binary)

\* A process that serves has every upgrade in its database, whichever of the
\* rows of one second it read as the current version, whoever upgraded beside
\* it and wherever an earlier start was cut off.
ServesUpgraded ==
  \A p \in Starters : boot[p].step = "serving" => 1..Upgrades \subseteq applied

\* Once the configuration of a site has moved out of the web directory, the key in
\* its new place is the key of the row, unless two processes moved it at a time.
KeysAgree == oldConfig = "moved" /\ ~keyClash => pluginKey.row = pluginKey.file
=============================================================================
