---------------------------- MODULE UpgradeProofs ----------------------------
(* Proofs about the start of the processes of a new binary, for any number  *)
(* of processes, upgrades, failures and updates: what serves has every      *)
(* upgrade, and the key of a moved plugin configuration is the key of the   *)
(* row unless two processes moved it at a time.                             *)
EXTENDS PanelUpgrade, TLAPS

Stage == {"off", "migrated", "beta", "cleared", "upgrading", "keyed", "filed",
          "rowed", "copied", "applied", "serving"}
Process == [step : Stage, at : 0..Upgrades + 1, key : Nat]
Counts == [begun : Nat, crashes : Nat, ticks : Nat, keys : Nat]

UpTypes ==
  /\ boot \in [Starters -> Process] /\ upCount \in Counts
  /\ applied \subseteq 1..Upgrades
  /\ pluginKey \in [row : Nat, file : Nat]

\* The upgrades up to n are in the database.
Has(n) == 1..n \subseteq applied

\* They were applied in their order,
InOrder == \A i \in applied : Has(i)

\* no row promises more than there is, a row of a beta nothing,
RowsHold == \A v \in versions : v[1] \in {Beta} \cup 0..Upgrades /\ Has(v[1])

\* and neither does the place at which a process is.
PlaceHolds(p) ==
  /\ boot[p].step = "upgrading" => boot[p].at \in 1..Upgrades + 1 /\ Has(boot[p].at - 1)
  /\ Moving(p) => boot[p].at = 1
  /\ boot[p].step = "applied" => boot[p].at \in 1..Upgrades /\ Has(boot[p].at)
  /\ boot[p].step = "serving" => Has(Upgrades)

SchemaInv == UpTypes /\ InOrder /\ RowsHold /\ \A p \in Starters : PlaceHolds(p)

(* One process takes a step.                                                *)

LEMMA Becomes ==
    ASSUME UpTypes, NEW p \in Starters, NEW b \in Process,
           boot' = [boot EXCEPT ![p] = b]
    PROVE  /\ boot' \in [Starters -> Process] /\ boot'[p] = b
           /\ \A o \in Starters \ {p} : boot'[o] = boot[o]
BY DEF UpTypes

LEMMA StarterStages ==
    ASSUME UpTypes, NEW p \in Starters, NEW step \in Stage, Step(p, step)
    PROVE  /\ boot' \in [Starters -> Process]
           /\ boot'[p].step = step /\ boot'[p].at = boot[p].at
           /\ boot'[p].key = boot[p].key
           /\ \A o \in Starters \ {p} : boot'[o] = boot[o]
<1>1. boot[p] \in Process  BY DEF UpTypes
<1> DEFINE b == [boot[p] EXCEPT !.step = step]
<1>2. b \in Process /\ b.step = step /\ b.at = boot[p].at /\ b.key = boot[p].key
  BY <1>1 DEF Process
<1>3. boot' = [boot EXCEPT ![p] = b]  BY DEF Step
<1> HIDE DEF b
<1>4. QED  BY <1>2, <1>3, Becomes

\* Every step counts what it counts.
LEMMA CountStep == ASSUME UpTypes, [NextUp]_varsUp PROVE upCount' \in Counts
<1>1. upCount \in Counts  BY DEF UpTypes
<1>2. /\ [upCount EXCEPT !.begun = @ + 1] \in Counts
      /\ [upCount EXCEPT !.crashes = @ + 1] \in Counts
      /\ [upCount EXCEPT !.ticks = @ + 1] \in Counts
      /\ [upCount EXCEPT !.keys = @ + 1] \in Counts
  BY <1>1 DEF Counts
<1>3. upCount' \in {upCount, [upCount EXCEPT !.begun = @ + 1],
                    [upCount EXCEPT !.crashes = @ + 1],
                    [upCount EXCEPT !.ticks = @ + 1], [upCount EXCEPT !.keys = @ + 1]}
  BY DEF NextUp, varsUp, Download, BackUpBinary, CreateBinary, CopyBinary, SwapFails,
         SwapDies, Tick, Boot, NewInstall, ReadVersion, ClearBeta, RecordBaseline,
         ApplySQL, RecordVersion, ReadOldConfig, WriteNewConfig, UpdateKey, CopyPlugin,
         RemoveOldConfig, MoveFails, Serve, Exit, Fails
<1>4. QED  BY <1>1, <1>2, <1>3

\* What a process adds to the database takes nothing from the others.
LEMMA SchemaFrame ==
    ASSUME SchemaInv, NEW p \in Starters, [NextUp]_varsUp,
           boot' \in [Starters -> Process],
           \A o \in Starters \ {p} : boot'[o] = boot[o],
           pluginKey' \in [row : Nat, file : Nat],
           applied \subseteq applied', applied' \subseteq 1..Upgrades,
           InOrder', RowsHold', PlaceHolds(p)'
    PROVE  SchemaInv'
<1>1. UpTypes'  BY CountStep DEF UpTypes, SchemaInv
<1>2. ASSUME NEW o \in Starters \ {p} PROVE PlaceHolds(o)'
  <2>1. PlaceHolds(o) /\ boot'[o] = boot[o]  BY DEF SchemaInv
  <2>2. QED  BY <2>1 DEF PlaceHolds, Moving, Has
<1>3. QED  BY <1>1, <1>2 DEF SchemaInv

\* The same when the database stays as it is.
LEMMA SchemaKept ==
    ASSUME SchemaInv, NEW p \in Starters, [NextUp]_varsUp,
           boot' \in [Starters -> Process],
           \A o \in Starters \ {p} : boot'[o] = boot[o],
           pluginKey' \in [row : Nat, file : Nat],
           applied' = applied, versions' \subseteq versions, PlaceHolds(p)'
    PROVE  SchemaInv'
<1>1. InOrder' /\ RowsHold'  BY DEF SchemaInv, InOrder, RowsHold, Has
<1>2. applied \subseteq 1..Upgrades  BY DEF SchemaInv, UpTypes
<1>3. QED  BY <1>1, <1>2, SchemaFrame

(* The steps.                                                               *)

\* A step after which the process promises nothing.
LEMMA HarmlessStep ==
    ASSUME SchemaInv, NEW p \in Starters, [NextUp]_varsUp,
           Boot(p) \/ ClearBeta(p) \/ Exit(p)
    PROVE  SchemaInv'
<1>1. UpTypes /\ pluginKey \in [row : Nat, file : Nat]  BY DEF SchemaInv, UpTypes
<1>2. /\ boot' \in [Starters -> Process] /\ \A o \in Starters \ {p} : boot'[o] = boot[o]
      /\ boot'[p].step \in {"migrated", "cleared", "off"}
  <2>1. CASE Boot(p)  BY <1>1, <2>1, StarterStages DEF Boot, Stage
  <2>2. CASE ClearBeta(p)  BY <1>1, <2>2, StarterStages DEF ClearBeta, Stage
  <2>3. CASE Exit(p)
    <3>1. Off \in Process /\ Off.step = "off"
      BY UpgradeAssumption DEF Off, Process, Stage
    <3>2. QED  BY <1>1, <2>3, <3>1, Becomes DEF Exit
  <2>4. QED  BY <2>1, <2>2, <2>3
<1>3. PlaceHolds(p)'  BY <1>2 DEF PlaceHolds, Moving
<1>4. applied' = applied /\ versions' \subseteq versions /\ pluginKey' = pluginKey
  BY DEF Boot, ClearBeta, Exit
<1>5. QED  BY <1>1, <1>2, <1>3, <1>4, SchemaKept

\* A new installation has the newest column, so by the order everything; the
\* list that is done has been applied.
LEMMA ServeStep ==
    ASSUME SchemaInv, NEW p \in Starters, [NextUp]_varsUp, NewInstall(p) \/ Serve(p)
    PROVE  SchemaInv'
<1>1. UpTypes /\ pluginKey \in [row : Nat, file : Nat]  BY DEF SchemaInv, UpTypes
<1>2. Step(p, "serving") /\ applied' = applied /\ pluginKey' = pluginKey
      /\ versions' \in {versions, {<<Upgrades, upCount.ticks>>}}
  BY DEF NewInstall, Serve
<1>3. /\ boot' \in [Starters -> Process] /\ \A o \in Starters \ {p} : boot'[o] = boot[o]
      /\ boot'[p].step = "serving"
  BY <1>1, <1>2, StarterStages DEF Stage
<1>4. Has(Upgrades)
  <2>1. CASE NewInstall(p)  BY <2>1 DEF NewInstall, NewestSchema, SchemaInv, InOrder
  <2>2. CASE Serve(p)
    <3>1. boot[p].at \in 1..Upgrades + 1 /\ Has(boot[p].at - 1) /\ boot[p].at > Upgrades
      BY <2>2 DEF Serve, SchemaInv, PlaceHolds
    <3>2. boot[p].at - 1 = Upgrades  BY <3>1, UpgradeAssumption
    <3>3. QED  BY <3>1, <3>2
  <2>3. QED  BY <2>1, <2>2
<1>5. PlaceHolds(p)'  BY <1>2, <1>3, <1>4 DEF PlaceHolds, Moving, Has
<1>6. InOrder'  BY <1>2 DEF SchemaInv, InOrder, Has
<1>7. RowsHold'
  <2>1. Upgrades \in 0..Upgrades  BY UpgradeAssumption
  <2>2. QED  BY <1>2, <1>4, <2>1 DEF SchemaInv, RowsHold, Has
<1>8. applied \subseteq 1..Upgrades  BY <1>1 DEF UpTypes
<1>9. QED  BY <1>1, <1>2, <1>3, <1>5, <1>6, <1>7, <1>8, SchemaFrame

\* The row read, whichever it is, promises no more than there is.
LEMMA ReadVersionStep ==
    ASSUME SchemaInv, NEW p \in Starters, [NextUp]_varsUp, ReadVersion(p)
    PROVE  SchemaInv'
<1>1. UpTypes /\ pluginKey \in [row : Nat, file : Nat]  BY DEF SchemaInv, UpTypes
<1>2. PICK v \in (IF versions = {} THEN {<<0, 0>>} ELSE versions) :
        boot' = [boot EXCEPT ![p] =
                   IF v[1] = Beta THEN [Off EXCEPT !.step = "beta"]
                                  ELSE [Off EXCEPT !.step = "upgrading", !.at = v[1] + 1]]
  BY DEF ReadVersion
<1>3. v[1] \in {Beta} \cup 0..Upgrades /\ Has(v[1])
  <2>1. CASE versions = {}
    <3>1. v[1] = 0  BY <2>1
    <3>2. 0 \in 0..Upgrades /\ 1..0 = {}  BY UpgradeAssumption
    <3>3. QED  BY <3>1, <3>2 DEF Has
  <2>2. CASE versions # {}  BY <2>2 DEF SchemaInv, RowsHold
  <2>3. QED  BY <2>1, <2>2
<1>4. versions' = versions /\ applied' = applied /\ pluginKey' = pluginKey
  BY DEF ReadVersion
<1>5. CASE v[1] = Beta
  <2> DEFINE b == [Off EXCEPT !.step = "beta"]
  <2>1. b \in Process /\ b.step = "beta"
    BY UpgradeAssumption DEF Off, Process, Stage
  <2>2. boot' = [boot EXCEPT ![p] = b]  BY <1>2, <1>5
  <2> HIDE DEF b
  <2>3. boot' \in [Starters -> Process] /\ boot'[p] = b
        /\ \A o \in Starters \ {p} : boot'[o] = boot[o]
    BY <1>1, <2>1, <2>2, Becomes
  <2>4. PlaceHolds(p)'  BY <2>1, <2>3 DEF PlaceHolds, Moving
  <2>5. QED  BY <1>1, <1>4, <2>3, <2>4, SchemaKept
<1>6. CASE v[1] # Beta
  <2> DEFINE n == v[1] + 1
             b == [Off EXCEPT !.step = "upgrading", !.at = n]
  <2>1. n \in 1..Upgrades + 1 /\ n \in 0..Upgrades + 1 /\ n - 1 = v[1]
    BY <1>3, <1>6, UpgradeAssumption
  <2>2. boot' = [boot EXCEPT ![p] = b]  BY <1>2, <1>6
  <2> HIDE DEF n
  <2>3. b \in Process /\ b.step = "upgrading" /\ b.at = n
    BY <2>1 DEF Off, Process, Stage
  <2> HIDE DEF b
  <2>4. boot' \in [Starters -> Process] /\ boot'[p] = b
        /\ \A o \in Starters \ {p} : boot'[o] = boot[o]
    BY <1>1, <2>2, <2>3, Becomes
  <2>5. PlaceHolds(p)'  BY <1>3, <1>4, <2>1, <2>3, <2>4 DEF PlaceHolds, Moving, Has
  <2>6. QED  BY <1>1, <1>4, <2>4, <2>5, SchemaKept
<1>7. QED  BY <1>5, <1>6

\* The baseline has no upgrade.
LEMMA RecordBaselineStep ==
    ASSUME SchemaInv, NEW p \in Starters, [NextUp]_varsUp, RecordBaseline(p)
    PROVE  SchemaInv'
<1> DEFINE b == [Off EXCEPT !.step = "upgrading", !.at = 1]
<1>1. UpTypes /\ pluginKey \in [row : Nat, file : Nat] /\ applied \subseteq 1..Upgrades
  BY DEF SchemaInv, UpTypes
<1>2. boot' = [boot EXCEPT ![p] = b] /\ versions' = versions \cup {<<0, upCount.ticks>>}
      /\ applied' = applied /\ pluginKey' = pluginKey
  BY DEF RecordBaseline
<1>3. b \in Process /\ b.step = "upgrading" /\ b.at = 1
  <2>1. 1 \in 0..Upgrades + 1 /\ 0 \in Nat  BY UpgradeAssumption
  <2>2. QED  BY <2>1 DEF Off, Process, Stage
<1> HIDE DEF b
<1>4. boot' \in [Starters -> Process] /\ boot'[p] = b
      /\ \A o \in Starters \ {p} : boot'[o] = boot[o]
  BY <1>1, <1>2, <1>3, Becomes
<1>5. 1..0 = {} /\ 0 \in 0..Upgrades /\ 1 \in 1..Upgrades + 1 /\ 1 - 1 = 0
  BY UpgradeAssumption
<1>6. PlaceHolds(p)'  BY <1>3, <1>4, <1>5 DEF PlaceHolds, Moving, Has
<1>7. InOrder' /\ RowsHold'
  BY <1>2, <1>5 DEF SchemaInv, InOrder, RowsHold, Has
<1>8. QED  BY <1>1, <1>2, <1>4, <1>6, <1>7, SchemaFrame

\* One more upgrade, after those before it.
LEMMA OneMore ==
    ASSUME SchemaInv, NEW n \in 1..Upgrades, Has(n - 1), applied' = applied \cup {n},
           versions' = versions
    PROVE  InOrder' /\ RowsHold' /\ Has(n)' /\ applied' \subseteq 1..Upgrades
<1>1. \A i \in 1..n : i = n \/ i \in 1..n - 1  BY UpgradeAssumption
<1>2. 1..n \subseteq applied'  BY <1>1 DEF Has
<1>3. \A i \in applied' : Has(i)'  BY <1>2 DEF SchemaInv, InOrder, Has
<1>4. RowsHold'  BY DEF SchemaInv, RowsHold, Has
<1>5. QED  BY <1>2, <1>3, <1>4 DEF InOrder, Has, SchemaInv, UpTypes

\* The statements of an entry, or the end of the move, well or badly.
LEMMA AppliedStep ==
    ASSUME SchemaInv, NEW p \in Starters, [NextUp]_varsUp,
           NEW n \in 1..Upgrades, n = boot[p].at, Has(n - 1),
           applied' = applied \cup {n}, versions' = versions, Step(p, "applied"),
           pluginKey' \in [row : Nat, file : Nat]
    PROVE  SchemaInv'
<1>1. UpTypes  BY DEF SchemaInv
<1>2. /\ boot' \in [Starters -> Process] /\ \A o \in Starters \ {p} : boot'[o] = boot[o]
      /\ boot'[p].step = "applied" /\ boot'[p].at = n
  BY <1>1, StarterStages DEF Stage
<1>3. InOrder' /\ RowsHold' /\ Has(n)' /\ applied' \subseteq 1..Upgrades  BY OneMore
<1>4. PlaceHolds(p)'  BY <1>2, <1>3 DEF PlaceHolds, Moving, Has
<1>5. QED  BY <1>2, <1>3, <1>4, SchemaFrame

\* The first upgrade has none before it.
LEMMA First == Has(0) /\ 1 \in 1..Upgrades /\ 1 - 1 = 0
<1>1. 1..0 = {}  OBVIOUS
<1>2. QED  BY <1>1, UpgradeAssumption DEF Has

LEMMA ApplySQLStep ==
    ASSUME SchemaInv, NEW p \in Starters, [NextUp]_varsUp, ApplySQL(p)
    PROVE  SchemaInv'
<1>1. boot[p].step = "upgrading" /\ boot[p].at <= Upgrades
  BY DEF ApplySQL, Upgrading
<1>2. boot[p].at \in 1..Upgrades /\ Has(boot[p].at - 1)
  BY <1>1, UpgradeAssumption DEF SchemaInv, PlaceHolds
<1>3. pluginKey' \in [row : Nat, file : Nat]  BY DEF ApplySQL, SchemaInv, UpTypes
<1>4. QED  BY <1>2, <1>3, AppliedStep DEF ApplySQL

LEMMA RecordVersionStep ==
    ASSUME SchemaInv, NEW p \in Starters, [NextUp]_varsUp, RecordVersion(p)
    PROVE  SchemaInv'
<1> DEFINE n == boot[p].at
           b == [Off EXCEPT !.step = "upgrading", !.at = n + 1]
<1>1. UpTypes /\ pluginKey \in [row : Nat, file : Nat] /\ applied \subseteq 1..Upgrades
  BY DEF SchemaInv, UpTypes
<1>2. boot' = [boot EXCEPT ![p] = b] /\ versions' = versions \cup {<<n, upCount.ticks>>}
      /\ applied' = applied /\ pluginKey' = pluginKey
  BY DEF RecordVersion
<1>3. n \in 1..Upgrades /\ Has(n)  BY DEF RecordVersion, SchemaInv, PlaceHolds
<1> HIDE DEF n
<1>4. n \in 0..Upgrades /\ n + 1 \in 1..Upgrades + 1 /\ n + 1 \in 0..Upgrades + 1
      /\ (n + 1) - 1 = n
  BY <1>3, UpgradeAssumption
<1>5. b \in Process /\ b.step = "upgrading" /\ b.at = n + 1
  BY <1>4 DEF Off, Process, Stage
<1> HIDE DEF b
<1>6. boot' \in [Starters -> Process] /\ boot'[p] = b
      /\ \A o \in Starters \ {p} : boot'[o] = boot[o]
  BY <1>1, <1>2, <1>5, Becomes
<1>7. PlaceHolds(p)'  BY <1>2, <1>3, <1>4, <1>5, <1>6 DEF PlaceHolds, Moving, Has
<1>8. InOrder' /\ RowsHold'
  BY <1>2, <1>3, <1>4 DEF SchemaInv, InOrder, RowsHold, Has
<1>9. QED  BY <1>1, <1>2, <1>6, <1>7, <1>8, SchemaFrame

\* Without an old configuration the first upgrade has nothing to move.
LEMMA ReadOldConfigStep ==
    ASSUME SchemaInv, NEW p \in Starters, [NextUp]_varsUp, ReadOldConfig(p)
    PROVE  SchemaInv'
<1>1. UpTypes /\ boot[p] \in Process /\ upCount.keys + 1 \in Nat
      /\ pluginKey \in [row : Nat, file : Nat] /\ pluginKey' = pluginKey
  BY DEF SchemaInv, UpTypes, Counts, ReadOldConfig
<1>2. boot[p].at = 1 /\ versions' = versions  BY DEF ReadOldConfig
<1>3. CASE oldConfig = "valid"
  <2> DEFINE b == [boot[p] EXCEPT !.step = "keyed", !.key = upCount.keys + 1]
  <2>1. boot' = [boot EXCEPT ![p] = b] /\ applied' = applied
    BY <1>3 DEF ReadOldConfig
  <2>2. b \in Process /\ b.step = "keyed" /\ b.at = 1
    BY <1>1, <1>2 DEF Process, Stage
  <2> HIDE DEF b
  <2>3. boot' \in [Starters -> Process] /\ boot'[p] = b
        /\ \A o \in Starters \ {p} : boot'[o] = boot[o]
    BY <1>1, <2>1, <2>2, Becomes
  <2>4. PlaceHolds(p)'  BY <2>2, <2>3 DEF PlaceHolds, Moving
  <2>5. QED  BY <1>1, <1>2, <2>1, <2>3, <2>4, SchemaKept
<1>4. CASE oldConfig # "valid"
  <2>1. Step(p, "applied") /\ applied' = applied \cup {1}
    BY <1>4 DEF ReadOldConfig
  <2>2. QED  BY <1>1, <1>2, <2>1, First, AppliedStep
<1>5. QED  BY <1>3, <1>4

\* The steps of the move before its last.
LEMMA MoveStep ==
    ASSUME SchemaInv, NEW p \in Starters, [NextUp]_varsUp,
           WriteNewConfig(p) \/ UpdateKey(p) \/ CopyPlugin(p)
    PROVE  SchemaInv'
<1>1. UpTypes /\ boot[p].key \in Nat /\ pluginKey \in [row : Nat, file : Nat]
  BY DEF SchemaInv, UpTypes, Process
<1>2. PICK step \in {"filed", "rowed", "copied"} : Step(p, step)
  BY DEF WriteNewConfig, UpdateKey, CopyPlugin
<1>3. /\ boot' \in [Starters -> Process] /\ \A o \in Starters \ {p} : boot'[o] = boot[o]
      /\ boot'[p].step = step /\ boot'[p].at = boot[p].at
  BY <1>1, <1>2, StarterStages DEF Stage
<1>4. Moving(p)  BY DEF WriteNewConfig, UpdateKey, CopyPlugin, Moving
<1>5. boot[p].at = 1  BY <1>4 DEF SchemaInv, PlaceHolds
<1>6. PlaceHolds(p)'  BY <1>2, <1>3, <1>5 DEF PlaceHolds, Moving
<1>7. versions' = versions /\ applied' = applied
  BY DEF WriteNewConfig, UpdateKey, CopyPlugin
<1>8. pluginKey' \in [row : Nat, file : Nat]
  BY <1>1 DEF WriteNewConfig, UpdateKey, CopyPlugin
<1>9. QED  BY <1>3, <1>6, <1>7, <1>8, SchemaKept

\* Its last step, or a failure, after which the upgrade counts as done.
LEMMA MovedStep ==
    ASSUME SchemaInv, NEW p \in Starters, [NextUp]_varsUp,
           RemoveOldConfig(p) \/ MoveFails(p)
    PROVE  SchemaInv'
<1>1. Moving(p)  BY DEF RemoveOldConfig, MoveFails, Moving
<1>2. boot[p].at = 1  BY <1>1 DEF SchemaInv, PlaceHolds
<1>3. Step(p, "applied") /\ applied' = applied \cup {1} /\ versions' = versions
  BY DEF RemoveOldConfig, MoveFails
<1>4. pluginKey \in [row : Nat, file : Nat]  BY DEF SchemaInv, UpTypes
<1>5. pluginKey' \in [row : Nat, file : Nat]
  <2>1. CASE RemoveOldConfig(p)  BY <1>4, <2>1 DEF RemoveOldConfig
  <2>2. CASE MoveFails(p)
    <3>1. pluginKey' = [pluginKey EXCEPT !.file = 0] \/ pluginKey' = pluginKey
      BY <1>4, <2>2 DEF MoveFails
    <3>2. QED  BY <1>4, <3>1
  <2>3. QED  BY <2>1, <2>2
<1>6. QED  BY <1>2, <1>3, <1>5, First, AppliedStep

\* The replacement of the binary and the clock leave the schema alone.
LEMMA SwapStep ==
    ASSUME SchemaInv, [NextUp]_varsUp, UNCHANGED <<boot, applied, versions, pluginKey>>
    PROVE  SchemaInv'
BY CountStep DEF SchemaInv, UpTypes, InOrder, RowsHold, PlaceHolds, Moving, Has

LEMMA SchemaStep == ASSUME SchemaInv, [NextUp]_varsUp PROVE SchemaInv'
<1>1. CASE UNCHANGED varsUp  BY <1>1, SwapStep DEF varsUp
<1>2. CASE SwapDies \/ Tick  BY <1>2, SwapStep DEF SwapDies, Tick, schemaVars
<1>3. ASSUME NEW u \in Updaters,
             Download(u) \/ BackUpBinary(u) \/ CreateBinary(u) \/ CopyBinary(u) \/ SwapFails(u)
      PROVE  SchemaInv'
  BY <1>3, SwapStep
  DEF Download, BackUpBinary, CreateBinary, CopyBinary, SwapFails, schemaVars
<1>4. QED
  BY <1>1, <1>2, <1>3, HarmlessStep, ServeStep, ReadVersionStep, RecordBaselineStep,
     ApplySQLStep, RecordVersionStep, ReadOldConfigStep, MoveStep, MovedStep
  DEF NextUp

LEMMA SchemaInit == InitUp => SchemaInv
<1> SUFFICES ASSUME InitUp PROVE SchemaInv  OBVIOUS
<1>1. Off \in Process /\ Off.step = "off"  BY UpgradeAssumption DEF Off, Process, Stage
<1>2. boot = [p \in Starters |-> Off]  BY DEF InitUp
<1>3. applied \in {{}, 1..Upgrades}  BY DEF InitUp
<1>4. UpTypes
  <2>1. upCount \in Counts  BY DEF InitUp, Counts
  <2>2. pluginKey \in [row : Nat, file : Nat]  BY DEF InitUp
  <2>3. QED  BY <1>1, <1>2, <1>3, <2>1, <2>2 DEF UpTypes
<1>5. InOrder  BY <1>3, UpgradeAssumption DEF InOrder, Has
<1>6. RowsHold
  <2>1. versions \in {{}, {<<0, 0>>}, {<<Beta, 0>>}}  BY DEF InitUp
  <2>2. 1..0 = {} /\ 1..-1 = {} /\ 0 \in 0..Upgrades  BY UpgradeAssumption
  <2>3. \A v \in versions : v[1] \in {Beta, 0}  BY <2>1
  <2>4. QED  BY <2>2, <2>3 DEF RowsHold, Has, Beta
<1>7. \A p \in Starters : PlaceHolds(p)  BY <1>1, <1>2 DEF PlaceHolds, Moving
<1>8. QED  BY <1>4, <1>5, <1>6, <1>7 DEF SchemaInv

LEMMA SchemaInvariant == SpecUp => []SchemaInv
<1>1. SchemaInv /\ [NextUp]_varsUp => SchemaInv'  BY SchemaStep
<1>2. QED  BY <1>1, SchemaInit, PTL DEF SpecUp

\* RunUpgrades, before a process does anything else: a process that serves has
\* every upgrade in its database, whichever row it read, whoever upgraded beside
\* it and wherever an earlier start was cut off.
THEOREM ServesSchema == SpecUp => []ServesUpgraded
<1>1. SchemaInv => ServesUpgraded  BY DEF SchemaInv, PlaceHolds, ServesUpgraded, Has
<1>2. QED  BY <1>1, SchemaInvariant, PTL

(* The key of the plugin.                                                   *)

\* One process at a time moves a configuration that is there; from the writing
\* of the row on, the new file has the key of the row.
KeyInv ==
  ~keyClash =>
    /\ \A p, o \in Starters : Moving(p) /\ Moving(o) => p = o
    /\ \A p \in Starters : Moving(p) => oldConfig = "valid"
    /\ \A p \in Starters : boot[p].step = "filed" => pluginKey.file = boot[p].key
    /\ \A p \in Starters : boot[p].step \in {"rowed", "copied"} =>
                             pluginKey.file = pluginKey.row
    /\ oldConfig = "moved" => pluginKey.row = pluginKey.file

\* A step after which its process moves nothing.
LEMMA KeyFrame ==
    ASSUME KeyInv, NEW p \in Starters, ~Moving(p)',
           \A o \in Starters \ {p} : boot'[o] = boot[o],
           UNCHANGED <<pluginKey, keyClash>>,
           oldConfig' = oldConfig \/ (oldConfig = "broken" /\ oldConfig' = "discarded")
    PROVE  KeyInv'
BY DEF KeyInv, Moving

\* A step of the process that moves the configuration: it is the only one.
LEMMA MoverAlone ==
    ASSUME KeyInv, ~keyClash, NEW p \in Starters, Moving(p)
    PROVE  \A o \in Starters \ {p} : ~Moving(o)
BY DEF KeyInv

\* A second process that begins while one is moving is what keyClash counts.
LEMMA BeginStep ==
    ASSUME UpTypes, KeyInv, NEW p \in Starters, ReadOldConfig(p)
    PROVE  KeyInv'
<1>1. boot[p] \in Process /\ upCount.keys + 1 \in Nat /\ ~Moving(p)
  BY DEF UpTypes, Counts, ReadOldConfig, Upgrading, Moving
<1>2. CASE oldConfig = "valid"
  <2> DEFINE b == [boot[p] EXCEPT !.step = "keyed", !.key = upCount.keys + 1]
  <2>1. /\ boot' = [boot EXCEPT ![p] = b] /\ UNCHANGED <<oldConfig, pluginKey>>
        /\ keyClash' = (keyClash \/ \E o \in Starters \ {p} : Moving(o))
    BY <1>2 DEF ReadOldConfig
  <2>2. b \in Process /\ b.step = "keyed"  BY <1>1 DEF Process, Stage
  <2> HIDE DEF b
  <2>3. boot'[p].step = "keyed" /\ \A o \in Starters \ {p} : boot'[o] = boot[o]
    BY <2>1, <2>2, Becomes
  <2>4. ~keyClash' => ~keyClash /\ \A o \in Starters \ {p} : ~Moving(o)'
    BY <2>1, <2>3 DEF Moving
  <2>5. QED  BY <1>2, <2>1, <2>3, <2>4 DEF KeyInv, Moving
<1>3. CASE oldConfig # "valid"
  <2>1. /\ Step(p, "applied") /\ UNCHANGED <<pluginKey, keyClash>>
        /\ oldConfig' = IF oldConfig = "broken" THEN "discarded" ELSE oldConfig
    BY <1>3 DEF ReadOldConfig
  <2>2. boot'[p].step = "applied" /\ \A o \in Starters \ {p} : boot'[o] = boot[o]
    BY <2>1, StarterStages DEF Stage
  <2>3. QED  BY <2>1, <2>2, KeyFrame DEF Moving
<1>4. QED  BY <1>2, <1>3

LEMMA GoOnStep ==
    ASSUME UpTypes, KeyInv, NEW p \in Starters,
           WriteNewConfig(p) \/ UpdateKey(p) \/ CopyPlugin(p)
    PROVE  KeyInv'
<1>1. pluginKey \in [row : Nat, file : Nat] /\ Moving(p)
      /\ UNCHANGED <<keyClash, oldConfig>>
  BY DEF UpTypes, Moving, WriteNewConfig, UpdateKey, CopyPlugin
<1>2. CASE WriteNewConfig(p)
  <2>1. /\ boot'[p].step = "filed" /\ boot'[p].key = boot[p].key
        /\ \A o \in Starters \ {p} : boot'[o] = boot[o]
    BY <1>2, StarterStages DEF WriteNewConfig, Stage
  <2>2. pluginKey'.file = boot[p].key  BY <1>1, <1>2 DEF WriteNewConfig
  <2>3. QED  BY <1>1, <2>1, <2>2, MoverAlone DEF KeyInv, Moving
<1>3. CASE UpdateKey(p)
  <2>1. /\ boot'[p].step = "rowed" /\ boot[p].step = "filed"
        /\ \A o \in Starters \ {p} : boot'[o] = boot[o]
    BY <1>3, StarterStages DEF UpdateKey, Stage
  <2>2. pluginKey'.row = boot[p].key /\ pluginKey'.file = pluginKey.file
    BY <1>1, <1>3 DEF UpdateKey
  <2>3. ~keyClash => pluginKey.file = boot[p].key  BY <2>1 DEF KeyInv
  <2>4. QED  BY <1>1, <2>1, <2>2, <2>3, MoverAlone DEF KeyInv, Moving
<1>4. CASE CopyPlugin(p)
  <2>1. /\ boot'[p].step = "copied" /\ boot[p].step = "rowed" /\ pluginKey' = pluginKey
        /\ \A o \in Starters \ {p} : boot'[o] = boot[o]
    BY <1>4, StarterStages DEF CopyPlugin, Stage
  <2>2. QED  BY <1>1, <2>1, MoverAlone DEF KeyInv, Moving
<1>5. QED  BY <1>2, <1>3, <1>4

\* The old file is removed when the key of the row is in the new one.
LEMMA EndMoveStep ==
    ASSUME UpTypes, KeyInv, NEW p \in Starters, RemoveOldConfig(p) \/ MoveFails(p)
    PROVE  KeyInv'
<1>1. Moving(p) /\ keyClash' = keyClash  BY DEF Moving, RemoveOldConfig, MoveFails
<1>2. /\ boot'[p].step = "applied" /\ \A o \in Starters \ {p} : boot'[o] = boot[o]
  BY StarterStages DEF RemoveOldConfig, MoveFails, Stage
<1>3. CASE RemoveOldConfig(p)
  <2>1. boot[p].step = "copied" /\ pluginKey' = pluginKey  BY <1>3 DEF RemoveOldConfig
  <2>2. QED  BY <1>1, <1>2, <2>1, MoverAlone DEF KeyInv, Moving
<1>4. CASE MoveFails(p)
  <2>1. oldConfig' = oldConfig  BY <1>4 DEF MoveFails
  <2>2. ~keyClash => oldConfig = "valid"  BY <1>1 DEF KeyInv
  <2>3. QED  BY <1>1, <1>2, <2>1, <2>2, MoverAlone DEF KeyInv, Moving
<1>5. QED  BY <1>3, <1>4

\* What a process is at the beginning of the list, or ended, or on a beta.
UpgradingAt(n) == [Off EXCEPT !.step = "upgrading", !.at = n]
OnBeta == [Off EXCEPT !.step = "beta"]

LEMMA RestartsList ==
    ASSUME UpTypes, NEW p \in Starters,
           ReadVersion(p) \/ RecordBaseline(p) \/ RecordVersion(p) \/ Exit(p)
    PROVE  ~Moving(p)' /\ \A o \in Starters \ {p} : boot'[o] = boot[o]
<1>1. /\ Off.step = "off" /\ OnBeta.step = "beta"
      /\ \A n : UpgradingAt(n).step = "upgrading"
  BY DEF Off, OnBeta, UpgradingAt
<1>2. CASE ReadVersion(p)
  <2>1. PICK v : boot' = [boot EXCEPT ![p] =
                            IF v[1] = Beta THEN OnBeta ELSE UpgradingAt(v[1] + 1)]
    BY <1>2 DEF ReadVersion, OnBeta, UpgradingAt
  <2>2. QED  BY <1>1, <2>1 DEF UpTypes, Moving
<1>3. CASE RecordBaseline(p)
  <2>1. boot' = [boot EXCEPT ![p] = UpgradingAt(1)]
    BY <1>3 DEF RecordBaseline, UpgradingAt
  <2>2. QED  BY <1>1, <2>1 DEF UpTypes, Moving
<1>4. CASE RecordVersion(p)
  <2>1. boot' = [boot EXCEPT ![p] = UpgradingAt(boot[p].at + 1)]
    BY <1>4 DEF RecordVersion, UpgradingAt
  <2>2. QED  BY <1>1, <2>1 DEF UpTypes, Moving
<1>5. CASE Exit(p)
  <2>1. boot' = [boot EXCEPT ![p] = Off]  BY <1>5 DEF Exit
  <2>2. QED  BY <1>1, <2>1 DEF UpTypes, Moving
<1>6. QED  BY <1>2, <1>3, <1>4, <1>5

LEMMA KeyStep == ASSUME UpTypes, KeyInv, [NextUp]_varsUp PROVE KeyInv'
<1>1. ASSUME UNCHANGED <<boot, pluginKey, oldConfig, keyClash>> PROVE KeyInv'
  BY <1>1 DEF KeyInv, Moving
<1>2. CASE UNCHANGED varsUp  BY <1>1, <1>2 DEF varsUp
<1>3. CASE SwapDies \/ Tick  BY <1>1, <1>3 DEF SwapDies, Tick, schemaVars
<1>4. ASSUME NEW u \in Updaters,
             Download(u) \/ BackUpBinary(u) \/ CreateBinary(u) \/ CopyBinary(u) \/ SwapFails(u)
      PROVE  KeyInv'
  BY <1>1, <1>4
  DEF Download, BackUpBinary, CreateBinary, CopyBinary, SwapFails, schemaVars
<1>5. ASSUME NEW p \in Starters,
             Boot(p) \/ NewInstall(p) \/ ClearBeta(p) \/ ApplySQL(p) \/ Serve(p)
      PROVE  KeyInv'
  <2>1. PICK step \in {"migrated", "serving", "cleared", "applied"} : Step(p, step)
    BY <1>5 DEF Boot, NewInstall, ClearBeta, ApplySQL, Serve
  <2>2. boot'[p].step = step /\ \A o \in Starters \ {p} : boot'[o] = boot[o]
    BY <2>1, StarterStages DEF Stage
  <2>3. UNCHANGED <<pluginKey, oldConfig, keyClash>>
    BY <1>5 DEF Boot, NewInstall, ClearBeta, ApplySQL, Serve
  <2>4. QED  BY <2>2, <2>3, KeyFrame DEF Moving
<1>6. ASSUME NEW p \in Starters,
             ReadVersion(p) \/ RecordBaseline(p) \/ RecordVersion(p) \/ Exit(p)
      PROVE  KeyInv'
  <2>1. UNCHANGED <<pluginKey, oldConfig, keyClash>>
    BY <1>6 DEF ReadVersion, RecordBaseline, RecordVersion, Exit
  <2>2. QED  BY <1>6, <2>1, RestartsList, KeyFrame
<1>7. QED
  BY <1>2, <1>3, <1>4, <1>5, <1>6, BeginStep, GoOnStep, EndMoveStep DEF NextUp

\* migratePluginConfigs: once the configuration of a site has moved out of the web
\* directory, the key in its new place is the key of the row, whatever step a
\* failure or a death cuts off, unless two processes moved it at a time.
THEOREM KeysMoveTogether == SpecUp => []KeysAgree
<1>1. InitUp => KeyInv
  <2> SUFFICES ASSUME InitUp PROVE KeyInv  OBVIOUS
  <2>1. \A p \in Starters : boot[p].step = "off"  BY DEF InitUp, Off
  <2>2. oldConfig = "moved" => pluginKey.row = pluginKey.file  BY DEF InitUp
  <2>3. QED  BY <2>1, <2>2 DEF KeyInv, Moving
<1>2. SchemaInv /\ KeyInv /\ [NextUp]_varsUp => KeyInv'
  BY KeyStep DEF SchemaInv
<1>3. KeyInv => KeysAgree  BY DEF KeyInv, KeysAgree
<1>4. QED  BY <1>1, <1>2, <1>3, SchemaInvariant, PTL DEF SpecUp

(* The binary.                                                              *)

\* Without two updates at a time: while one copies, the backup is whole and the
\* file is the one it made; when none does, the binary is whole, or the panel
\* died while one did and cannot start.
SwapInv ==
  /\ updater \in [Updaters -> {"idle", "verified", "renamed", "created"}]
  /\ ~swapClash =>
       /\ \A u, o \in Updaters : Copying(u) /\ Copying(o) => u = o
       /\ \A u \in Updaters :
            /\ Copying(u) => Whole(backup)
            /\ updater[u] = "renamed" => binary = "none"
            /\ updater[u] = "created" => binary = "torn"
       /\ panelDown => /\ \A u \in Updaters : updater[u] = "idle"
                       /\ Whole(backup) /\ upCount.crashes > 0
       /\ ~panelDown /\ (\A u \in Updaters : ~Copying(u)) => Whole(binary)

\* The processes that start and the clock leave the binary alone.
LEMMA SwapFrame ==
    ASSUME UpTypes, SwapInv, UNCHANGED swapVars, UpTypes',
           upCount'.crashes >= upCount.crashes
    PROVE  SwapInv'
<1>1. upCount.crashes \in Nat /\ upCount'.crashes \in Nat  BY DEF UpTypes, Counts
<1>2. upCount.crashes > 0 => upCount'.crashes > 0  BY <1>1
<1>3. QED  BY <1>2 DEF SwapInv, swapVars, Copying, Whole

LEMMA CrashesGrow ==
    ASSUME UpTypes
    PROVE  /\ Fails => upCount'.crashes > 0 /\ upCount'.crashes >= upCount.crashes
           /\ \A n \in Nat :
                /\ upCount' = [upCount EXCEPT !.begun = n] => upCount'.crashes = upCount.crashes
                /\ upCount' = [upCount EXCEPT !.ticks = n] => upCount'.crashes = upCount.crashes
                /\ upCount' = [upCount EXCEPT !.keys = n] => upCount'.crashes = upCount.crashes
BY DEF UpTypes, Counts, Fails

LEMMA StarterStep ==
    ASSUME UpTypes, SwapInv, UpTypes', NEW p \in Starters,
           \/ Boot(p) \/ NewInstall(p) \/ ReadVersion(p) \/ ClearBeta(p) \/ RecordBaseline(p)
           \/ ApplySQL(p) \/ RecordVersion(p) \/ ReadOldConfig(p) \/ WriteNewConfig(p)
           \/ UpdateKey(p) \/ CopyPlugin(p) \/ RemoveOldConfig(p) \/ MoveFails(p)
           \/ Serve(p) \/ Exit(p)
    PROVE  SwapInv'
<1>1. upCount.crashes \in Nat /\ upCount.begun + 1 \in Nat /\ upCount.keys + 1 \in Nat
  BY DEF UpTypes, Counts
<1>2. UNCHANGED swapVars
  BY DEF Boot, NewInstall, ReadVersion, ClearBeta, RecordBaseline, ApplySQL, RecordVersion,
         ReadOldConfig, WriteNewConfig, UpdateKey, CopyPlugin, RemoveOldConfig, MoveFails,
         Serve, Exit
<1>3. \/ upCount' = upCount \/ Fails
      \/ upCount' = [upCount EXCEPT !.begun = upCount.begun + 1]
      \/ upCount' = [upCount EXCEPT !.keys = upCount.keys + 1]
  BY DEF Boot, NewInstall, ReadVersion, ClearBeta, RecordBaseline, ApplySQL, RecordVersion,
         ReadOldConfig, WriteNewConfig, UpdateKey, CopyPlugin, RemoveOldConfig, MoveFails,
         Serve, Exit
<1>4. upCount'.crashes >= upCount.crashes  BY <1>1, <1>3, CrashesGrow
<1>5. QED  BY <1>2, <1>4, SwapFrame

LEMMA TickStep == ASSUME UpTypes, SwapInv, UpTypes', Tick PROVE SwapInv'
<1>1. UNCHANGED swapVars /\ upCount' = [upCount EXCEPT !.ticks = upCount.ticks + 1]
  BY DEF Tick
<1>2. upCount.crashes \in Nat /\ upCount.ticks + 1 \in Nat  BY DEF UpTypes, Counts
<1>3. upCount'.crashes >= upCount.crashes  BY <1>1, <1>2, CrashesGrow
<1>4. QED  BY <1>1, <1>3, SwapFrame

LEMMA DownloadStep ==
    ASSUME UpTypes, SwapInv, NEW u \in Updaters, Download(u) PROVE SwapInv'
<1>1. /\ ~panelDown /\ updater[u] = "idle" /\ updater' = [updater EXCEPT ![u] = "verified"]
      /\ UNCHANGED <<binary, backup, panelDown, swapClash>>
  BY DEF Download
<1>2. updater \in [Updaters -> {"idle", "verified", "renamed", "created"}]  BY DEF SwapInv
<1>3. updater' \in [Updaters -> {"idle", "verified", "renamed", "created"}]
      /\ \A o \in Updaters : updater'[o] = IF o = u THEN "verified" ELSE updater[o]
  BY <1>1, <1>2
<1>4. \A o \in Updaters : Copying(o)' = Copying(o)  BY <1>1, <1>3 DEF Copying
<1>5. QED  BY <1>1, <1>3, <1>4 DEF SwapInv, Whole

\* The binary that goes to the backup is whole when no other update copies.
LEMMA BackUpStep ==
    ASSUME UpTypes, SwapInv, NEW u \in Updaters, BackUpBinary(u) PROVE SwapInv'
<1>1. /\ updater[u] = "verified" /\ updater' = [updater EXCEPT ![u] = "renamed"]
      /\ binary # "none" => backup' = binary /\ binary' = "none"
      /\ swapClash' = (swapClash \/ \E o \in Updaters \ {u} : Copying(o))
      /\ UNCHANGED <<panelDown, upCount>>
  BY DEF BackUpBinary
<1>2. updater \in [Updaters -> {"idle", "verified", "renamed", "created"}]  BY DEF SwapInv
<1>3. updater' \in [Updaters -> {"idle", "verified", "renamed", "created"}]
      /\ \A o \in Updaters : updater'[o] = IF o = u THEN "renamed" ELSE updater[o]
  BY <1>1, <1>2
<1>4. ASSUME ~swapClash'
      PROVE  /\ backup' = binary /\ Whole(binary) /\ binary' = "none" /\ ~panelDown
             /\ \A o \in Updaters \ {u} : ~Copying(o)
  <2>1. ~swapClash /\ \A o \in Updaters : ~Copying(o)  BY <1>1, <1>4 DEF Copying
  <2>2. ~panelDown  BY <1>1, <2>1 DEF SwapInv
  <2>3. Whole(binary)  BY <2>1, <2>2 DEF SwapInv
  <2>4. QED  BY <1>1, <2>1, <2>2, <2>3 DEF Whole
<1>5. QED  BY <1>1, <1>3, <1>4 DEF SwapInv, Copying, Whole

LEMMA CopyStep ==
    ASSUME UpTypes, SwapInv, NEW u \in Updaters, CreateBinary(u) \/ CopyBinary(u)
    PROVE  SwapInv'
<1>1. /\ Copying(u) /\ UNCHANGED <<backup, panelDown, swapClash, upCount>>
      /\ \/ updater' = [updater EXCEPT ![u] = "created"] /\ binary' = "torn"
         \/ updater' = [updater EXCEPT ![u] = "idle"] /\ updater[u] = "created"
            /\ (binary = "torn" => binary' = "new")
  BY DEF CreateBinary, CopyBinary, Copying
<1>2. updater \in [Updaters -> {"idle", "verified", "renamed", "created"}]  BY DEF SwapInv
<1>3. updater' \in [Updaters -> {"idle", "verified", "renamed", "created"}]
      /\ \A o \in Updaters \ {u} : updater'[o] = updater[o]
  BY <1>1, <1>2
<1>4. \/ updater'[u] = "created" /\ binary' = "torn"
      \/ updater'[u] = "idle" /\ updater[u] = "created" /\ (binary = "torn" => binary' = "new")
  BY <1>1, <1>2
<1>5. ~swapClash => ~panelDown /\ Whole(backup) /\ \A o \in Updaters \ {u} : ~Copying(o)
  BY <1>1 DEF SwapInv, Copying
<1>6. QED  BY <1>1, <1>3, <1>4, <1>5 DEF SwapInv, Copying, Whole

\* The backup comes back.
LEMMA SwapFailsStep ==
    ASSUME UpTypes, SwapInv, NEW u \in Updaters, SwapFails(u) PROVE SwapInv'
<1>1. /\ Copying(u) /\ updater' = [updater EXCEPT ![u] = "idle"]
      /\ backup # "none" => binary' = backup
      /\ UNCHANGED <<panelDown, swapClash>>
  BY DEF SwapFails
<1>2. updater \in [Updaters -> {"idle", "verified", "renamed", "created"}]  BY DEF SwapInv
<1>3. updater' \in [Updaters -> {"idle", "verified", "renamed", "created"}]
      /\ \A o \in Updaters : updater'[o] = IF o = u THEN "idle" ELSE updater[o]
  BY <1>1, <1>2
<1>4. ~swapClash => ~panelDown /\ Whole(backup) /\ \A o \in Updaters \ {u} : ~Copying(o)
  BY <1>1 DEF SwapInv, Copying
<1>5. QED  BY <1>1, <1>3, <1>4 DEF SwapInv, Copying, Whole

\* A death while one update copies: the panel starts again from a whole binary,
\* or stays down with a whole backup.
LEMMA SwapDiesStep == ASSUME UpTypes, SwapInv, SwapDies PROVE SwapInv'
<1>1. /\ (\E u \in Updaters : Copying(u)) /\ updater' = [u \in Updaters |-> "idle"]
      /\ panelDown' = ~Whole(binary) /\ UNCHANGED <<binary, backup, swapClash>>
      /\ upCount'.crashes > 0
  BY CrashesGrow DEF SwapDies
<1>2. ~swapClash => Whole(backup)  BY <1>1 DEF SwapInv
<1>3. QED  BY <1>1, <1>2 DEF SwapInv, Copying, Whole

LEMMA SwapInvStep == ASSUME SchemaInv, SwapInv, [NextUp]_varsUp PROVE SwapInv'
<1>1. UpTypes /\ UpTypes'  BY SchemaStep DEF SchemaInv
<1>2. CASE UNCHANGED varsUp
  BY <1>2 DEF varsUp, SwapInv, Copying, Whole
<1>3. QED
  BY <1>1, <1>2, StarterStep, TickStep, DownloadStep, BackUpStep, CopyStep,
     SwapFailsStep, SwapDiesStep
  DEF NextUp

\* replaceBinary: through every failure and death a whole binary exists, at its
\* place or as the backup, unless two updates were copied at a time.
THEOREM BinarySurvives == SpecUp => []BinaryRecoverable
<1>1. InitUp => SwapInv  BY DEF InitUp, SwapInv, Copying, Whole
<1>2. SchemaInv /\ SwapInv /\ [NextUp]_varsUp => SwapInv'  BY SwapInvStep
<1>3. SwapInv => BinaryRecoverable
  <2> SUFFICES ASSUME SwapInv, ~swapClash PROVE BinaryRecoverable
    BY DEF BinaryRecoverable
  <2>1. CASE \E u \in Updaters : Copying(u)
    <3>1. Whole(backup)  BY <2>1 DEF SwapInv
    <3>2. QED  BY <2>1, <3>1 DEF BinaryRecoverable
  <2>2. CASE panelDown
    <3>1. Whole(backup) /\ upCount.crashes # 0  BY <2>2 DEF SwapInv
    <3>2. QED  BY <3>1 DEF BinaryRecoverable
  <2>3. CASE ~panelDown /\ \A u \in Updaters : ~Copying(u)
    <3>1. Whole(binary)  BY <2>3 DEF SwapInv
    <3>2. QED  BY <3>1 DEF BinaryRecoverable
  <2>4. QED  BY <2>1, <2>2, <2>3
<1>4. QED  BY <1>1, <1>2, <1>3, SchemaInvariant, PTL DEF SpecUp

(* The types of the variables the two invariants say nothing of.            *)

UpRest ==
  /\ {binary, backup} \subseteq {"old", "new", "torn", "none"}
  /\ {panelDown, swapClash, keyClash} \subseteq BOOLEAN
  /\ versions \subseteq (-1..Upgrades) \X Nat
  /\ oldConfig \in {"valid", "broken", "moved", "discarded"}

LEMMA VersionsTyped ==
    ASSUME SchemaInv, UpRest, [NextUp]_varsUp PROVE versions' \subseteq (-1..Upgrades) \X Nat
<1>1. upCount.ticks \in Nat /\ Upgrades \in -1..Upgrades /\ 0 \in -1..Upgrades
  BY UpgradeAssumption DEF SchemaInv, UpTypes, Counts
<1>2. \/ versions' \in {versions, {}, {<<Upgrades, upCount.ticks>>},
                        versions \cup {<<0, upCount.ticks>>}}
      \/ \E p \in Starters : /\ boot[p].step = "applied"
                             /\ versions' = versions \cup {<<boot[p].at, upCount.ticks>>}
  BY DEF NextUp, varsUp, schemaVars, Download, BackUpBinary, CreateBinary, CopyBinary, SwapFails,
         SwapDies, Tick, Boot, NewInstall, ReadVersion, ClearBeta, RecordBaseline, ApplySQL,
         RecordVersion, ReadOldConfig, WriteNewConfig, UpdateKey, CopyPlugin, RemoveOldConfig,
         MoveFails, Serve, Exit
<1>3. ASSUME NEW p \in Starters, boot[p].step = "applied" PROVE boot[p].at \in -1..Upgrades
  BY <1>3, UpgradeAssumption DEF SchemaInv, PlaceHolds
<1>4. QED  BY <1>1, <1>2, <1>3 DEF UpRest

LEMMA UpRestStep == ASSUME SchemaInv, UpRest, [NextUp]_varsUp PROVE UpRest'
<1>1. binary' \in {"old", "new", "torn", "none"} /\ backup' \in {"old", "new", "torn", "none"}
  <2>1. /\ binary' \in {binary, backup, "new", "torn", "none"}
        /\ backup' \in {binary, backup, "none"}
    BY DEF NextUp, varsUp, swapVars, Download, BackUpBinary, CreateBinary, CopyBinary, SwapFails,
           SwapDies, Tick, Boot, NewInstall, ReadVersion, ClearBeta, RecordBaseline, ApplySQL,
           RecordVersion, ReadOldConfig, WriteNewConfig, UpdateKey, CopyPlugin, RemoveOldConfig,
           MoveFails, Serve, Exit
  <2>2. QED  BY <2>1 DEF UpRest
<1>2. panelDown' \in BOOLEAN /\ swapClash' \in BOOLEAN
  BY DEF UpRest, NextUp, varsUp, swapVars, Download, BackUpBinary, CreateBinary, CopyBinary,
         SwapFails, SwapDies, Tick, Boot, NewInstall, ReadVersion, ClearBeta, RecordBaseline,
         ApplySQL, RecordVersion, ReadOldConfig, WriteNewConfig, UpdateKey, CopyPlugin,
         RemoveOldConfig, MoveFails, Serve, Exit
<1>3. keyClash' \in BOOLEAN
  BY DEF UpRest, NextUp, varsUp, schemaVars, Download, BackUpBinary, CreateBinary, CopyBinary,
         SwapFails, SwapDies, Tick, Boot, NewInstall, ReadVersion, ClearBeta, RecordBaseline,
         ApplySQL, RecordVersion, ReadOldConfig, WriteNewConfig, UpdateKey, CopyPlugin,
         RemoveOldConfig, MoveFails, Serve, Exit
<1>4. oldConfig' \in {"valid", "broken", "moved", "discarded"}
  <2>1. oldConfig' \in {oldConfig, "moved", "discarded"}
    BY DEF NextUp, varsUp, schemaVars, Download, BackUpBinary, CreateBinary, CopyBinary,
           SwapFails, SwapDies, Tick, Boot, NewInstall, ReadVersion, ClearBeta, RecordBaseline,
           ApplySQL, RecordVersion, ReadOldConfig, WriteNewConfig, UpdateKey, CopyPlugin,
           RemoveOldConfig, MoveFails, Serve, Exit
  <2>2. QED  BY <2>1 DEF UpRest
<1>5. QED  BY <1>1, <1>2, <1>3, <1>4, VersionsTyped DEF UpRest

\* Each variable has its type.
THEOREM UpTyping == SpecUp => []UpTypeOK
<1>1. InitUp => SwapInv /\ UpRest
  <2> SUFFICES ASSUME InitUp PROVE SwapInv /\ UpRest  OBVIOUS
  <2>1. SwapInv  BY DEF InitUp, SwapInv, Copying, Whole
  <2>2. versions \subseteq (-1..Upgrades) \X Nat
    <3>1. versions \in {{}, {<<0, 0>>}, {<<Beta, 0>>}}  BY DEF InitUp
    <3>2. 0 \in -1..Upgrades /\ Beta \in -1..Upgrades  BY UpgradeAssumption DEF Beta
    <3>3. QED  BY <3>1, <3>2
  <2>3. oldConfig \in {"valid", "broken", "moved", "discarded"}  BY DEF InitUp
  <2>4. binary = "old" /\ backup = "none" /\ panelDown = FALSE /\ swapClash = FALSE
        /\ keyClash = FALSE
    BY DEF InitUp
  <2>5. QED  BY <2>1, <2>2, <2>3, <2>4 DEF UpRest
<1>2. SchemaInv /\ SwapInv /\ UpRest /\ [NextUp]_varsUp => SwapInv' /\ UpRest'
  BY SwapInvStep, UpRestStep
<1>3. SchemaInv /\ SwapInv /\ UpRest => UpTypeOK
  BY DEF SchemaInv, UpTypes, SwapInv, UpRest, UpTypeOK, Process, Stage, Counts
<1>4. QED  BY <1>1, <1>2, <1>3, SchemaInvariant, PTL DEF SpecUp
==============================================================================
