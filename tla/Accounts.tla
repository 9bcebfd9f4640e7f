------------------------------ MODULE Accounts ------------------------------
(* Who may enter the panel: the user and password of Basic Auth, in          *)
(* config.json and in the memory of the panel, and those of the web login,   *)
(* in admin_users.  The settings page changes any of the four                *)
(* (handlers/settings.go, UpdateSettings), a command line resets all of them *)
(* and restarts the panel (main.go, resetAllAdmin).  config.json is changed  *)
(* by reading the whole of it and writing the whole of it, without a lock.   *)
EXTENDS Integers, FiniteSets

CONSTANTS
  Savers,          \* requests that save settings
  Resetter,        \* wp-panel --reset-admin
  MaxSaves,        \* bound: requests and resets
  MaxSlips         \* bound: writes that fail, processes that die

ASSUME AccountsAssumption == Resetter \notin Savers /\ MaxSaves \in Nat /\ MaxSlips \in Nat

VARIABLES
  inFile,          \* basic_auth in config.json: who wrote the user, the password
  inMemory,        \* config.AppConfig.BasicAuth, likewise
  inTable,         \* admin_users, likewise
  fileTorn,        \* config.json was cut off while it was written
  serving,         \* the panel found a config.json it can load
  saver,           \* per process: its step, the fields to do, what it read, its number
  overlapped,      \* history: two were changing config.json at a time
  saveCount        \* bounds: requests, slips

varsAcc == <<inFile, inMemory, inTable, fileTorn, serving, saver, overlapped, saveCount>>

Entrants == Savers \cup {Resetter}
\* The order of UpdateSettings.
Fields == <<"web user", "basic user", "web password", "basic password">>
FieldSet == {"web user", "basic user", "web password", "basic password"}
Basic == {"basic user", "basic password"}
Unused == [step |-> "idle", todo |-> {}, seen |-> [f \in Basic |-> 0], number |-> 0]
Rewriting(p) == saver[p].step \in {"read", "truncated", "written", "restart"}

InitAcc ==
  /\ inFile = [f \in Basic |-> 0] /\ inMemory = inFile
  /\ inTable = [f \in FieldSet \ Basic |-> 0]
  /\ fileTorn = FALSE /\ serving = TRUE /\ overlapped = FALSE
  /\ saver = [p \in Entrants |-> Unused]
  /\ saveCount = [saves |-> 0, slips |-> 0]

ToStep(p, step) == saver' = [saver EXCEPT ![p].step = step]
Ends(p) == saver' = [saver EXCEPT ![p] = Unused]
Slip == saveCount.slips < MaxSlips /\ saveCount' = [saveCount EXCEPT !.slips = @ + 1]
Left(p) == {i \in 1..4 : Fields[i] \in saver[p].todo}
Saving(p) == saver[p].step = "saving" /\ Left(p) # {}
\* The field at hand: the first of those left.
Field(p) == Fields[CHOOSE i \in Left(p) : \A j \in Left(p) : i <= j]
FieldDone(p) == saver' = [saver EXCEPT ![p].todo = @ \ {Field(p)}, ![p].step = "saving"]

----------------------------------------------------------------------------
\* A request names the fields it changes; the reset changes them all.
AskSave(p) ==
  /\ saver[p].step = "idle" /\ saveCount.saves < MaxSaves
  /\ IF p = Resetter THEN ~fileTorn ELSE serving
  /\ \E todo \in SUBSET FieldSet :
       /\ todo # {} /\ (p = Resetter => todo = FieldSet)
       /\ saver' = [saver EXCEPT ![p] = [Unused EXCEPT !.step = "saving",
                      !.todo = todo, !.number = saveCount.saves + 1]]
  /\ saveCount' = [saveCount EXCEPT !.saves = @ + 1]
  /\ UNCHANGED <<inFile, inMemory, inTable, fileTorn, serving, overlapped>>

\* One UPDATE for a field of the settings page, one for both in the reset.
SaveRow(p) ==
  /\ Saving(p) /\ Field(p) \notin Basic
  /\ IF p = Resetter
       THEN /\ inTable' = [f \in FieldSet \ Basic |-> saver[p].number]
            /\ saver' = [saver EXCEPT ![p].todo = Basic]
       ELSE /\ inTable' = [inTable EXCEPT ![Field(p)] = saver[p].number]
            /\ FieldDone(p)
  /\ UNCHANGED <<inFile, inMemory, fileTorn, serving, overlapped, saveCount>>

\* The current password is wrong, a new one too short, or the UPDATE fails:
\* the request ends there, and what it changed before stays changed.
RefuseSave(p) ==
  /\ Saving(p) /\ (p = Resetter => Field(p) \notin Basic)
  /\ Ends(p)
  /\ UNCHANGED <<inFile, inMemory, inTable, fileTorn, serving, overlapped, saveCount>>

\* updateConfigValue, or the reset, reads config.json.
ReadFile(p) ==
  /\ Saving(p) /\ Field(p) \in Basic /\ ~fileTorn
  /\ saver' = [saver EXCEPT ![p].step = "read", ![p].seen = inFile]
  /\ overlapped' = (overlapped \/ \E o \in Entrants \ {p} : Rewriting(o))
  /\ UNCHANGED <<inFile, inMemory, inTable, fileTorn, serving, saveCount>>

\* A file that does not parse: the request fails, the reset goes on to restart.
FindTorn(p) ==
  /\ Saving(p) /\ Field(p) \in Basic /\ fileTorn
  /\ IF p = Resetter THEN ToStep(p, "restart") ELSE Ends(p)
  /\ UNCHANGED <<inFile, inMemory, inTable, fileTorn, serving, overlapped, saveCount>>

\* Mutant: the memory is changed whatever became of the file.
OpenFailsUnseen(p) ==
  /\ saver[p].step = "read" /\ Slip
  /\ inMemory' = IF p = Resetter THEN inMemory
                 ELSE [inMemory EXCEPT ![Field(p)] = saver[p].number]
  /\ Ends(p)
  /\ UNCHANGED <<inFile, inTable, fileTorn, serving, overlapped>>

\* The file cannot be opened for writing, and stays as it is.
OpenFails(p) ==
  /\ saver[p].step = "read" /\ Slip
  /\ Ends(p)
  /\ UNCHANGED <<inFile, inMemory, inTable, fileTorn, serving, overlapped>>

\* os.WriteFile truncates first.
TruncateFile(p) ==
  /\ saver[p].step = "read"
  /\ fileTorn' = TRUE
  /\ ToStep(p, "truncated")
  /\ UNCHANGED <<inFile, inMemory, inTable, serving, overlapped, saveCount>>

Changed(p) == IF p = Resetter THEN [f \in Basic |-> saver[p].number]
                              ELSE [saver[p].seen EXCEPT ![Field(p)] = saver[p].number]

WriteFile(p) ==
  /\ saver[p].step = "truncated"
  /\ inFile' = Changed(p) /\ fileTorn' = FALSE
  /\ ToStep(p, IF p = Resetter THEN "restart" ELSE "written")
  /\ UNCHANGED <<inMemory, inTable, serving, overlapped, saveCount>>

WriteFails(p) ==
  /\ saver[p].step = "truncated" /\ Slip
  /\ Ends(p)
  /\ UNCHANGED <<inFile, inMemory, inTable, fileTorn, serving, overlapped>>

SetMemory(p) ==
  /\ saver[p].step = "written"
  /\ inMemory' = [inMemory EXCEPT ![Field(p)] = saver[p].number]
  /\ FieldDone(p)
  /\ UNCHANGED <<inFile, inTable, fileTorn, serving, overlapped, saveCount>>

EndSave(p) ==
  /\ saver[p].step = "saving" /\ Left(p) = {}
  /\ Ends(p)
  /\ UNCHANGED <<inFile, inMemory, inTable, fileTorn, serving, overlapped, saveCount>>

\* systemctl restart: the requests end and LoadConfig reads the file; with a
\* torn one the panel does not start, and its memory says nothing.
Restarted ==
  /\ inMemory' = IF fileTorn THEN inMemory ELSE inFile
  /\ serving' = ~fileTorn
  /\ UNCHANGED <<inFile, inTable, fileTorn, overlapped>>

ResetRestarts ==
  /\ saver[Resetter].step = "restart"
  /\ saver' = [p \in Entrants |-> Unused]
  /\ Restarted /\ UNCHANGED saveCount

PanelDies ==
  /\ Slip
  /\ saver' = [p \in Entrants |-> IF p = Resetter THEN saver[p] ELSE Unused]
  /\ Restarted

NextAcc ==
  \/ ResetRestarts \/ PanelDies
  \/ \E p \in Entrants :
       \/ AskSave(p) \/ SaveRow(p) \/ RefuseSave(p)
       \/ ReadFile(p) \/ FindTorn(p) \/ OpenFails(p) \/ TruncateFile(p)
       \/ WriteFile(p) \/ WriteFails(p) \/ SetMemory(p) \/ EndSave(p)

SpecAcc == InitAcc /\ [][NextAcc]_varsAcc

----------------------------------------------------------------------------
\* Each variable has its type.
AccTypeOK ==
  /\ inFile \in [Basic -> Nat] /\ inMemory \in [Basic -> Nat]
  /\ inTable \in [FieldSet \ Basic -> Nat]
  /\ {fileTorn, serving, overlapped} \subseteq BOOLEAN
  /\ saver \in [Entrants -> [step : {"idle", "saving", "read", "truncated", "written", "restart"},
                             todo : SUBSET FieldSet, seen : [Basic -> Nat], number : Nat]]
  /\ saveCount \in [saves : 0..MaxSaves, slips : 0..MaxSlips]

\* A restart does not change who Basic Auth lets in: when nobody is changing
\* config.json, the memory of the panel and the file agree, whatever was
\* refused halfway, failed to open or was restarted in between; unless two
\* changes overlapped or a write was cut off.
RestartChangesNothing ==
  overlapped \/ fileTorn \/ (\E p \in Entrants : Rewriting(p)) \/ inMemory = inFile
=============================================================================
