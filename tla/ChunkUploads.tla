------------------------------ MODULE ChunkUploads --------------------------
(* The upload of one file in chunks (handlers/file.go, UploadInit,           *)
(* UploadChunk, UploadComplete).  The name, size and date of the file make   *)
(* the id of the upload, so a second window, a resumed upload, or the retry  *)
(* of a request whose connection broke (templates/files.html tries a chunk   *)
(* three times) works in the same directory, and nothing orders the          *)
(* requests.  A file that is being written is named by its request.          *)
EXTENDS Integers, FiniteSets

CONSTANTS
  Senders,         \* requests under way at a time
  ChunkCount,      \* total_chunks of the file
  MaxSent,         \* bound: requests
  MaxCuts          \* bound: writes that fail, restarts of the panel

ASSUME UploadAssumption ==
  /\ Senders \cap {"none", "part", "whole"} = {}
  /\ ChunkCount \in Nat /\ MaxSent \in Nat /\ MaxCuts \in Nat

VARIABLES
  session,         \* session.json: "none", "torn" or "whole"
  stored,          \* chunk-<k>: "none", "part", "whole" or its writer
  temp,            \* chunk-<k>.tmp, likewise
  joined,          \* <destination>.uploading-<id> exists
  target,          \* the destination: "none", "whole" or "broken"
  sender,          \* per request: its step, its chunk, are all chunks copied whole
  shared,          \* history: two requests were storing one chunk at a time
  sentCount        \* bounds: requests, cuts

varsUpload == <<session, stored, temp, joined, target, sender, shared, sentCount>>
chunkVars == <<stored, temp>>
resultVars == <<joined, target>>

ChunkSet == 0..ChunkCount - 1
Still == [step |-> "idle", k |-> 0, good |-> TRUE]
Storing(r, k) == sender[r].k = k /\ sender[r].step \in {"checked", "writing", "written", "cleared"}

InitUpload ==
  /\ session = "none" /\ joined = FALSE /\ target = "none"
  /\ stored = [k \in ChunkSet |-> "none"] /\ temp = stored
  /\ sender = [r \in Senders |-> Still]
  /\ shared = FALSE /\ sentCount = [sent |-> 0, cuts |-> 0]

Now(r, step) == sender' = [sender EXCEPT ![r].step = step]
Answer(r) == sender' = [sender EXCEPT ![r] = Still]
Send(r) ==
  /\ sender[r].step = "idle" /\ sentCount.sent < MaxSent
  /\ sentCount' = [sentCount EXCEPT !.sent = @ + 1]
Cut == sentCount.cuts < MaxCuts /\ sentCount' = [sentCount EXCEPT !.cuts = @ + 1]

----------------------------------------------------------------------------
\* UploadInit makes the directory and writes session.json over the old one.
BeginSession(r) ==
  /\ Send(r)
  /\ session' = "torn"
  /\ Now(r, "saving")
  /\ UNCHANGED <<chunkVars, resultVars, shared>>

SaveSession(r) ==
  /\ sender[r].step = "saving"
  /\ session' = "whole"
  /\ Answer(r)
  /\ UNCHANGED <<chunkVars, resultVars, shared, sentCount>>

----------------------------------------------------------------------------
\* UploadChunk finds the session, and that the chunk has its size.
SendChunk(r, k) ==
  /\ Send(r) /\ session = "whole"
  /\ sender' = [sender EXCEPT ![r] = [Still EXCEPT !.step = "checked", !.k = k]]
  /\ shared' = (shared \/ \E o \in Senders \ {r} : Storing(o, k))
  /\ UNCHANGED <<session, chunkVars, resultVars>>

\* Mutant: the chunk is written in its place.
OpenTempInPlace(r) ==
  /\ sender[r].step = "checked"
  /\ stored' = [stored EXCEPT ![sender[r].k] = r]
  /\ Now(r, "writing")
  /\ UNCHANGED <<session, temp, resultVars, shared, sentCount>>

\* SaveUploadedFile makes the directory again if it is gone, and truncates a
\* file another request is writing.
OpenTemp(r) ==
  /\ sender[r].step = "checked"
  /\ temp' = [temp EXCEPT ![sender[r].k] = r]
  /\ Now(r, "writing")
  /\ UNCHANGED <<session, stored, resultVars, shared, sentCount>>

\* The file is complete, whatever name it has by now.
Settle(content, who, as) == [k \in ChunkSet |-> IF content[k] \in who THEN as ELSE content[k]]

FinishTemp(r) ==
  /\ sender[r].step = "writing"
  /\ temp' = Settle(temp, {r}, "whole") /\ stored' = Settle(stored, {r}, "whole")
  /\ Now(r, "written")
  /\ UNCHANGED <<session, resultVars, shared, sentCount>>

TempFails(r) ==
  /\ sender[r].step = "writing" /\ Cut
  /\ temp' = Settle(temp, {r}, "part") /\ stored' = Settle(stored, {r}, "part")
  /\ Answer(r)
  /\ UNCHANGED <<session, resultVars, shared>>

ClearOld(r) ==
  /\ sender[r].step = "written"
  /\ stored' = [stored EXCEPT ![sender[r].k] = "none"]
  /\ Now(r, "cleared")
  /\ UNCHANGED <<session, temp, resultVars, shared, sentCount>>

\* The rename finds no temporary file when another request has renamed it.
RenameTemp(r) ==
  /\ sender[r].step = "cleared"
  /\ LET k == sender[r].k
     IN IF temp[k] = "none"
          THEN UNCHANGED chunkVars
          ELSE stored' = [stored EXCEPT ![k] = temp[k]] /\ temp' = [temp EXCEPT ![k] = "none"]
  /\ Answer(r)
  /\ UNCHANGED <<session, resultVars, shared, sentCount>>

----------------------------------------------------------------------------
MissingChunks == {k \in ChunkSet : stored[k] = "none"}

\* UploadComplete finds the session and every chunk.
AskMerge(r) ==
  /\ Send(r) /\ session = "whole" /\ MissingChunks = {}
  /\ Now(r, "complete")
  /\ UNCHANGED <<session, chunkVars, resultVars, shared>>

\* O_EXCL: one merge at a time, and none after one that a restart cut off.
CreateJoined(r) ==
  /\ sender[r].step = "complete"
  /\ IF joined THEN Answer(r) /\ UNCHANGED joined
               ELSE Now(r, "merging") /\ joined' = TRUE
  /\ UNCHANGED <<session, chunkVars, target, shared, sentCount>>

\* The next chunk is appended as far as it is written; without it the merge
\* ends and removes its file.
CopyChunk(r) ==
  /\ sender[r].step = "merging" /\ sender[r].k < ChunkCount
  /\ LET content == stored[sender[r].k]
     IN IF content = "none"
          THEN Answer(r) /\ joined' = FALSE
          ELSE /\ sender' = [sender EXCEPT ![r].k = @ + 1,
                               ![r].good = @ /\ content = "whole"]
               /\ UNCHANGED joined
  /\ UNCHANGED <<session, chunkVars, target, shared, sentCount>>

Publish(r) ==
  /\ sender[r].step = "merging" /\ sender[r].k = ChunkCount
  /\ target' = IF sender[r].good THEN "whole" ELSE "broken"
  /\ joined' = FALSE
  /\ Now(r, "published")
  /\ UNCHANGED <<session, chunkVars, shared, sentCount>>

RemoveSession(r) ==
  /\ sender[r].step = "published"
  /\ session' = "none"
  /\ stored' = [k \in ChunkSet |-> "none"] /\ temp' = stored'
  /\ Answer(r)
  /\ UNCHANGED <<resultVars, shared, sentCount>>

\* The panel restarts: what requests were writing stays as it is.
UploadsStop ==
  /\ Cut
  /\ temp' = Settle(temp, Senders, "part") /\ stored' = Settle(stored, Senders, "part")
  /\ sender' = [r \in Senders |-> Still]
  /\ UNCHANGED <<session, resultVars, shared>>

NextUpload ==
  \/ UploadsStop
  \/ \E r \in Senders :
       \/ BeginSession(r) \/ SaveSession(r)
       \/ \E k \in ChunkSet : SendChunk(r, k)
       \/ OpenTemp(r) \/ FinishTemp(r) \/ TempFails(r) \/ ClearOld(r) \/ RenameTemp(r)
       \/ AskMerge(r) \/ CreateJoined(r) \/ CopyChunk(r) \/ Publish(r) \/ RemoveSession(r)

SpecUpload == InitUpload /\ [][NextUpload]_varsUpload

----------------------------------------------------------------------------
\* Each variable has its type.
UploadTypeOK ==
  /\ session \in {"none", "torn", "whole"} /\ target \in {"none", "whole", "broken"}
  /\ joined \in BOOLEAN /\ shared \in BOOLEAN
  /\ {stored, temp} \subseteq [ChunkSet -> {"none", "part", "whole"} \cup Senders]
  /\ sender \in [Senders -> [step : {"idle", "saving", "checked", "writing", "written", "cleared",
                                     "complete", "merging", "published"},
                             k : 0..ChunkCount, good : BOOLEAN]]
  /\ sentCount \in [sent : 0..MaxSent, cuts : 0..MaxCuts]

\* A merge puts a whole file in place, whatever was sent twice, resumed, left by
\* failed writes and restarts, or merged beside it; unless two requests were
\* storing one chunk at a time, which share one temporary file.
TargetIntact == shared \/ target # "broken"
=============================================================================
