---------------------------- MODULE WorkDirectory ----------------------------
(***************************************************************************)
(* The work directory of one file: every run for the file makes an attempt *)
(* in it, with a manifest, intermediate files and results, and every       *)
(* settlement cleans the intermediates of all attempts.  Processes that    *)
(* share the directory on one machine take over each other's jobs.         *)
(*                                                                         *)
(* A file is written by truncating it and writing it, which a crash can    *)
(* separate; a directory is removed file by file.                          *)
(***************************************************************************)
EXTENDS Naturals, FiniteSets

CONSTANTS
  Workers,
  Attempts,      \* the directories that attempts can get; they are never reused
  Responses,     \* the raw answers of the model, one file of chunks/ each
  Failures,      \* what can happen: "crash", "disk"
  MaxFailures    \* bound on how often

ASSUME FailuresAssumption == Failures \subseteq {"crash", "disk"} /\ MaxFailures \in Nat

VARIABLES
  used,       \* attempts that exist
  manifest,   \* the status in the attempt's job.json
  audio,      \* source.audio, moss.log and subtitle.srt
  chunks,     \* responses in chunks/
  kept,       \* responses in moss-results.json
  results,    \* segments.json and subtitle.vtt are written
  answered,   \* history: every response of the model that was written whole
  place, dir,    \* where the process is, and the attempt it runs
  failed,     \* runErr # nil
  todo,       \* attempts the walk of the cleanup has listed and not visited
  seen,       \* attempts that the cleanup has collected and not cleaned yet
  target,     \* the attempt it is cleaning
  held,       \* the responses it has read there
  failures

attempt == <<used, manifest, audio, chunks, kept, results, answered>>
worker == <<place, dir, failed>>
cleanup == <<todo, seen, target, held>>
workVars == <<attempt, worker, cleanup, failures>>

Working == {"created", "opening", "working", "saving", "ending", "closing"}
Compacting == {"completed", "rewriting", "look", "remove", "compact"}
Cleaning == {"walk", "clean", "save", "audio", "chunks"}
Places ==
  {"idle", "returned", "receipt", "settled", "cleaned", "refused"}
    \cup Working \cup Compacting \cup Cleaning

WorkTypeOK ==
  /\ used \subseteq Attempts
  /\ manifest \in [Attempts -> {"none", "torn", "running", "completed", "failed"}]
  /\ audio \in [Attempts -> BOOLEAN]
  /\ chunks \in [Attempts -> SUBSET Responses]
  /\ kept \in [Attempts -> SUBSET Responses]
  /\ results \in [Attempts -> BOOLEAN]
  /\ answered \in [Attempts -> SUBSET Responses]
  /\ place \in [Workers -> Places]
  /\ dir \in [Workers -> Attempts]
  /\ failed \in [Workers -> BOOLEAN]
  /\ todo \in [Workers -> SUBSET Attempts]
  /\ seen \in [Workers -> SUBSET Attempts]
  /\ target \in [Workers -> Attempts]
  /\ held \in [Workers -> SUBSET Responses]
  /\ failures \in 0..MaxFailures

WorkInit ==
  /\ used = {}
  /\ manifest = [d \in Attempts |-> "none"]
  /\ audio = [d \in Attempts |-> FALSE]
  /\ chunks = [d \in Attempts |-> {}] /\ kept = [d \in Attempts |-> {}]
  /\ results = [d \in Attempts |-> FALSE]
  /\ answered = [d \in Attempts |-> {}]
  /\ place = [p \in Workers |-> "idle"]
  /\ dir \in [Workers -> Attempts]
  /\ failed = [p \in Workers |-> FALSE]
  /\ todo = [p \in Workers |-> {}] /\ seen = [p \in Workers |-> {}]
  /\ target = dir
  /\ held = [p \in Workers |-> {}]
  /\ failures = 0

Move(p, from, to) == place[p] = from /\ place' = [place EXCEPT ![p] = to]

WriteManifest(p, status) == manifest' = [manifest EXCEPT ![dir[p]] = status]

-----------------------------------------------------------------------------
(* A run: its attempt and its manifest. *)

(* The file's directory, or a fresh one inside it. *)
Create(p) ==
  /\ Move(p, "idle", "created")
  /\ \E d \in Attempts \ used :
       used' = used \cup {d} /\ dir' = [dir EXCEPT ![p] = d]
  /\ failed' = [failed EXCEPT ![p] = FALSE]
  /\ UNCHANGED <<manifest, audio, chunks, kept, results, answered, cleanup, failures>>

Open(p) ==
  /\ Move(p, "created", "opening") /\ WriteManifest(p, "torn")
  /\ UNCHANGED <<used, audio, chunks, kept, results, answered, dir, failed, cleanup, failures>>

Start(p) ==
  /\ Move(p, "opening", "working") /\ WriteManifest(p, "running")
  /\ UNCHANGED <<used, audio, chunks, kept, results, answered, dir, failed, cleanup, failures>>

Download(p) ==
  /\ place[p] = "working" /\ ~audio[dir[p]]
  /\ audio' = [audio EXCEPT ![dir[p]] = TRUE]
  /\ UNCHANGED <<used, manifest, chunks, kept, results, answered, worker, cleanup, failures>>

(* The model's answer gets a file in chunks/, ... *)
OpenAnswer(p, r) ==
  /\ audio[dir[p]] /\ r \notin chunks[dir[p]]
  /\ Move(p, "working", "saving")
  /\ chunks' = [chunks EXCEPT ![dir[p]] = @ \cup {r}]
  /\ UNCHANGED <<used, manifest, audio, kept, results, answered, dir, failed, cleanup, failures>>

(* ... and is written there. *)
WriteAnswer(p) ==
  /\ Move(p, "saving", "working")
  /\ answered' = [answered EXCEPT ![dir[p]] = @ \cup chunks[dir[p]]]
  /\ UNCHANGED <<used, manifest, audio, chunks, kept, results, dir, failed, cleanup, failures>>

(* Mutant: the deferred function runs before the subtitles are exported. *)
ExportLate(p) ==
  /\ audio[dir[p]]
  /\ Move(p, "working", "ending")
  /\ UNCHANGED <<attempt, dir, failed, cleanup, failures>>

Export(p) ==
  /\ audio[dir[p]]
  /\ Move(p, "working", "ending")
  /\ results' = [results EXCEPT ![dir[p]] = TRUE]
  /\ UNCHANGED <<used, manifest, audio, chunks, kept, answered, dir, failed, cleanup, failures>>

RunFails(p) ==
  /\ Move(p, "working", "ending")
  /\ failed' = [failed EXCEPT ![p] = TRUE]
  /\ UNCHANGED <<attempt, dir, cleanup, failures>>

(* The deferred function truncates the manifest and writes the outcome. *)
Close(p) ==
  /\ Move(p, "ending", "closing") /\ WriteManifest(p, "torn")
  /\ UNCHANGED <<used, audio, chunks, kept, results, answered, dir, failed, cleanup, failures>>

Finish(p) ==
  /\ Move(p, "closing", IF failed[p] THEN "returned" ELSE "completed")
  /\ WriteManifest(p, IF failed[p] THEN "failed" ELSE "completed")
  /\ UNCHANGED <<used, audio, chunks, kept, results, answered, dir, failed, cleanup, failures>>

-----------------------------------------------------------------------------
(* CompactCompletedRun rewrites the manifest and removes the intermediates. *)

Reopen(p) ==
  /\ Move(p, "completed", "rewriting") /\ WriteManifest(p, "torn")
  /\ UNCHANGED <<used, audio, chunks, kept, results, answered, dir, failed, cleanup, failures>>

Rewrite(p) ==
  /\ Move(p, "rewriting", "look") /\ WriteManifest(p, "completed")
  /\ UNCHANGED <<used, audio, chunks, kept, results, answered, dir, failed, cleanup, failures>>

Look(p) ==
  /\ Move(p, "look", IF audio[dir[p]] THEN "remove" ELSE "compact")
  /\ UNCHANGED <<attempt, dir, failed, cleanup, failures>>

(* It fails when a cleanup has removed the file since. *)
RemoveIntermediate(p) ==
  /\ Move(p, "remove", IF audio[dir[p]] THEN "compact" ELSE "returned")
  /\ failed' = [failed EXCEPT ![p] = ~audio[dir[p]]]
  /\ audio' = [audio EXCEPT ![dir[p]] = FALSE]
  /\ UNCHANGED <<used, manifest, chunks, kept, results, answered, dir, cleanup, failures>>

CompactChunk(p, r) ==
  /\ place[p] = "compact" /\ r \in chunks[dir[p]]
  /\ chunks' = [chunks EXCEPT ![dir[p]] = @ \ {r}]
  /\ UNCHANGED <<used, manifest, audio, kept, results, answered, worker, cleanup, failures>>

Compacted(p) ==
  /\ chunks[dir[p]] = {}
  /\ Move(p, "compact", "returned")
  /\ UNCHANGED <<attempt, dir, failed, cleanup, failures>>

-----------------------------------------------------------------------------
(* The settlement and the cleanup after it. *)

(* The job was published: its receipt is put into the manifest, which keeps its status. *)
OpenReceipt(p) ==
  /\ ~failed[p]
  /\ Move(p, "returned", "receipt") /\ WriteManifest(p, "torn")
  /\ UNCHANGED <<used, audio, chunks, kept, results, answered, dir, failed, cleanup, failures>>

WriteReceipt(p) ==
  /\ Move(p, "receipt", "settled") /\ WriteManifest(p, "completed")
  /\ UNCHANGED <<used, audio, chunks, kept, results, answered, dir, failed, cleanup, failures>>

(* The run was settled, with or without a receipt, and the walk lists the directory. *)
Settle(p) ==
  /\ place[p] \in {"returned", "settled"} /\ place' = [place EXCEPT ![p] = "walk"]
  /\ todo' = [todo EXCEPT ![p] = used]
  /\ UNCHANGED <<attempt, dir, failed, seen, target, held, failures>>

(* A shutdown, a lost lease or a failing settlement: the files stay. *)
Leave(p) ==
  /\ Move(p, "returned", "idle")
  /\ UNCHANGED <<attempt, dir, failed, cleanup, failures>>

(* Mutant: an attempt that is still running is cleaned as well. *)
VisitAny(p, d) ==
  /\ place[p] = "walk" /\ d \in todo[p] /\ manifest[d] \in {"running", "completed", "failed"}
  /\ todo' = [todo EXCEPT ![p] = @ \ {d}]
  /\ seen' = [seen EXCEPT ![p] = @ \cup {d}]
  /\ UNCHANGED <<attempt, worker, target, held, failures>>

(* An attempt whose manifest is not there yet is not noticed. *)
Visit(p, d) ==
  /\ place[p] = "walk" /\ d \in todo[p] /\ manifest[d] \in {"none", "completed", "failed"}
  /\ todo' = [todo EXCEPT ![p] = @ \ {d}]
  /\ seen' = [seen EXCEPT ![p] = IF manifest[d] = "none" THEN @ ELSE @ \cup {d}]
  /\ UNCHANGED <<attempt, worker, target, held, failures>>

(* An unfinished attempt, or one whose manifest cannot be read, stops the cleanup. *)
RefuseToClean(p) ==
  /\ \E d \in todo[p] : manifest[d] \in {"torn", "running"}
  /\ Move(p, "walk", "refused")
  /\ todo' = [todo EXCEPT ![p] = {}] /\ seen' = [seen EXCEPT ![p] = {}]
  /\ UNCHANGED <<attempt, dir, failed, target, held, failures>>

Walked(p) ==
  /\ todo[p] = {}
  /\ Move(p, "walk", "clean")
  /\ UNCHANGED <<attempt, dir, failed, cleanup, failures>>

(* Another process is removing the responses of the attempt. *)
BeingRemoved(p, d) ==
  \E q \in Workers \ {p} :
    \/ place[q] = "chunks" /\ target[q] = d
    \/ place[q] = "compact" /\ dir[q] = d

(* A response that is not whole, or gone since it was listed, stops the cleanup. *)
RefuseResponses(p, d) ==
  /\ d \in seen[p]
  /\ ~(chunks[d] \subseteq answered[d]) \/ (chunks[d] # {} /\ BeingRemoved(p, d))
  /\ Move(p, "clean", "refused")
  /\ seen' = [seen EXCEPT ![p] = {}]
  /\ UNCHANGED <<attempt, dir, failed, todo, target, held, failures>>

(* It reads the responses of an attempt, all at once, and truncates moss-results.json. *)
Read(p, d) ==
  /\ d \in seen[p] /\ chunks[d] \subseteq answered[d]
  /\ Move(p, "clean", IF chunks[d] = {} THEN "audio" ELSE "save")
  /\ target' = [target EXCEPT ![p] = d]
  /\ held' = [held EXCEPT ![p] = chunks[d]]
  /\ kept' = [kept EXCEPT ![d] = IF chunks[d] = {} THEN @ ELSE {}]
  /\ UNCHANGED <<used, manifest, audio, chunks, results, answered, dir, failed, todo, seen, failures>>

SaveResponses(p) ==
  /\ Move(p, "save", "audio")
  /\ kept' = [kept EXCEPT ![target[p]] = held[p]]
  /\ UNCHANGED <<used, manifest, audio, chunks, results, answered, dir, failed, cleanup, failures>>

CleanAudio(p) ==
  /\ Move(p, "audio", "chunks")
  /\ audio' = [audio EXCEPT ![target[p]] = FALSE]
  /\ UNCHANGED <<used, manifest, chunks, kept, results, answered, dir, failed, cleanup, failures>>

CleanChunk(p, r) ==
  /\ place[p] = "chunks" /\ r \in chunks[target[p]]
  /\ chunks' = [chunks EXCEPT ![target[p]] = @ \ {r}]
  /\ UNCHANGED <<used, manifest, audio, kept, results, answered, worker, cleanup, failures>>

AttemptCleaned(p) ==
  /\ chunks[target[p]] = {}
  /\ Move(p, "chunks", "clean")
  /\ seen' = [seen EXCEPT ![p] = @ \ {target[p]}]
  /\ UNCHANGED <<attempt, dir, failed, todo, target, held, failures>>

AllCleaned(p) ==
  /\ seen[p] = {}
  /\ Move(p, "clean", "cleaned")
  /\ UNCHANGED <<attempt, dir, failed, cleanup, failures>>

(* The process takes the next job. *)
Again(p) ==
  /\ place[p] \in {"cleaned", "refused"} /\ place' = [place EXCEPT ![p] = "idle"]
  /\ UNCHANGED <<attempt, dir, failed, cleanup, failures>>

-----------------------------------------------------------------------------
(* Failures. *)

FailureOf(kind) ==
  kind \in Failures /\ failures < MaxFailures /\ failures' = failures + 1

Crash(p) ==
  /\ FailureOf("crash")
  /\ place[p] # "idle" /\ place' = [place EXCEPT ![p] = "idle"]
  /\ todo' = [todo EXCEPT ![p] = {}] /\ seen' = [seen EXCEPT ![p] = {}]
  /\ UNCHANGED <<attempt, dir, failed, target, held>>

(* A disk operation fails: the run, its compaction or the cleanup gives up. *)
DiskFails(p) ==
  /\ FailureOf("disk")
  /\ \/ place[p] \in {"created", "opening", "saving"} /\ place' = [place EXCEPT ![p] = "ending"]
     \/ place[p] \in {"ending", "closing"} \cup Compacting /\ place' = [place EXCEPT ![p] = "returned"]
     \/ place[p] = "receipt" /\ place' = [place EXCEPT ![p] = "settled"]
     \/ place[p] \in Cleaning /\ place' = [place EXCEPT ![p] = "idle"]
  /\ failed' = [failed EXCEPT ![p] = TRUE]
  /\ todo' = [todo EXCEPT ![p] = {}] /\ seen' = [seen EXCEPT ![p] = {}]
  /\ UNCHANGED <<attempt, dir, target, held>>

Run(p) ==
  \/ Create(p) \/ Open(p) \/ Start(p) \/ Download(p)
  \/ (\E r \in Responses : OpenAnswer(p, r)) \/ WriteAnswer(p)
  \/ Export(p) \/ RunFails(p) \/ Close(p) \/ Finish(p)

Compact(p) ==
  \/ Reopen(p) \/ Rewrite(p) \/ Look(p) \/ RemoveIntermediate(p)
  \/ (\E r \in Responses : CompactChunk(p, r)) \/ Compacted(p)

Clean(p) ==
  \/ OpenReceipt(p) \/ WriteReceipt(p) \/ Settle(p) \/ Leave(p)
  \/ (\E d \in Attempts : Visit(p, d)) \/ RefuseToClean(p) \/ Walked(p)
  \/ (\E d \in Attempts : RefuseResponses(p, d) \/ Read(p, d)) \/ SaveResponses(p) \/ CleanAudio(p)
  \/ (\E r \in Responses : CleanChunk(p, r)) \/ AttemptCleaned(p) \/ AllCleaned(p) \/ Again(p)

WorkNext == \E p \in Workers : Run(p) \/ Compact(p) \/ Clean(p) \/ Crash(p) \/ DiskFails(p)

WorkSpec == WorkInit /\ [][WorkNext]_workVars

-----------------------------------------------------------------------------
(* Properties. *)

(***************************************************************************)
(* cleanup.go, line 13: the cleanup refuses any attempt that still says it *)
(* is running.  Of an attempt that some process still works in, nothing is *)
(* ever collected, also when it begins or ends during the walk.            *)
(***************************************************************************)
ActiveIsUntouched ==
  \A p, q \in Workers : place[q] \in Working => dir[q] \notin seen[p]

(* A manifest says completed only when the results are on disk, also after a crash. *)
CompletedHasResults == \A d \in Attempts : manifest[d] = "completed" => results[d]

(***************************************************************************)
(* cleanup.go, line 76: the model's responses are preserved before chunks  *)
(* are deleted, including failed runs.                                     *)
(***************************************************************************)
ResponsesKept ==
  \A d \in Attempts : manifest[d] = "failed" => answered[d] \subseteq chunks[d] \cup kept[d]

(***************************************************************************)
(* README.md, lines 59-64: once a run is settled the intermediates of all  *)
(* attempts are deleted, unless an attempt is active.                      *)
(***************************************************************************)
SettledIsClean ==
  \A p \in Workers :
    place[p] \in {"cleaned", "refused"} /\ (\A q \in Workers \ {p} : place[q] = "idle") =>
      \A d \in used : ~audio[d] /\ chunks[d] = {}
=============================================================================
