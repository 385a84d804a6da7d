------------------------ MODULE WorkDirectoryProofs ------------------------
(***************************************************************************)
(* Theorems about the work directory of a file, for every number of        *)
(* processes, attempts, answers and failures.                              *)
(***************************************************************************)
EXTENDS WorkDirectory, TLAPS

USE DEF Working, Compacting, Cleaning, Places

(* A place in the code is well typed wherever a step leads. *)
LEMMA MoveTypes ==
  ASSUME WorkTypeOK, NEW p \in Workers, NEW from, NEW to \in Places, Move(p, from, to)
  PROVE  place' \in [Workers -> Places] /\ place'[p] = to
BY DEF Move, WorkTypeOK

LEMMA TypeInit == WorkInit => WorkTypeOK
BY FailuresAssumption DEF WorkInit, WorkTypeOK

LEMMA CreateTypes ==
  ASSUME WorkTypeOK, NEW p \in Workers, Create(p) PROVE WorkTypeOK'
<1>1. PICK d \in Attempts \ used : used' = used \cup {d} /\ dir' = [dir EXCEPT ![p] = d]
  BY DEF Create
<1>2. place' \in [Workers -> Places] /\ failed' \in [Workers -> BOOLEAN]
  BY MoveTypes DEF Create, WorkTypeOK
<1>3. used' \subseteq Attempts /\ dir' \in [Workers -> Attempts]
  BY <1>1 DEF WorkTypeOK
<1>4. UNCHANGED <<manifest, audio, chunks, kept, results, answered, todo, seen, target, held, failures>>
  BY DEF Create, cleanup
<1> QED BY <1>2, <1>3, <1>4 DEF WorkTypeOK

LEMMA RunTypes ==
  ASSUME WorkTypeOK, NEW p \in Workers, Run(p) PROVE WorkTypeOK'
<1> USE MoveTypes DEF WorkTypeOK, WriteManifest, cleanup, attempt, worker
<1>1. CASE Create(p)
  BY <1>1, CreateTypes
<1>2. CASE Open(p) \/ Start(p)
  <2>1. CASE Open(p)
    BY <2>1 DEF Open
  <2>2. CASE Start(p)
    BY <2>2 DEF Start
  <2> QED BY <1>2, <2>1, <2>2
<1>3. CASE Download(p)
  BY <1>3 DEF Download
<1>4. CASE Export(p) \/ RunFails(p)
  BY <1>4 DEF Export, RunFails
<1>5. CASE Close(p)
  BY <1>5 DEF Close
<1>6. CASE Finish(p)
  <2>1. (IF failed[p] THEN "returned" ELSE "completed") \in Places
    OBVIOUS
  <2> QED BY <1>6, <2>1 DEF Finish
<1>7. CASE \E r \in Responses : OpenAnswer(p, r)
  BY <1>7 DEF OpenAnswer
<1>8. CASE WriteAnswer(p)
  BY <1>8 DEF WriteAnswer
<1> QED BY <1>1, <1>2, <1>3, <1>4, <1>5, <1>6, <1>7, <1>8 DEF Run

LEMMA CompactTypes ==
  ASSUME WorkTypeOK, NEW p \in Workers, Compact(p) PROVE WorkTypeOK'
<1> USE MoveTypes DEF WorkTypeOK, WriteManifest, cleanup, attempt, worker
<1>1. CASE Reopen(p) \/ Rewrite(p)
  BY <1>1 DEF Reopen, Rewrite
<1>2. CASE Look(p)
  <2>1. (IF audio[dir[p]] THEN "remove" ELSE "compact") \in Places
    OBVIOUS
  <2> QED BY <1>2, <2>1 DEF Look
<1>3. CASE RemoveIntermediate(p)
  <2>1. (IF audio[dir[p]] THEN "compact" ELSE "returned") \in Places
    OBVIOUS
  <2> QED BY <1>3, <2>1 DEF RemoveIntermediate
<1>4. CASE (\E r \in Responses : CompactChunk(p, r)) \/ Compacted(p)
  BY <1>4 DEF CompactChunk, Compacted
<1> QED BY <1>1, <1>2, <1>3, <1>4 DEF Compact

LEMMA CleanTypes ==
  ASSUME WorkTypeOK, NEW p \in Workers, Clean(p) PROVE WorkTypeOK'
<1> USE MoveTypes DEF WorkTypeOK, WriteManifest, cleanup, attempt, worker
<1>1. CASE Settle(p) \/ Leave(p) \/ Walked(p) \/ AllCleaned(p) \/ Again(p)
  BY <1>1 DEF Settle, Leave, Walked, AllCleaned, Again
<1>2. CASE \E d \in Attempts : Visit(p, d)
  BY <1>2 DEF Visit
<1>3. CASE RefuseToClean(p)
  BY <1>3 DEF RefuseToClean
<1>4. CASE \E d \in Attempts : Read(p, d)
  <2> PICK d \in Attempts : Read(p, d)
    BY <1>4
  <2>1. place' \in [Workers -> Places]
    BY DEF Read
  <2>2. /\ target' = [target EXCEPT ![p] = d]
        /\ held' = [held EXCEPT ![p] = chunks[d]]
        /\ kept' = [kept EXCEPT ![d] = IF chunks[d] = {} THEN @ ELSE {}]
        /\ UNCHANGED <<used, manifest, audio, chunks, results, answered, dir, failed, todo, seen,
                        failures>>
    BY DEF Read
  <2>3. kept' \in [Attempts -> SUBSET Responses] /\ held' \in [Workers -> SUBSET Responses]
    BY <2>2
  <2>4. target' \in [Workers -> Attempts]
    BY <2>2
  <2> QED BY <2>1, <2>2, <2>3, <2>4
<1>5. CASE SaveResponses(p) \/ CleanAudio(p)
  <2>1. CASE SaveResponses(p)
    BY <2>1 DEF SaveResponses
  <2>2. CASE CleanAudio(p)
    BY <2>2 DEF CleanAudio
  <2> QED BY <1>5, <2>1, <2>2
<1>6. CASE (\E r \in Responses : CleanChunk(p, r)) \/ AttemptCleaned(p)
  <2>1. CASE \E r \in Responses : CleanChunk(p, r)
    BY <2>1 DEF CleanChunk
  <2>2. CASE AttemptCleaned(p)
    BY <2>2 DEF AttemptCleaned
  <2> QED BY <1>6, <2>1, <2>2
<1>7. CASE OpenReceipt(p) \/ WriteReceipt(p)
  <2>1. CASE OpenReceipt(p)
    BY <2>1 DEF OpenReceipt
  <2>2. CASE WriteReceipt(p)
    BY <2>2 DEF WriteReceipt
  <2> QED BY <1>7, <2>1, <2>2
<1>8. CASE \E d \in Attempts : RefuseResponses(p, d)
  BY <1>8 DEF RefuseResponses
<1> QED BY <1>1, <1>2, <1>3, <1>4, <1>5, <1>6, <1>7, <1>8 DEF Clean

LEMMA TypeStep == WorkTypeOK /\ [WorkNext]_workVars => WorkTypeOK'
<1> SUFFICES ASSUME WorkTypeOK, [WorkNext]_workVars PROVE WorkTypeOK'
  OBVIOUS
<1>1. ASSUME NEW p \in Workers, Crash(p) \/ DiskFails(p) PROVE WorkTypeOK'
  <2>1. failures' \in 0..MaxFailures
    BY <1>1, FailuresAssumption DEF Crash, DiskFails, FailureOf, WorkTypeOK
  <2>2. place' \in [Workers -> Places]
    BY <1>1 DEF Crash, DiskFails, WorkTypeOK
  <2>3. failed' \in [Workers -> BOOLEAN]
    BY <1>1 DEF Crash, DiskFails, WorkTypeOK
  <2>4. todo' \in [Workers -> SUBSET Attempts] /\ seen' \in [Workers -> SUBSET Attempts]
    BY <1>1 DEF Crash, DiskFails, WorkTypeOK
  <2>5. UNCHANGED <<attempt, dir, target, held>>
    BY <1>1 DEF Crash, DiskFails
  <2> QED BY <2>1, <2>2, <2>3, <2>4, <2>5 DEF WorkTypeOK, attempt
<1>2. CASE UNCHANGED workVars
  BY <1>2 DEF workVars, WorkTypeOK, attempt, worker, cleanup
<1> QED BY <1>1, <1>2, RunTypes, CompactTypes, CleanTypes DEF WorkNext

(* The bookkeeping of attempts and manifests is well typed. *)
THEOREM WorkTypes == WorkSpec => []WorkTypeOK
BY TypeInit, TypeStep, PTL DEF WorkSpec

-----------------------------------------------------------------------------
(* Attempts belong to one run. *)

(* The run has an attempt, whose manifest it may still write. *)
Owning == Working \cup Compacting \cup {"returned", "receipt"}

(* Runs under way have attempts of their own, and a cleanup knows only attempts. *)
Apart ==
  /\ \A p \in Workers : place[p] \in Owning => dir[p] \in used
  /\ \A p, q \in Workers :
       p # q /\ place[p] \in Owning /\ place[q] \in Owning => dir[p] # dir[q]
  /\ \A p \in Workers : todo[p] \cup seen[p] \subseteq used

(* The manifest of an attempt under way, or to come, says neither completed nor failed. *)
Unfinished ==
  /\ \A p \in Workers : place[p] \in Working => manifest[dir[p]] \notin {"completed", "failed"}
  /\ \A d \in Attempts \ used : manifest[d] = "none"

(* The run of the process got through, and its manifest says so or will say so. *)
Succeeded(p) ==
  \/ place[p] \in Compacting \cup {"receipt"}
  \/ place[p] \in {"ending", "closing", "returned"} /\ ~failed[p]

(* From the end of a successful run on, its results are there. *)
Exported == \A p \in Workers : Succeeded(p) => results[dir[p]]

Sound == WorkTypeOK /\ Apart /\ Unfinished /\ ActiveIsUntouched /\ Exported /\ CompletedHasResults

(***************************************************************************)
(* What the steps of a process other than Create may do: go on in the same *)
(* attempt, write no manifest but its own, and collect only what is        *)
(* finished.                                                               *)
(***************************************************************************)
Final == {d \in Attempts : manifest[d] \in {"completed", "failed"}}

Local(p) ==
  /\ used' = used /\ dir' = dir
  /\ \A q \in Workers \ {p} :
       place'[q] = place[q] /\ failed'[q] = failed[q] /\ todo'[q] = todo[q] /\ seen'[q] = seen[q]
  /\ \A d \in Attempts :
       d # dir[p] \/ place[p] \notin Owning =>
         manifest'[d] = manifest[d] /\ results'[d] = results[d]
  /\ place'[p] \in Owning => place[p] \in Owning
  /\ place'[p] \in Working =>
       place[p] \in Working /\ manifest'[dir[p]] \in {manifest[dir[p]], "torn", "running"}
  /\ todo'[p] \subseteq todo[p] \cup used
  /\ seen'[p] \subseteq seen[p] \cup (Final \cap todo[p])

(* The outcome of p's own attempt. *)
Outcome(p) ==
  /\ Succeeded(p) => results[dir[p]]
  /\ manifest[dir[p]] = "completed" => results[dir[p]]

USE DEF Owning, Succeeded

LEMMA RunIsLocal ==
  ASSUME WorkTypeOK, NEW p \in Workers, Run(p), ~Create(p) PROVE Local(p)
<1> USE DEF WorkTypeOK, Local, Move, WriteManifest, attempt, worker, cleanup
<1>1. CASE Open(p)
  BY <1>1 DEF Open
<1>2. CASE Start(p)
  BY <1>2 DEF Start
<1>3. CASE Download(p) \/ WriteAnswer(p) \/ \E r \in Responses : OpenAnswer(p, r)
  BY <1>3 DEF Download, WriteAnswer, OpenAnswer
<1>4. CASE Export(p)
  BY <1>4 DEF Export
<1>5. CASE RunFails(p)
  BY <1>5 DEF RunFails
<1>6. CASE Close(p)
  BY <1>6 DEF Close
<1>7. CASE Finish(p)
  BY <1>7 DEF Finish
<1> QED BY <1>1, <1>2, <1>3, <1>4, <1>5, <1>6, <1>7 DEF Run

LEMMA CompactIsLocal ==
  ASSUME WorkTypeOK, NEW p \in Workers, Compact(p) PROVE Local(p)
<1> USE DEF WorkTypeOK, Local, Move, WriteManifest, attempt, worker, cleanup
<1>1. CASE Reopen(p)
  BY <1>1 DEF Reopen
<1>2. CASE Rewrite(p)
  BY <1>2 DEF Rewrite
<1>3. CASE Look(p) \/ Compacted(p) \/ \E r \in Responses : CompactChunk(p, r)
  BY <1>3 DEF Look, Compacted, CompactChunk
<1>4. CASE RemoveIntermediate(p)
  BY <1>4 DEF RemoveIntermediate
<1> QED BY <1>1, <1>2, <1>3, <1>4 DEF Compact

LEMMA CleanIsLocal ==
  ASSUME WorkTypeOK, NEW p \in Workers, Clean(p) PROVE Local(p)
<1> USE DEF WorkTypeOK, Local, Move, WriteManifest, attempt, worker, cleanup
<1>1. CASE Settle(p)
  BY <1>1 DEF Settle
<1>2. CASE Leave(p) \/ Walked(p) \/ AllCleaned(p) \/ Again(p)
  BY <1>2 DEF Leave, Walked, AllCleaned, Again
<1>3. CASE \E d \in Attempts : Visit(p, d)
  BY <1>3 DEF Visit, Final
<1>4. CASE RefuseToClean(p)
  BY <1>4 DEF RefuseToClean
<1>5. CASE \E d \in Attempts : Read(p, d)
  BY <1>5 DEF Read
<1>6. CASE SaveResponses(p) \/ CleanAudio(p) \/ \E r \in Responses : CleanChunk(p, r)
  BY <1>6 DEF SaveResponses, CleanAudio, CleanChunk
<1>7. CASE AttemptCleaned(p)
  BY <1>7 DEF AttemptCleaned
<1>8. CASE OpenReceipt(p) \/ WriteReceipt(p)
  BY <1>8 DEF OpenReceipt, WriteReceipt
<1>9. CASE \E d \in Attempts : RefuseResponses(p, d)
  BY <1>9 DEF RefuseResponses
<1> QED BY <1>1, <1>2, <1>3, <1>4, <1>5, <1>6, <1>7, <1>8, <1>9 DEF Clean

LEMMA FailureIsLocal ==
  ASSUME WorkTypeOK, NEW p \in Workers, Crash(p) \/ DiskFails(p) PROVE Local(p)
<1> USE DEF WorkTypeOK, Local, attempt, worker, cleanup
<1>1. CASE Crash(p)
  BY <1>1 DEF Crash
<1>2. CASE DiskFails(p)
  BY <1>2 DEF DiskFails
<1> QED BY <1>1, <1>2

LEMMA LocalSteps ==
  ASSUME WorkTypeOK, Apart, Unfinished, ActiveIsUntouched, NEW p \in Workers, Local(p)
  PROVE  Apart' /\ Unfinished' /\ ActiveIsUntouched'
<1> USE DEF Local, WorkTypeOK, Apart
<1>1. Apart'
  BY DEF Final
<1>2. Unfinished'
  BY DEF Unfinished
<1>3. ActiveIsUntouched'
  BY DEF ActiveIsUntouched, Unfinished, Final
<1> QED BY <1>1, <1>2, <1>3

LEMMA CreateSteps ==
  ASSUME Sound, NEW p \in Workers, Create(p)
  PROVE  Apart' /\ Unfinished' /\ ActiveIsUntouched' /\ Exported' /\ CompletedHasResults'
<1>1. PICK d \in Attempts \ used : used' = used \cup {d} /\ dir' = [dir EXCEPT ![p] = d]
  BY DEF Create
<1>2. place' = [place EXCEPT ![p] = "created"] /\ failed' = [failed EXCEPT ![p] = FALSE]
  BY DEF Create, Move
<1>3. UNCHANGED <<manifest, results, todo, seen>>
  BY DEF Create, cleanup
<1> USE <1>1, <1>2, <1>3 DEF Sound, WorkTypeOK, Apart
<1>4. Apart'
  OBVIOUS
<1>5. Unfinished'
  BY DEF Unfinished
<1>6. ActiveIsUntouched'
  BY DEF ActiveIsUntouched
<1>7. Exported' /\ CompletedHasResults'
  BY DEF Exported, CompletedHasResults
<1> QED BY <1>4, <1>5, <1>6, <1>7

LEMMA RunOutcome ==
  ASSUME WorkTypeOK, NEW p \in Workers, Outcome(p), Run(p), ~Create(p) PROVE Outcome(p)'
<1> USE DEF WorkTypeOK, Outcome, Move, WriteManifest, attempt, worker
<1>1. CASE Open(p) \/ Start(p) \/ Download(p)
  BY <1>1 DEF Open, Start, Download
<1>2. CASE Export(p)
  BY <1>2 DEF Export
<1>3. CASE RunFails(p)
  BY <1>3 DEF RunFails
<1>4. CASE Close(p)
  BY <1>4 DEF Close
<1>5. CASE Finish(p)
  BY <1>5 DEF Finish
<1>6. CASE WriteAnswer(p) \/ \E r \in Responses : OpenAnswer(p, r)
  BY <1>6 DEF WriteAnswer, OpenAnswer
<1> QED BY <1>1, <1>2, <1>3, <1>4, <1>5, <1>6 DEF Run

LEMMA OtherOutcome ==
  ASSUME WorkTypeOK, NEW p \in Workers, Outcome(p),
         Compact(p) \/ Clean(p) \/ Crash(p) \/ DiskFails(p)
  PROVE  Outcome(p)'
<1> USE DEF WorkTypeOK, Outcome, Move, WriteManifest, attempt, worker
<1>1. CASE Reopen(p) \/ Rewrite(p)
  BY <1>1 DEF Reopen, Rewrite
<1>2. CASE Look(p) \/ Compacted(p) \/ \E r \in Responses : CompactChunk(p, r)
  BY <1>2 DEF Look, Compacted, CompactChunk
<1>3. CASE RemoveIntermediate(p)
  BY <1>3 DEF RemoveIntermediate
<1>4. CASE Settle(p) \/ Leave(p) \/ Walked(p) \/ AllCleaned(p) \/ Again(p) \/ RefuseToClean(p)
  BY <1>4 DEF Settle, Leave, Walked, AllCleaned, Again, RefuseToClean
<1>5. CASE \E d \in Attempts : Visit(p, d) \/ Read(p, d)
  BY <1>5 DEF Visit, Read
<1>6. CASE SaveResponses(p) \/ CleanAudio(p) \/ AttemptCleaned(p) \/ \E r \in Responses : CleanChunk(p, r)
  BY <1>6 DEF SaveResponses, CleanAudio, CleanChunk, AttemptCleaned
<1>7. CASE Crash(p)
  BY <1>7 DEF Crash
<1>8. CASE DiskFails(p)
  BY <1>8 DEF DiskFails
<1>9. CASE OpenReceipt(p) \/ WriteReceipt(p) \/ \E d \in Attempts : RefuseResponses(p, d)
  BY <1>9 DEF OpenReceipt, WriteReceipt, RefuseResponses
<1> QED BY <1>1, <1>2, <1>3, <1>4, <1>5, <1>6, <1>7, <1>8, <1>9 DEF Compact, Clean

LEMMA SoundStep == Sound /\ [WorkNext]_workVars => Sound'
<1> SUFFICES ASSUME Sound, [WorkNext]_workVars PROVE Sound'
  OBVIOUS
<1>1. WorkTypeOK'
  BY TypeStep DEF Sound
<1>2. ASSUME NEW p \in Workers, Run(p) \/ Compact(p) \/ Clean(p) \/ Crash(p) \/ DiskFails(p),
             ~Create(p)
      PROVE  Sound'
  <2>1. Local(p)
    BY <1>2, RunIsLocal, CompactIsLocal, CleanIsLocal, FailureIsLocal DEF Sound
  <2>2. Apart' /\ Unfinished' /\ ActiveIsUntouched'
    BY <2>1, LocalSteps DEF Sound
  <2>3. Outcome(p)
    BY DEF Sound, Outcome, Exported, CompletedHasResults, WorkTypeOK
  <2>4. Outcome(p)'
    BY <1>2, <2>3, RunOutcome, OtherOutcome DEF Sound
  <2>5. Exported'
    BY <2>1, <2>4 DEF Local, Outcome, Sound, WorkTypeOK, Apart, Exported
  <2>6. CompletedHasResults'
    BY <2>1, <2>4 DEF Local, Outcome, Sound, WorkTypeOK, CompletedHasResults
  <2> QED BY <1>1, <2>2, <2>5, <2>6 DEF Sound
<1>3. CASE UNCHANGED workVars
  BY <1>1, <1>3 DEF workVars, attempt, worker, cleanup, Sound, Apart, Unfinished, ActiveIsUntouched,
    Exported, CompletedHasResults
<1> QED BY <1>1, <1>2, <1>3, CreateSteps DEF WorkNext, Sound

LEMMA WorkInv == WorkSpec => []Sound
<1>1. WorkInit => Sound
  <2> SUFFICES ASSUME WorkInit PROVE Sound
    OBVIOUS
  <2>1. WorkTypeOK
    BY TypeInit
  <2>2. Apart /\ Unfinished /\ ActiveIsUntouched /\ Exported /\ CompletedHasResults
    BY DEF WorkInit, Apart, Unfinished, ActiveIsUntouched, Exported, CompletedHasResults
  <2> QED BY <2>1, <2>2 DEF Sound
<1> QED BY <1>1, SoundStep, PTL DEF WorkSpec

(***************************************************************************)
(* No cleanup ever collects an attempt that a run still works in, whatever *)
(* begins or ends during its walk.                                         *)
(***************************************************************************)
THEOREM NothingActiveIsCleaned == WorkSpec => []ActiveIsUntouched
<1>1. Sound => ActiveIsUntouched
  BY DEF Sound
<1> QED BY <1>1, WorkInv, PTL

(* After any crash a manifest that says completed has its results beside it. *)
THEOREM CompletedAlwaysHasResults == WorkSpec => []CompletedHasResults
<1>1. Sound => CompletedHasResults
  BY DEF Sound
<1> QED BY <1>1, WorkInv, PTL
=============================================================================
