------------------------------ MODULE JobQueue ------------------------------
(***************************************************************************)
(* The production queue of the subtitle worker: the MongoDB documents the  *)
(* workers share (video_process, files, medias, settings, workers), the S3 *)
(* objects they upload, and the loop each worker process runs over them:   *)
(* Claim, resolve, the transcription handler, upload, settlement.          *)
(*                                                                         *)
(* One action is one database or storage call, or one stretch of local     *)
(* code between two calls, so that calls of several workers, of the admin  *)
(* and of a shutdown signal interleave as they do in production.  A call   *)
(* may fail, and a failed database write may have been applied all the     *)
(* same.  A publication is named by the claim token of the run that        *)
(* creates it: a run calls uploadSubtitle at most once.                    *)
(***************************************************************************)
EXTENDS Naturals, FiniteSets

CONSTANTS
  Jobs,             \* video_process documents with processType "subtitle"
  Files,            \* files documents
  FileOf,           \* the fileId of each job
  Rank,             \* position of a job under {priority: -1, createdAt: 1}
  Workers,          \* worker processes
  WorkerId,         \* the ID each is configured with: its lock excludes a second
                    \* process of that ID on one machine, not on another
  None,             \* no job, no worker ID
  MaxDisturbances   \* bound on crashes, signals, failed calls and admin edits

ASSUME ConstantsAssumption ==
  /\ FileOf \in [Jobs -> Files]
  /\ Rank \in [Jobs -> Nat]
  /\ DOMAIN WorkerId = Workers
  /\ None \notin Jobs \cup {WorkerId[w] : w \in Workers}
  /\ MaxDisturbances \in Nat

Ids == {WorkerId[w] : w \in Workers}

VARIABLES
  job,           \* the job documents
  file,          \* the file documents
  medias,        \* the subtitle media documents
  objects,       \* the publications whose S3 object exists
  enabled,       \* settings.subtitle_config.enabled
  permit,        \* workers.enable of each worker ID
  run,           \* the local state of each worker's job loop
  stopping,      \* is the process context of a worker cancelled?
  issued,        \* number of lease tokens issued so far
  disturbances   \* disturbances so far

vars == <<job, file, medias, objects, enabled, permit, run, stopping,
          issued, disturbances>>

Statuses == {"pending", "processing", "completed", "failed", "cancelled"}
Stages == {"none", "transcribe", "upload", "install", "completed", "no_speech"}
Causes == {"none", "lost", "parent"}
Verdicts == {"none", "pending", "completed", "failed"}

Claiming == {"idle", "read worker", "claim"}
Working == {"resolve", "transcribe", "transcribed", "report upload", "record",
            "put", "report uploaded", "report install", "read cause"}
Settling == {"verdict", "branch", "publish", "silence", "settle"}
Down == {"crashed", "stopped"}

(***************************************************************************)
(* A token is a number, 0 when the field is unset; an unset result is 0.   *)
(* expired says that leaseExpiresAt has passed on the clock of whoever     *)
(* looks, deferred that nextRetryAt is still ahead.                        *)
(***************************************************************************)
JobDocument ==
  [status : Statuses, worker : Ids \cup {None}, token : Nat,
   expired : BOOLEAN, deferred : BOOLEAN, attempts : SUBSET Nat,
   stage : Stages, result : Nat]

FileDocument == [trashed : BOOLEAN, subtitle : {"none", "completed", "no_speech"}]

MediaDocument == [job : Jobs, publication : Nat]

LocalState ==
  [at : Claiming \cup Working \cup Settling \cup Down, job : Jobs \cup {None},
   token : Nat, err : BOOLEAN, silent : BOOLEAN, uploaded : BOOLEAN,
   cause : Causes, verdict : Verdicts]

TypeOK ==
  /\ job \in [Jobs -> JobDocument]
  /\ file \in [Files -> FileDocument]
  /\ medias \in SUBSET MediaDocument
  /\ objects \in SUBSET Nat
  /\ enabled \in BOOLEAN
  /\ permit \in [Ids -> BOOLEAN]
  /\ run \in [Workers -> LocalState]
  /\ stopping \in [Workers -> BOOLEAN]
  /\ issued \in Nat
  /\ disturbances \in 0..MaxDisturbances

(* The state of a job loop between two jobs. *)
Waiting(place) ==
  [at |-> place, job |-> None, token |-> 0, err |-> FALSE, silent |-> FALSE,
   uploaded |-> FALSE, cause |-> "none", verdict |-> "none"]

(* A job that is pending or processing blocks new jobs for its file. *)
Open(j) == job[j].status \in {"pending", "processing"}

(* A job document before any worker has seen it. *)
Enqueued(status) ==
  [status |-> status, worker |-> None, token |-> 0, expired |-> FALSE,
   deferred |-> FALSE, attempts |-> {}, stage |-> "none", result |-> 0]

(* Each file has at most one open job, and may have older ones. *)
Init ==
  /\ job \in [Jobs -> {Enqueued("pending"), Enqueued("cancelled")}]
  /\ \A j, k \in Jobs : FileOf[j] = FileOf[k] /\ Open(j) /\ Open(k) => j = k
  /\ file = [f \in Files |-> [trashed |-> FALSE, subtitle |-> "none"]]
  /\ medias = {}
  /\ objects = {}
  /\ enabled = TRUE
  /\ permit = [i \in Ids |-> TRUE]
  /\ run = [w \in Workers |-> Waiting("idle")]
  /\ stopping = [w \in Workers |-> FALSE]
  /\ issued = 0
  /\ disturbances = 0

-----------------------------------------------------------------------------
(* Disturbances, and the outcome of a call. *)

(* Spend one unit of the bound on a disturbance. *)
Disturb == /\ disturbances < MaxDisturbances
           /\ disturbances' = disturbances + 1

(* A call on the process context fails: it was cancelled, or the call broke. *)
ClaimCallFails(w) == \/ stopping[w] /\ UNCHANGED disturbances
                     \/ Disturb

(* A call on the run's context fails: it was cancelled, or the call broke. *)
RunCallFails(w) == \/ run[w].cause # "none" /\ UNCHANGED disturbances
                   \/ Disturb

shared == <<job, file, medias, objects>>
admin == <<enabled, permit>>

At(w, place) == run[w].at = place
Goto(w, place) == run' = [run EXCEPT ![w].at = place]

(* Mutants: the filter forgets the token, the status, or both. *)
AnyTokenFilter(w, j) == job[j].status = "processing" /\ job[j].worker = WorkerId[w]
AnyStatusFilter(w, j) == job[j].worker = WorkerId[w] /\ job[j].token = run[w].token
WorkerOnlyFilter(w, j) == job[j].worker = WorkerId[w]

(* The filter that every queue write of a run carries. *)
ownerFilter(w, j) ==
  /\ job[j].status = "processing"
  /\ job[j].worker = WorkerId[w]
  /\ job[j].token = run[w].token

Owns(w) == run[w].job \in Jobs /\ ownerFilter(w, run[w].job)

(* Mutant: jobs whose lease has expired are not claimed again. *)
PendingOnlyFilter == {j \in Jobs : job[j].status = "pending" /\ ~job[j].deferred}

(* The jobs the claim query may return, whatever the order of the sort. *)
claimFilter ==
  {j \in Jobs : \/ job[j].status = "pending" /\ ~job[j].deferred
                \/ job[j].status = "processing" /\ job[j].expired}

-----------------------------------------------------------------------------
(* Claim. *)

(* Mutant: the setting is not looked at. *)
ReadSettingsUnchecked(w) ==
  /\ At(w, "idle") /\ ~stopping[w]
  /\ Goto(w, "read worker")
  /\ UNCHANGED <<shared, admin, stopping, issued, disturbances>>

(* The worker finds subtitle_config enabled. *)
ReadSettings(w) ==
  /\ At(w, "idle") /\ ~stopping[w] /\ enabled
  /\ Goto(w, "read worker")
  /\ UNCHANGED <<shared, admin, stopping, issued, disturbances>>

(* It reads its own worker document, and gives up if it is disabled. *)
ReadWorker(w) ==
  /\ At(w, "read worker") /\ ~stopping[w]
  /\ Goto(w, IF permit[WorkerId[w]] THEN "claim" ELSE "idle")
  /\ UNCHANGED <<shared, admin, stopping, issued, disturbances>>

(* FindOneAndUpdate hands job j to worker w under a fresh lease token. *)
Take(w, j) ==
  /\ j \in claimFilter
  /\ \A k \in claimFilter : Rank[j] <= Rank[k]
  /\ issued' = issued + 1
  /\ job' = [job EXCEPT ![j] = [@ EXCEPT !.status = "processing",
       !.worker = WorkerId[w], !.token = issued + 1, !.expired = FALSE,
       !.deferred = FALSE]]

(* Mutant: an expired job is taken over under the token it has. *)
ClaimKeepingToken(w, j) ==
  LET token == IF job[j].token = 0 THEN issued + 1 ELSE job[j].token IN
  /\ At(w, "claim") /\ ~stopping[w]
  /\ j \in claimFilter
  /\ issued' = issued + 1
  /\ job' = [job EXCEPT ![j] = [@ EXCEPT !.status = "processing",
       !.worker = WorkerId[w], !.token = token, !.expired = FALSE]]
  /\ run' = [run EXCEPT ![w] = [@ EXCEPT !.at = "resolve", !.job = j, !.token = token]]
  /\ UNCHANGED <<file, medias, objects, admin, stopping, disturbances>>

(* The worker claims the first eligible job and starts running it. *)
Claim(w, j) ==
  /\ At(w, "claim") /\ ~stopping[w]
  /\ Take(w, j)
  /\ run' = [run EXCEPT ![w] = [@ EXCEPT !.at = "resolve", !.job = j,
       !.token = issued + 1]]
  /\ UNCHANGED <<file, medias, objects, admin, stopping, disturbances>>

(* No job is eligible. *)
ClaimNothing(w) ==
  /\ At(w, "claim") /\ ~stopping[w] /\ claimFilter = {}
  /\ Goto(w, "idle")
  /\ UNCHANGED <<shared, admin, stopping, issued, disturbances>>

(* A call of Claim fails; the claim itself may have been applied unseen. *)
ClaimFails(w) ==
  /\ run[w].at \in {"read worker", "claim"}
  /\ ClaimCallFails(w)
  /\ Goto(w, "idle")
  /\ \/ UNCHANGED <<job, issued>>
     \/ At(w, "claim") /\ \E j \in Jobs : Take(w, j)
  /\ UNCHANGED <<file, medias, objects, admin, stopping>>

-----------------------------------------------------------------------------
(* The watcher of a run, and the progress calls of the handler. *)

(* The watcher renews the lease, or learns that the claim is gone. *)
Renew(w) ==
  /\ run[w].at \in Working /\ run[w].cause = "none"
  /\ IF Owns(w)
       THEN /\ job' = [job EXCEPT ![run[w].job].expired = FALSE]
            /\ UNCHANGED run
       ELSE /\ run' = [run EXCEPT ![w].cause = "lost"]
            /\ UNCHANGED job
  /\ UNCHANGED <<file, medias, objects, admin, stopping, issued, disturbances>>

(* A renewal that fails cancels the run, though it may have been applied. *)
RenewFails(w) ==
  /\ run[w].at \in Working /\ run[w].cause = "none"
  /\ Disturb
  /\ run' = [run EXCEPT ![w].cause = "lost"]
  /\ \/ UNCHANGED job
     \/ Owns(w) /\ job' = [job EXCEPT ![run[w].job].expired = FALSE]
  /\ UNCHANGED <<file, medias, objects, admin, stopping, issued>>

(* The handler reports progress; a report that fails cancels the run. *)
HandlerProgress(w) ==
  /\ At(w, "transcribe") /\ run[w].cause = "none"
  /\ \/ /\ Owns(w)
        /\ job' = [job EXCEPT ![run[w].job].stage = "transcribe"]
        /\ UNCHANGED <<run, disturbances>>
     \/ /\ (~Owns(w) /\ UNCHANGED disturbances) \/ Disturb
        /\ run' = [run EXCEPT ![w].cause = "lost"]
        /\ UNCHANGED job
  /\ UNCHANGED <<file, medias, objects, admin, stopping, issued>>

-----------------------------------------------------------------------------
(* Run, up to the end of the work. *)

(* The rest of the run is skipped because its error is set. *)
Fail(w) == run' = [run EXCEPT ![w] = [@ EXCEPT !.err = TRUE, !.at = "read cause"]]

(* The source file is there and its audio is found. *)
Resolve(w) ==
  /\ At(w, "resolve") /\ run[w].cause = "none"
  /\ ~file[FileOf[run[w].job]].trashed
  /\ Goto(w, "transcribe")
  /\ UNCHANGED <<shared, admin, stopping, issued, disturbances>>

(* The source is missing, not ready, trashed, invalid or cannot be read. *)
ResolveFails(w) ==
  /\ At(w, "resolve")
  /\ Fail(w)
  /\ UNCHANGED <<shared, admin, stopping, issued, disturbances>>

(* The handler returns: with subtitles, without speech, or with an error. *)
Transcribe(w) ==
  /\ At(w, "transcribe")
  /\ \/ Fail(w)
     \/ \E silent \in BOOLEAN :
          run' = [run EXCEPT ![w] = [@ EXCEPT !.silent = silent,
                                              !.at = "transcribed"]]
  /\ UNCHANGED <<shared, admin, stopping, issued, disturbances>>

(* Subtitles are uploaded, silence goes to installation at once. *)
AfterTranscription(w) ==
  /\ At(w, "transcribed")
  /\ Goto(w, IF run[w].cause # "none" THEN "read cause"
             ELSE IF run[w].silent THEN "report install" ELSE "report upload")
  /\ UNCHANGED <<shared, admin, stopping, issued, disturbances>>

(* reportProgress outside the handler: a failure is the run's error. *)
Report(w, stage, next) ==
  /\ \/ /\ run[w].cause = "none" /\ Owns(w)
        /\ job' = [job EXCEPT ![run[w].job].stage = stage]
        /\ Goto(w, next)
        /\ UNCHANGED disturbances
     \/ /\ (~Owns(w) /\ UNCHANGED disturbances) \/ RunCallFails(w)
        /\ Fail(w)
        /\ \/ UNCHANGED job
           \/ Owns(w) /\ job' = [job EXCEPT ![run[w].job].stage = stage]
  /\ UNCHANGED <<file, medias, objects, admin, stopping, issued>>

(* Mutant: the object is uploaded before the attempt is recorded. *)
ReportUploadThenPut(w) == At(w, "report upload") /\ Report(w, "upload", "put")

ReportUpload(w) == At(w, "report upload") /\ Report(w, "upload", "record")

(* No storage, no credentials or no artifact: nothing is recorded. *)
PrepareUploadFails(w) ==
  /\ At(w, "record")
  /\ Fail(w)
  /\ UNCHANGED <<shared, admin, stopping, issued, disturbances>>

(* The audit record of the upload is pushed on the job document. *)
PushAttempt(w) ==
  /\ Owns(w)
  /\ LET j == run[w].job IN
     job' = [job EXCEPT ![j] = [@ EXCEPT !.stage = "upload",
               !.attempts = job[j].attempts \cup {run[w].token}]]

RecordAttempt(w) ==
  /\ At(w, "record")
  /\ \/ /\ run[w].cause = "none" /\ PushAttempt(w)
        /\ Goto(w, "put")
        /\ UNCHANGED disturbances
     \/ /\ (~Owns(w) /\ UNCHANGED disturbances) \/ RunCallFails(w)
        /\ Fail(w)
        /\ UNCHANGED job \/ PushAttempt(w)
  /\ UNCHANGED <<file, medias, objects, admin, stopping, issued>>

(* The object is uploaded and its size verified. *)
PutObject(w) ==
  /\ At(w, "put") /\ run[w].cause = "none"
  /\ objects' = objects \cup {run[w].token}
  /\ run' = [run EXCEPT ![w] = [@ EXCEPT !.uploaded = TRUE,
                                         !.at = "report uploaded"]]
  /\ UNCHANGED <<job, file, medias, admin, stopping, issued, disturbances>>

(* Upload or verification fails, with or without an object left behind. *)
PutObjectFails(w) ==
  /\ At(w, "put")
  /\ objects' \in {objects, objects \cup {run[w].token}}
  /\ Fail(w)
  /\ UNCHANGED <<job, file, medias, admin, stopping, issued, disturbances>>

ReportUploaded(w) ==
  At(w, "report uploaded") /\ Report(w, "upload", "report install")

(* Skipped when the run's context is already cancelled. *)
ReportInstall(w) ==
  /\ At(w, "report install")
  /\ \/ Report(w, "install", "read cause")
     \/ /\ run[w].cause # "none"
        /\ Goto(w, "read cause")
        /\ UNCHANGED <<shared, admin, stopping, issued, disturbances>>

-----------------------------------------------------------------------------
(* Settlement. *)

(* A run that lost its lease returns; any other stops its watcher. *)
ReadCause(w) ==
  /\ At(w, "read cause")
  /\ run' = [run EXCEPT ![w] = IF @.cause = "lost" THEN Waiting("idle")
                               ELSE [@ EXCEPT !.at = "verdict"]]
  /\ UNCHANGED <<shared, admin, stopping, issued, disturbances>>

(* settleUpdate: the outcome the generic settlement would write. *)
settleUpdate(w) ==
  /\ At(w, "verdict")
  /\ run' = [run EXCEPT ![w] = [@ EXCEPT !.at = "branch",
       !.verdict = IF stopping[w] THEN "pending"
                   ELSE IF run[w].err THEN "failed" ELSE "completed"]]
  /\ UNCHANGED <<shared, admin, stopping, issued, disturbances>>

(* Mutant: the branch for silence is missing. *)
ChooseWithoutSilence(w) ==
  /\ At(w, "branch")
  /\ Goto(w, IF ~run[w].err /\ ~stopping[w] /\ run[w].uploaded
             THEN "publish" ELSE "settle")
  /\ UNCHANGED <<shared, admin, stopping, issued, disturbances>>

(* The process context is read again to choose how to settle. *)
ChooseSettlement(w) ==
  /\ At(w, "branch")
  /\ Goto(w, IF run[w].err \/ stopping[w] THEN "settle"
             ELSE IF run[w].uploaded THEN "publish"
             ELSE IF run[w].silent THEN "silence" ELSE "settle")
  /\ UNCHANGED <<shared, admin, stopping, issued, disturbances>>

Return(w) == run' = [run EXCEPT ![w] = Waiting("idle")]

(* Mutants: status and testStage are swapped; the result is forgotten. *)
CompletedSwapped(j, stage, result) ==
  job' = [job EXCEPT ![j] = [@ EXCEPT !.status = stage, !.token = 0,
            !.expired = FALSE, !.stage = "completed", !.result = result]]
CompletedWithoutResult(j, stage, result) ==
  job' = [job EXCEPT ![j] = [@ EXCEPT !.status = "completed", !.token = 0,
            !.expired = FALSE, !.stage = stage]]

(* The job document after a settlement as completed. *)
Completed(j, stage, result) ==
  job' = [job EXCEPT ![j] = [@ EXCEPT !.status = "completed", !.token = 0,
            !.expired = FALSE, !.stage = stage, !.result = result]]

MarkFile(j, mark) == file' = [file EXCEPT ![FileOf[j]].subtitle = mark]

(* Mutant: the trash is not looked at when publishing. *)
CommitEvenIfTrashed(w) ==
  /\ Owns(w)
  /\ Completed(run[w].job, "completed", run[w].token)
  /\ medias' = medias \cup {[job |-> run[w].job, publication |-> run[w].token]}
  /\ MarkFile(run[w].job, "completed")

(* The transaction that completes the job, adds its media, marks its file. *)
CommitPublication(w) ==
  /\ Owns(w)
  /\ ~file[FileOf[run[w].job]].trashed
  /\ Completed(run[w].job, "completed", run[w].token)
  /\ medias' = medias \cup {[job |-> run[w].job, publication |-> run[w].token]}
  /\ MarkFile(run[w].job, "completed")

(* A transaction: committed, refused by a filter, or broken either way. *)
Transaction(w, Commit) ==
  /\ \/ Commit /\ (UNCHANGED disturbances \/ Disturb)
     \/ /\ \/ /\ ~Owns(w) \/ file[FileOf[run[w].job]].trashed
              /\ UNCHANGED disturbances
           \/ Disturb
        /\ UNCHANGED <<job, file, medias>>
  /\ Return(w)
  /\ UNCHANGED <<objects, admin, stopping, issued>>

settlePublished(w) ==
  At(w, "publish") /\ Transaction(w, CommitPublication(w))

(* Mutant: silence marks the file as if it had been published. *)
CommitSilenceAsCompleted(w) ==
  /\ Owns(w)
  /\ ~file[FileOf[run[w].job]].trashed
  /\ Completed(run[w].job, "no_speech", job[run[w].job].result)
  /\ MarkFile(run[w].job, "completed")
  /\ UNCHANGED medias

(* The transaction that completes a job without speech and marks its file. *)
CommitNoSpeech(w) ==
  /\ Owns(w)
  /\ ~file[FileOf[run[w].job]].trashed
  /\ Completed(run[w].job, "no_speech", job[run[w].job].result)
  /\ MarkFile(run[w].job, "no_speech")
  /\ UNCHANGED medias

settleNoSpeech(w) ==
  At(w, "silence") /\ Transaction(w, CommitNoSpeech(w))

(* The single update of every other outcome: shutdown gives the job back. *)
GiveBack(j) ==
  job' = [job EXCEPT ![j] = [@ EXCEPT !.status = "pending", !.worker = None,
            !.token = 0, !.expired = FALSE]]

MarkFailed(j) ==
  job' = [job EXCEPT ![j] = [@ EXCEPT !.status = "failed", !.token = 0,
            !.expired = FALSE]]

ApplyVerdict(w) ==
  /\ Owns(w)
  /\ \E j \in Jobs :
       /\ run[w].job = j
       /\ \/ run[w].verdict = "pending" /\ GiveBack(j)
          \/ run[w].verdict = "failed" /\ MarkFailed(j)
          \/ run[w].verdict = "completed" /\ Completed(j, "completed", job[j].result)

settleGeneric(w) ==
  /\ At(w, "settle")
  /\ \/ ApplyVerdict(w) /\ (UNCHANGED disturbances \/ Disturb)
     \/ ((~Owns(w) /\ UNCHANGED disturbances) \/ Disturb) /\ UNCHANGED job
  /\ Return(w)
  /\ UNCHANGED <<file, medias, objects, admin, stopping, issued>>

-----------------------------------------------------------------------------
(* Processes, time and the admin. *)

(* SIGTERM or SIGINT cancels the process context, and the run's with it. *)
Shutdown(w) ==
  /\ run[w].at \notin Down /\ ~stopping[w]
  /\ Disturb
  /\ stopping' = [stopping EXCEPT ![w] = TRUE]
  /\ run' = [run EXCEPT ![w].cause =
       IF run[w].at \in Working /\ @ = "none" THEN "parent" ELSE @]
  /\ UNCHANGED <<shared, admin, issued>>

(* The loop of a stopping process exits between two jobs. *)
Exit(w) ==
  /\ At(w, "idle") /\ stopping[w]
  /\ run' = [run EXCEPT ![w] = Waiting("stopped")]
  /\ stopping' = [stopping EXCEPT ![w] = FALSE]
  /\ UNCHANGED <<shared, admin, issued, disturbances>>

(* The process dies with everything it had not written. *)
Crash(w) ==
  /\ run[w].at \notin Down
  /\ Disturb
  /\ run' = [run EXCEPT ![w] = Waiting("crashed")]
  /\ stopping' = [stopping EXCEPT ![w] = FALSE]
  /\ UNCHANGED <<shared, admin, issued>>

(* The service manager restarts a crashed process. *)
Restart(w) ==
  /\ At(w, "crashed")
  /\ Goto(w, "idle")
  /\ UNCHANGED <<shared, admin, stopping, issued, disturbances>>

(* The operator starts a stopped one. *)
Start(w) ==
  /\ At(w, "stopped")
  /\ Goto(w, "idle")
  /\ UNCHANGED <<shared, admin, stopping, issued, disturbances>>

(* Is a live process running job j under its current claim? *)
Attended(j) == \E w \in Workers : run[w].job = j /\ ownerFilter(w, j)

(* The lease of j passes: when its owner is gone, or is paused too long. *)
LeaseExpires(j) ==
  /\ job[j].status = "processing" /\ ~job[j].expired
  /\ (~Attended(j) /\ UNCHANGED disturbances) \/ Disturb
  /\ job' = [job EXCEPT ![j].expired = TRUE]
  /\ UNCHANGED <<file, medias, objects, admin, run, stopping, issued>>

(* The nextRetryAt of j passes. *)
RetryDue(j) ==
  /\ job[j].status = "pending" /\ job[j].deferred
  /\ job' = [job EXCEPT ![j].deferred = FALSE]
  /\ UNCHANGED <<file, medias, objects, admin, run, stopping, issued, disturbances>>

(* The admin cancels a job that is not settled. *)
CancelJob(j) ==
  /\ job[j].status \in {"pending", "processing"}
  /\ Disturb
  /\ job' = [job EXCEPT ![j].status = "cancelled"]
  /\ UNCHANGED <<file, medias, objects, admin, run, stopping, issued>>

(* The admin retries a failed or cancelled job of a file that has no open
   one (a unique index sees to that), to be claimed at once or later. *)
RetryJob(j) ==
  /\ job[j].status \in {"failed", "cancelled"}
  /\ \A k \in Jobs : FileOf[k] = FileOf[j] => ~Open(k)
  /\ Disturb
  /\ \E later \in BOOLEAN :
       job' = [job EXCEPT ![j] = [@ EXCEPT !.status = "pending", !.worker = None,
                 !.token = 0, !.expired = FALSE, !.deferred = later]]
  /\ UNCHANGED <<file, medias, objects, admin, run, stopping, issued>>

TrashFile(f) ==
  /\ ~file[f].trashed
  /\ Disturb
  /\ file' = [file EXCEPT ![f].trashed = TRUE]
  /\ UNCHANGED <<job, medias, objects, admin, run, stopping, issued>>

(* The admin turns the queue, or one worker, off or on again. *)
ToggleQueue ==
  /\ IF enabled THEN Disturb ELSE UNCHANGED disturbances
  /\ enabled' = ~enabled
  /\ UNCHANGED <<shared, permit, run, stopping, issued>>

ToggleWorker(i) ==
  /\ IF permit[i] THEN Disturb ELSE UNCHANGED disturbances
  /\ permit' = [permit EXCEPT ![i] = ~@]
  /\ UNCHANGED <<shared, enabled, run, stopping, issued>>

-----------------------------------------------------------------------------
(* What the loop of a worker does by itself. *)
Loop(w) ==
  \/ ReadSettings(w) \/ ReadWorker(w) \/ (\E j \in Jobs : Claim(w, j))
  \/ ClaimNothing(w) \/ ClaimFails(w)
  \/ Resolve(w) \/ ResolveFails(w) \/ Transcribe(w) \/ AfterTranscription(w)
  \/ ReportUpload(w) \/ PrepareUploadFails(w) \/ RecordAttempt(w)
  \/ PutObject(w) \/ PutObjectFails(w) \/ ReportUploaded(w) \/ ReportInstall(w)
  \/ ReadCause(w) \/ settleUpdate(w) \/ ChooseSettlement(w)
  \/ settlePublished(w) \/ settleNoSpeech(w) \/ settleGeneric(w)
  \/ Exit(w)

Watcher(w) == Renew(w) \/ RenewFails(w) \/ HandlerProgress(w)

Process(w) == Shutdown(w) \/ Crash(w) \/ Restart(w) \/ Start(w)

Environment ==
  \/ \E j \in Jobs : LeaseExpires(j) \/ RetryDue(j) \/ CancelJob(j) \/ RetryJob(j)
  \/ \E f \in Files : TrashFile(f)
  \/ ToggleQueue
  \/ \E i \in Ids : ToggleWorker(i)

Next ==
  \/ \E w \in Workers : Loop(w) \/ Watcher(w) \/ Process(w)
  \/ Environment

Spec == Init /\ [][Next]_vars

(***************************************************************************)
(* The loop of a live process goes on, a crashed service is restarted      *)
(* (Restart=on-failure), and time passes.                                  *)
(***************************************************************************)
Fairness ==
  /\ \A w \in Workers : WF_vars(Loop(w)) /\ WF_vars(Restart(w))
  /\ \A j \in Jobs : WF_vars(~Attended(j) /\ LeaseExpires(j)) /\ WF_vars(RetryDue(j))

FairSpec == Spec /\ Fairness
-----------------------------------------------------------------------------
(* Properties. *)

(***************************************************************************)
(* However often a job is claimed, taken over, given back or retried, and  *)
(* whichever commit is reported as failed, it gets at most one media.      *)
(***************************************************************************)
OneMediaPerJob == \A m, n \in medias : m.job = n.job => m = n

(***************************************************************************)
(* A media always points at an uploaded object, recorded as an attempt of  *)
(* its job, and its job is completed with that media as its result.        *)
(***************************************************************************)
MediaIsBacked ==
  \A m \in medias :
    /\ m.publication \in objects
    /\ m.publication \in job[m.job].attempts
    /\ job[m.job].status = "completed"
    /\ job[m.job].result = m.publication

(***************************************************************************)
(* Every object in storage can be found again from the upload attempts of  *)
(* some job, also when its run crashed, failed or lost the lease.          *)
(***************************************************************************)
ObjectsAreRecorded == \A p \in objects : \E j \in Jobs : p \in job[j].attempts

(***************************************************************************)
(* What is published comes from the newest run that got as far as an       *)
(* upload: no run with an older claim wins over it.                        *)
(***************************************************************************)
NewestAttemptWins ==
  \A m \in medias : \A a \in job[m.job].attempts : a <= m.publication

(***************************************************************************)
(* The subtitle mark of a file agrees with what its jobs produced.         *)
(***************************************************************************)
FileMarksAreEarned ==
  \A f \in Files :
    /\ file[f].subtitle = "completed" => \E m \in medias : FileOf[m.job] = f
    /\ file[f].subtitle = "no_speech" =>
         \E j \in Jobs : /\ FileOf[j] = f
                         /\ job[j].status = "completed"
                         /\ job[j].stage = "no_speech"
    /\ file[f].subtitle = "none" => \A m \in medias : FileOf[m.job] # f

(* Worker w runs job j under the claim the job document carries. *)
HoldsClaim(w, j) ==
  /\ run[w].job = j
  /\ run[w].token = job[j].token
  /\ job[j].status = "processing"

(***************************************************************************)
(* Two runs never hold the claim of one job together, even in processes    *)
(* configured with the same worker ID: what the token is for.              *)
(***************************************************************************)
OneHolder ==
  \A j \in Jobs : \A v, w \in Workers : HoldsClaim(v, j) /\ HoldsClaim(w, j) => v = w

(* The step is one of the run of worker w, of its loop or of its watcher. *)
Acts(w) == Loop(w) \/ Watcher(w)

(* The step gives job j an attempt, a stage or an outcome. *)
Written(j) ==
  \/ job'[j].attempts # job[j].attempts
  \/ job'[j].stage # job[j].stage
  \/ job'[j].status \in {"completed", "failed"} \ {job[j].status}

WrittenByHolder ==
  \A j \in Jobs : Written(j) =>
    /\ \E w \in Workers : Acts(w)
    /\ \A w \in Workers : Acts(w) => HoldsClaim(w, j)

(***************************************************************************)
(* A step that settles a job, records an upload attempt or moves the stage *)
(* is a step of the run that holds the current claim.  A stale run, whose  *)
(* claim was taken over, cancelled or retried, writes none of them, also   *)
(* while its successor is alive.                                           *)
(***************************************************************************)
OnlyHolderWrites == [][WrittenByHolder]_vars

(***************************************************************************)
(* A settled or cancelled job is frozen: only the admin's retry of a       *)
(* failed or cancelled job reopens it, and it keeps its upload attempts.   *)
(***************************************************************************)
SettledIsFinal ==
  [][\A j \in Jobs :
       job[j].status \in {"completed", "failed", "cancelled"} =>
         /\ job'[j].attempts = job[j].attempts
         /\ job'[j].stage = job[j].stage
         /\ job'[j].result = job[j].result
         /\ \/ job'[j].status = job[j].status
            \/ job[j].status # "completed" /\ job'[j].status = "pending"]_vars

(***************************************************************************)
(* Media, file mark and job completion appear in one step, for a file that *)
(* is not trashed, under a claim that is still held.                       *)
(***************************************************************************)
PublicationIsAtomic ==
  [][/\ \A m \in medias' \ medias :
          /\ \E w \in Workers : HoldsClaim(w, m.job)
          /\ job'[m.job].status = "completed"
          /\ file'[FileOf[m.job]] = [trashed |-> FALSE, subtitle |-> "completed"]
     /\ \A f \in Files :
          file'[f].subtitle # file[f].subtitle =>
            \E j \in Jobs : /\ FileOf[j] = f
                            /\ \E w \in Workers : HoldsClaim(w, j)
                            /\ job'[j].status = "completed"]_vars

(* A completed job that has neither a media nor the no_speech mark. *)
Hollow(j) == /\ job[j].status = "completed"
             /\ job[j].result = 0
             /\ job[j].stage # "no_speech"

(***************************************************************************)
(* A job is completed with nothing to show for it only when the signal to  *)
(* stop arrives between the two reads of the process context in Run.       *)
(***************************************************************************)
HollowOnlyOnShutdown ==
  [][\A j \in Jobs : ~Hollow(j) /\ Hollow(j)' =>
       \E w \in Workers : /\ HoldsClaim(w, j)
                          /\ stopping[w]
                          /\ run[w].verdict = "completed"]_vars

(***************************************************************************)
(* What the README says of the production flow: a completed job has        *)
(* published its media or marked its file no_speech.                       *)
(***************************************************************************)
CompletedHasOutcome == \A j \in Jobs : ~Hollow(j)

(* A worker that is up and allowed to claim. *)
Serving(w) == /\ enabled /\ permit[WorkerId[w]]
              /\ ~stopping[w] /\ run[w].at # "stopped"

Settled(j) == job[j].status \in {"completed", "failed", "cancelled"}

(***************************************************************************)
(* If some worker keeps serving, every job is in the end settled for good: *)
(* crashes, lost leases, failed calls and shutdowns only delay it.         *)
(***************************************************************************)
JobsSettle ==
  (\E w \in Workers : <>[]Serving(w)) => <>[](\A j \in Jobs : Settled(j))

(***************************************************************************)
(* Once the queue is disabled for good, every worker finishes what it has  *)
(* claimed and stays idle.                                                 *)
(***************************************************************************)
DisabledQueueDrains ==
  <>[]~enabled => <>[](\A w \in Workers : run[w].at \in {"idle"} \cup Down)

-----------------------------------------------------------------------------
(* The inductive strengthening of the safety invariants. *)

(* A run carries the token of its claim, and what it uploads is recorded. *)
RunIsTagged(w) ==
  /\ run[w].token <= issued
  /\ run[w].at \in Working \cup Settling => run[w].job \in Jobs /\ run[w].token # 0
  /\ run[w].at = "put" => /\ run[w].job \in Jobs
                          /\ run[w].token \in job[run[w].job].attempts
  /\ run[w].uploaded => /\ run[w].at \in Working \cup Settling
                        /\ run[w].job \in Jobs
                        /\ run[w].token \in job[run[w].job].attempts
                        /\ run[w].token \in objects
  /\ run[w].at = "publish" => run[w].uploaded

(* A processing job carries a token no older than any of its attempts. *)
JobIsTagged(j) ==
  /\ job[j].token <= issued
  /\ \A a \in job[j].attempts : a <= issued
  /\ job[j].status = "processing" =>
       /\ job[j].token # 0
       /\ \A a \in job[j].attempts : a <= job[j].token
  /\ job[j].result # 0 => job[j].status = "completed"

TokensAreUnique ==
  \A v, w \in Workers : run[v].token = run[w].token /\ run[v].token # 0 => v = w

(***************************************************************************)
(* Tokens and attempts tell claims apart: the reason why a stale run can   *)
(* neither publish nor hide what a newer one did.                          *)
(***************************************************************************)
Fencing ==
  /\ \A w \in Workers : RunIsTagged(w)
  /\ \A j \in Jobs : JobIsTagged(j)
  /\ TokensAreUnique
  /\ MediaIsBacked
  /\ ObjectsAreRecorded
  /\ NewestAttemptWins
=============================================================================
