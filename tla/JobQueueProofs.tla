--------------------------- MODULE JobQueueProofs ---------------------------
(***************************************************************************)
(* Proofs about JobQueue for every set of jobs, files and workers: types,  *)
(* fencing, verdicts, what each step does to the documents, and the        *)
(* refinement of QueueContract.                                            *)
(***************************************************************************)
EXTENDS JobQueueRefinement, TLAPS

-----------------------------------------------------------------------------
(* Type correctness. *)

Places == Claiming \cup Working \cup Settling \cup Down

(* A job loop that moves, fails or returns keeps its type. *)
LEMMA LocalTypes ==
  ASSUME TypeOK, NEW w \in Workers
  PROVE  /\ \A place \in Places : Goto(w, place) => run' \in [Workers -> LocalState]
         /\ \A place \in Places : Waiting(place) \in LocalState
         /\ Fail(w) => run' \in [Workers -> LocalState]
         /\ Return(w) => run' \in [Workers -> LocalState]
<1>1. run[w] \in LocalState
  BY DEF TypeOK
<1>2. \A place \in Places : Waiting(place) \in LocalState
  BY DEF LocalState, Waiting, Causes, Verdicts, Places
<1>3. \A place \in Places : [run[w] EXCEPT !.at = place] \in LocalState
  BY <1>1 DEF LocalState, Places
<1>4. [run[w] EXCEPT !.err = TRUE, !.at = "read cause"] \in LocalState
  BY <1>1 DEF LocalState, Working
<1>5. \A l \in LocalState : [run EXCEPT ![w] = l] \in [Workers -> LocalState]
  BY DEF TypeOK
<1>6. "idle" \in Places
  BY DEF Places, Claiming
<1>7. ASSUME NEW place \in Places, Goto(w, place) PROVE run' \in [Workers -> LocalState]
  BY <1>3, <1>5, <1>7 DEF Goto
<1> QED BY <1>2, <1>4, <1>5, <1>6, <1>7 DEF Fail, Return

LEMMA TypeInit == Init => TypeOK
<1> SUFFICES ASSUME Init PROVE TypeOK
  OBVIOUS
<1>1. Enqueued("pending") \in JobDocument /\ Enqueued("cancelled") \in JobDocument
  BY DEF Enqueued, JobDocument, Statuses, Stages
<1>2. job \in [Jobs -> JobDocument]
  BY <1>1 DEF Init
<1>3. run \in [Workers -> LocalState] /\ file \in [Files -> FileDocument]
  BY DEF Init, Waiting, LocalState, FileDocument, Claiming, Causes, Verdicts
<1> QED BY <1>2, <1>3, ConstantsAssumption DEF Init, TypeOK, MediaDocument

LEMMA TypeTake ==
  ASSUME TypeOK, NEW w \in Workers, NEW j \in Jobs, Take(w, j)
  PROVE  job' \in [Jobs -> JobDocument] /\ issued' \in Nat
<1>1. issued + 1 \in Nat /\ WorkerId[w] \in Ids /\ job[j] \in JobDocument
  BY DEF TypeOK, Ids
<1>2. [job[j] EXCEPT !.status = "processing", !.worker = WorkerId[w],
         !.token = issued + 1, !.expired = FALSE, !.deferred = FALSE] \in JobDocument
  BY <1>1 DEF JobDocument, Statuses
<1> QED BY <1>1, <1>2 DEF Take, TypeOK

LEMMA TypeDisturbances ==
  ASSUME TypeOK, Disturb PROVE disturbances' \in 0..MaxDisturbances
BY ConstantsAssumption DEF TypeOK, Disturb

LEMMA TypeClaim ==
  ASSUME TypeOK, NEW w \in Workers,
         \/ ReadSettings(w) \/ ReadWorker(w) \/ (\E j \in Jobs : Claim(w, j))
         \/ ClaimNothing(w) \/ ClaimFails(w)
  PROVE  TypeOK'
<1> USE DEF shared, admin
<1>3. CASE ReadSettings(w)
  BY <1>3, LocalTypes DEF ReadSettings, TypeOK, Claiming, Places
<1>4. CASE ReadWorker(w)
  BY <1>4, LocalTypes DEF ReadWorker, TypeOK, Claiming, Places
<1>5. ASSUME NEW j \in Jobs, Claim(w, j) PROVE TypeOK'
  <2>1. run[w] \in LocalState /\ issued + 1 \in Nat
    BY DEF TypeOK
  <2>2. [run[w] EXCEPT !.at = "resolve", !.job = j, !.token = issued + 1] \in LocalState
    BY <2>1 DEF LocalState, Working
  <2>3. run' \in [Workers -> LocalState]
    BY <1>5, <2>2 DEF Claim, TypeOK
  <2> QED BY <1>5, <2>3, TypeTake DEF Claim, TypeOK
<1>6. CASE ClaimNothing(w)
  BY <1>6, LocalTypes DEF ClaimNothing, TypeOK, Claiming, Places
<1>7. CASE ClaimFails(w)
  BY <1>7, LocalTypes, TypeTake, TypeDisturbances DEF ClaimFails, ClaimCallFails, TypeOK, Claiming, Places
<1> QED BY <1>3, <1>4, <1>5, <1>6, <1>7

LEMMA TypeWatcher ==
  ASSUME TypeOK, NEW w \in Workers, Watcher(w)
  PROVE  TypeOK'
<1> USE DEF shared, admin
<1>1. run[w] \in LocalState
  BY DEF TypeOK
<1>2. [run[w] EXCEPT !.cause = "lost"] \in LocalState
  BY <1>1 DEF LocalState, Causes
<1>3. \A j \in Jobs : /\ [job[j] EXCEPT !.expired = FALSE] \in JobDocument
                      /\ [job[j] EXCEPT !.stage = "transcribe"] \in JobDocument
  BY DEF TypeOK, JobDocument, Stages
<1>4. Owns(w) => run[w].job \in Jobs
  BY DEF Owns
<1>5. CASE Renew(w)
  BY <1>2, <1>3, <1>4, <1>5 DEF Renew, TypeOK
<1>6. CASE RenewFails(w)
  BY <1>2, <1>3, <1>4, <1>6, TypeDisturbances DEF RenewFails, TypeOK
<1>7. CASE HandlerProgress(w)
  BY <1>2, <1>3, <1>4, <1>7, TypeDisturbances DEF HandlerProgress, TypeOK
<1> QED BY <1>5, <1>6, <1>7 DEF Watcher

LEMMA TypeReport ==
  ASSUME TypeOK, NEW w \in Workers, NEW stage \in Stages, NEW next \in Places,
         Report(w, stage, next)
  PROVE  TypeOK'
<1>1. \A j \in Jobs : [job[j] EXCEPT !.stage = stage] \in JobDocument
  BY DEF TypeOK, JobDocument
<1>2. Owns(w) => run[w].job \in Jobs
  BY DEF Owns
<1>3. disturbances' \in 0..MaxDisturbances
  BY TypeDisturbances DEF Report, RunCallFails, TypeOK
<1>4. run' \in [Workers -> LocalState]
  BY LocalTypes DEF Report
<1>5. job' \in [Jobs -> JobDocument]
  BY <1>1, <1>2 DEF Report, TypeOK
<1> QED BY <1>3, <1>4, <1>5 DEF Report, TypeOK, admin

LEMMA TypeWork ==
  ASSUME TypeOK, NEW w \in Workers,
         \/ Resolve(w) \/ ResolveFails(w) \/ Transcribe(w) \/ AfterTranscription(w)
         \/ ReportUpload(w) \/ PrepareUploadFails(w) \/ RecordAttempt(w)
         \/ PutObject(w) \/ PutObjectFails(w) \/ ReportUploaded(w) \/ ReportInstall(w)
  PROVE  TypeOK'
<1> USE DEF shared, admin
<1>1. run[w] \in LocalState /\ run[w].token \in Nat
  BY DEF TypeOK, LocalState
<1>2. {"upload", "install"} \subseteq Stages /\ Working \subseteq Places
  BY DEF Stages, Places
<1>3. CASE Resolve(w)
  BY <1>2, <1>3, LocalTypes DEF Resolve, TypeOK, Working
<1>4. CASE ResolveFails(w)
  BY <1>4, LocalTypes DEF ResolveFails, TypeOK
<1>5. CASE Transcribe(w)
  <2>1. \A silent \in BOOLEAN :
          [run[w] EXCEPT !.silent = silent, !.at = "transcribed"] \in LocalState
    BY <1>1 DEF LocalState, Working
  <2>2. run' \in [Workers -> LocalState]
    BY <1>5, <2>1, LocalTypes DEF Transcribe, TypeOK
  <2> QED BY <1>5, <2>2 DEF Transcribe, TypeOK
<1>6. CASE AfterTranscription(w)
  BY <1>2, <1>6, LocalTypes DEF AfterTranscription, TypeOK, Working
<1>7. CASE ReportUpload(w)
  BY <1>2, <1>7, TypeReport DEF ReportUpload, Working
<1>8. CASE PrepareUploadFails(w)
  BY <1>8, LocalTypes DEF PrepareUploadFails, TypeOK
<1>9. CASE RecordAttempt(w)
  <2>1. Owns(w) => run[w].job \in Jobs
    BY DEF Owns
  <2>2. \A j \in Jobs : job[j] \in JobDocument /\ job[j].attempts \cup {run[w].token} \in SUBSET Nat
    BY <1>1 DEF TypeOK, JobDocument
  <2>3. \A j \in Jobs :
          [job[j] EXCEPT !.stage = "upload",
             !.attempts = job[j].attempts \cup {run[w].token}] \in JobDocument
    BY <2>2 DEF JobDocument, Stages
  <2>4. job' \in [Jobs -> JobDocument]
    <3>1. ASSUME PushAttempt(w) PROVE job' \in [Jobs -> JobDocument]
      BY <2>1, <2>3, <3>1 DEF PushAttempt, TypeOK
    <3> QED BY <1>9, <3>1 DEF RecordAttempt, TypeOK
  <2>5. run' \in [Workers -> LocalState]
    BY <1>2, <1>9, LocalTypes DEF RecordAttempt, Working
  <2>6. disturbances' \in 0..MaxDisturbances
    BY <1>9, TypeDisturbances DEF RecordAttempt, RunCallFails, TypeOK
  <2> QED BY <1>9, <2>4, <2>5, <2>6 DEF RecordAttempt, TypeOK
<1>10. CASE PutObject(w)
  <2>1. [run[w] EXCEPT !.uploaded = TRUE, !.at = "report uploaded"] \in LocalState
    BY <1>1 DEF LocalState, Working
  <2> QED BY <1>1, <1>10, <2>1 DEF PutObject, TypeOK
<1>11. CASE PutObjectFails(w)
  BY <1>1, <1>11, LocalTypes DEF PutObjectFails, TypeOK
<1>12. CASE ReportUploaded(w)
  BY <1>2, <1>12, TypeReport DEF ReportUploaded, Working
<1>13. CASE ReportInstall(w)
  BY <1>2, <1>13, TypeReport, LocalTypes DEF ReportInstall, TypeOK, Working
<1> QED BY <1>3, <1>4, <1>5, <1>6, <1>7, <1>8, <1>9, <1>10, <1>11, <1>12, <1>13

(* A settlement of any kind writes a well-formed job document. *)
LEMMA TypeCompleted ==
  ASSUME TypeOK, NEW j \in Jobs, NEW stage \in Stages, NEW result \in Nat,
         Completed(j, stage, result)
  PROVE  job' \in [Jobs -> JobDocument]
<1>1. [job[j] EXCEPT !.status = "completed", !.token = 0, !.expired = FALSE,
         !.stage = stage, !.result = result] \in JobDocument
  <2>1. job[j] \in JobDocument
    BY DEF TypeOK
  <2> QED BY <2>1 DEF JobDocument, Statuses
<1> QED BY <1>1 DEF Completed, TypeOK

LEMMA TypeMark ==
  ASSUME TypeOK, NEW j \in Jobs, NEW mark \in {"completed", "no_speech"}, MarkFile(j, mark)
  PROVE  file' \in [Files -> FileDocument]
<1>1. FileOf[j] \in Files
  BY ConstantsAssumption
<1>2. [file[FileOf[j]] EXCEPT !.subtitle = mark] \in FileDocument
  BY <1>1 DEF TypeOK, FileDocument
<1> QED BY <1>2 DEF MarkFile, TypeOK

LEMMA TypeTransaction ==
  ASSUME TypeOK, NEW w \in Workers, NEW Commit, Transaction(w, Commit),
         Commit => /\ job' \in [Jobs -> JobDocument]
                   /\ file' \in [Files -> FileDocument]
                   /\ medias' \in SUBSET MediaDocument
  PROVE  TypeOK'
BY LocalTypes, TypeDisturbances DEF Transaction, TypeOK, admin

LEMMA TypeVerdict ==
  ASSUME TypeOK, NEW w \in Workers, ApplyVerdict(w)
  PROVE  job' \in [Jobs -> JobDocument]
<1>1. PICK j \in Jobs : \/ GiveBack(j) \/ MarkFailed(j)
                       \/ Completed(j, "completed", job[j].result)
  BY DEF ApplyVerdict
<1>2. [job[j] EXCEPT !.status = "pending", !.worker = None, !.token = 0,
         !.expired = FALSE] \in JobDocument
  <2>1. job[j] \in JobDocument
    BY DEF TypeOK
  <2> QED BY <2>1 DEF JobDocument, Statuses
<1>3. [job[j] EXCEPT !.status = "failed", !.token = 0, !.expired = FALSE] \in JobDocument
  <2>1. job[j] \in JobDocument
    BY DEF TypeOK
  <2> QED BY <2>1 DEF JobDocument, Statuses
<1>4. "completed" \in Stages /\ job[j].result \in Nat
  BY DEF Stages, TypeOK, JobDocument
<1> QED BY <1>1, <1>2, <1>3, <1>4, TypeCompleted DEF GiveBack, MarkFailed, TypeOK

LEMMA TypeSettle ==
  ASSUME TypeOK, NEW w \in Workers,
         \/ ReadCause(w) \/ settleUpdate(w) \/ ChooseSettlement(w)
         \/ settlePublished(w) \/ settleNoSpeech(w) \/ settleGeneric(w)
  PROVE  TypeOK'
<1> USE DEF shared, admin
<1>1. run[w] \in LocalState /\ run[w].token \in Nat
  BY DEF TypeOK, LocalState
<1>2. Settling \subseteq Places /\ "idle" \in Places
  BY DEF Places, Claiming
<1>3. CASE ReadCause(w)
  <2>1. [run[w] EXCEPT !.at = "verdict"] \in LocalState
    BY <1>1 DEF LocalState, Settling
  <2> QED BY <1>2, <1>3, <2>1, LocalTypes DEF ReadCause, TypeOK
<1>4. CASE settleUpdate(w)
  <2>1. \A verdict \in Verdicts :
          [run[w] EXCEPT !.at = "branch", !.verdict = verdict] \in LocalState
    BY <1>1 DEF LocalState, Settling
  <2> QED BY <1>4, <2>1 DEF settleUpdate, TypeOK, Verdicts
<1>5. CASE ChooseSettlement(w)
  BY <1>2, <1>5, LocalTypes DEF ChooseSettlement, TypeOK, Settling
<1>6. CASE settlePublished(w)
  <2>1. ASSUME CommitPublication(w)
        PROVE  /\ job' \in [Jobs -> JobDocument]
               /\ file' \in [Files -> FileDocument]
               /\ medias' \in SUBSET MediaDocument
    <3>1. run[w].job \in Jobs
      BY <2>1 DEF CommitPublication, Owns
    <3>2. job' \in [Jobs -> JobDocument]
      BY <1>1, <2>1, <3>1, TypeCompleted DEF CommitPublication, Stages
    <3>3. file' \in [Files -> FileDocument]
      BY <2>1, <3>1, TypeMark DEF CommitPublication
    <3>4. medias' \in SUBSET MediaDocument
      BY <1>1, <2>1, <3>1 DEF CommitPublication, MediaDocument, TypeOK
    <3> QED BY <3>2, <3>3, <3>4
  <2> QED BY <1>6, <2>1, TypeTransaction DEF settlePublished
<1>7. CASE settleNoSpeech(w)
  <2>1. ASSUME CommitNoSpeech(w)
        PROVE  /\ job' \in [Jobs -> JobDocument]
               /\ file' \in [Files -> FileDocument]
               /\ medias' \in SUBSET MediaDocument
    <3>1. run[w].job \in Jobs /\ job[run[w].job].result \in Nat
      BY <2>1 DEF CommitNoSpeech, Owns, TypeOK, JobDocument
    <3>2. job' \in [Jobs -> JobDocument]
      BY <2>1, <3>1, TypeCompleted DEF CommitNoSpeech, Stages
    <3>3. file' \in [Files -> FileDocument]
      BY <2>1, <3>1, TypeMark DEF CommitNoSpeech
    <3> QED BY <2>1, <3>2, <3>3 DEF CommitNoSpeech, TypeOK
  <2> QED BY <1>7, <2>1, TypeTransaction DEF settleNoSpeech
<1>8. CASE settleGeneric(w)
  BY <1>8, TypeVerdict, LocalTypes, TypeDisturbances DEF settleGeneric, TypeOK
<1> QED BY <1>3, <1>4, <1>5, <1>6, <1>7, <1>8

LEMMA TypeProcess ==
  ASSUME TypeOK, NEW w \in Workers, Exit(w) \/ Process(w)
  PROVE  TypeOK'
<1> USE DEF shared, admin
<1>1. {"idle", "crashed", "stopped"} \subseteq Places
  BY DEF Places, Claiming, Down
<1>2. CASE Exit(w)
  BY <1>1, <1>2, LocalTypes DEF Exit, TypeOK
<1>3. CASE Shutdown(w)
  <2>1. \A cause \in Causes : [run[w] EXCEPT !.cause = cause] \in LocalState
    BY DEF TypeOK, LocalState
  <2>2. run[w].cause \in Causes /\ "parent" \in Causes
    BY DEF TypeOK, LocalState, Causes
  <2> QED BY <1>3, <2>1, <2>2, TypeDisturbances DEF Shutdown, TypeOK
<1>4. CASE Crash(w)
  BY <1>1, <1>4, LocalTypes, TypeDisturbances DEF Crash, TypeOK
<1>5. CASE Restart(w)
  BY <1>1, <1>5, LocalTypes DEF Restart, TypeOK
<1>6. CASE Start(w)
  BY <1>1, <1>6, LocalTypes DEF Start, TypeOK
<1> QED BY <1>2, <1>3, <1>4, <1>5, <1>6 DEF Process

LEMMA TypeEnvironment ==
  ASSUME TypeOK, Environment
  PROVE  TypeOK'
<1> USE DEF shared, admin
<1>1. ASSUME NEW j \in Jobs, LeaseExpires(j) PROVE TypeOK'
  <2>1. [job[j] EXCEPT !.expired = TRUE] \in JobDocument
    BY DEF TypeOK, JobDocument
  <2> QED BY <1>1, <2>1, TypeDisturbances DEF LeaseExpires, TypeOK
<1>2. ASSUME NEW j \in Jobs, RetryDue(j) PROVE TypeOK'
  <2>1. [job[j] EXCEPT !.deferred = FALSE] \in JobDocument
    BY DEF TypeOK, JobDocument
  <2> QED BY <1>2, <2>1 DEF RetryDue, TypeOK
<1>3. ASSUME NEW j \in Jobs, CancelJob(j) PROVE TypeOK'
  <2>1. [job[j] EXCEPT !.status = "cancelled"] \in JobDocument
    BY DEF TypeOK, JobDocument, Statuses
  <2> QED BY <1>3, <2>1, TypeDisturbances DEF CancelJob, TypeOK
<1>4. ASSUME NEW j \in Jobs, RetryJob(j) PROVE TypeOK'
  <2>1. \A later \in BOOLEAN :
          [job[j] EXCEPT !.status = "pending", !.worker = None, !.token = 0,
             !.expired = FALSE, !.deferred = later] \in JobDocument
    BY DEF TypeOK, JobDocument, Statuses
  <2> QED BY <1>4, <2>1, TypeDisturbances DEF RetryJob, TypeOK
<1>5. ASSUME NEW f \in Files, TrashFile(f) PROVE TypeOK'
  <2>1. [file[f] EXCEPT !.trashed = TRUE] \in FileDocument
    BY DEF TypeOK, FileDocument
  <2> QED BY <1>5, <2>1, TypeDisturbances DEF TrashFile, TypeOK
<1>6. CASE ToggleQueue
  BY <1>6, TypeDisturbances DEF ToggleQueue, TypeOK
<1>7. ASSUME NEW i \in Ids, ToggleWorker(i) PROVE TypeOK'
  BY <1>7, TypeDisturbances DEF ToggleWorker, TypeOK
<1> QED BY <1>1, <1>2, <1>3, <1>4, <1>5, <1>6, <1>7 DEF Environment

(***************************************************************************)
(* Documents and local states keep their types through every claim, run,   *)
(* settlement, crash and admin edit.                                       *)
(***************************************************************************)
THEOREM TypeCorrect == Spec => []TypeOK
<1>1. TypeOK /\ [Next]_vars => TypeOK'
  <2> SUFFICES ASSUME TypeOK, [Next]_vars PROVE TypeOK'
    OBVIOUS
  <2>1. ASSUME NEW w \in Workers, Loop(w) PROVE TypeOK'
    BY <2>1, TypeClaim, TypeWork, TypeSettle, TypeProcess DEF Loop
  <2>2. ASSUME NEW w \in Workers, Watcher(w) PROVE TypeOK'
    BY <2>2, TypeWatcher
  <2>3. ASSUME NEW w \in Workers, Process(w) PROVE TypeOK'
    BY <2>3, TypeProcess
  <2>4. CASE Environment
    BY <2>4, TypeEnvironment
  <2>5. CASE UNCHANGED vars
    BY <2>5 DEF vars, TypeOK
  <2> QED BY <2>1, <2>2, <2>3, <2>4, <2>5 DEF Next
<1> QED BY <1>1, TypeInit, PTL DEF Spec

-----------------------------------------------------------------------------
(* Fencing.  A step is harmless when each run, job, object and media either *)
(* stays as it is or ends up tagged, recorded and backed.                   *)

RunKept(w) ==
  \/ run'[w] = run[w]
  \/ /\ RunIsTagged(w)'
     /\ \/ run'[w].token \in {0, run[w].token}
        \/ /\ run'[w].token = issued + 1 /\ issued' = issued + 1
           /\ \A v \in Workers \ {w} : run'[v] = run[v]

JobKept(j) ==
  \/ job'[j] = job[j]
  \/ /\ job[j].status # "completed"
     /\ job[j].attempts \subseteq job'[j].attempts
     /\ JobIsTagged(j)'

ObjectsKept ==
  /\ objects \subseteq objects'
  /\ \A p \in objects' \ objects : \E j \in Jobs : p \in job'[j].attempts

MediasKept ==
  \A m \in medias' \ medias :
    /\ m.publication \in objects'
    /\ m.publication \in job'[m.job].attempts
    /\ job'[m.job].status = "completed"
    /\ job'[m.job].result = m.publication
    /\ \A a \in job'[m.job].attempts : a <= m.publication

LEMMA FencingFrame ==
  ASSUME TypeOK, TypeOK', Fencing, issued' \in {issued, issued + 1},
         \A w \in Workers : RunKept(w), \A j \in Jobs : JobKept(j),
         ObjectsKept, MediasKept
  PROVE  Fencing'
<1>1. \A j \in Jobs : job[j].attempts \subseteq job'[j].attempts
  BY DEF JobKept
<1>2. issued \in Nat /\ issued <= issued'
  BY DEF TypeOK
<1>3. ASSUME NEW w \in Workers PROVE RunIsTagged(w)'
  <2>1. CASE run'[w] = run[w]
    <3>1. run[w].token \in Nat
      BY DEF TypeOK, LocalState
    <3> QED BY <1>1, <1>2, <2>1, <3>1 DEF Fencing, RunIsTagged, ObjectsKept
  <2> QED BY <2>1 DEF RunKept
<1>4. ASSUME NEW j \in Jobs PROVE JobIsTagged(j)'
  <2>1. CASE job'[j] = job[j]
    <3>1. job[j].token \in Nat /\ job[j].attempts \subseteq Nat
      BY DEF TypeOK, JobDocument
    <3> QED BY <1>2, <2>1, <3>1 DEF Fencing, JobIsTagged
  <2> QED BY <2>1 DEF JobKept
<1>5. TokensAreUnique'
  <2> SUFFICES ASSUME NEW v \in Workers, NEW w \in Workers,
                      run'[v].token = run'[w].token, run'[v].token # 0
               PROVE  v = w
    BY DEF TokensAreUnique
  <2>1. \A u \in Workers : run[u].token \in Nat /\ run[u].token <= issued
    BY DEF Fencing, RunIsTagged, TypeOK, LocalState
  <2>2. \A u \in Workers : \/ run'[u].token \in {0, run[u].token}
                           \/ /\ run'[u].token = issued + 1
                              /\ \A x \in Workers \ {u} : run'[x] = run[x]
    BY DEF RunKept
  <2> QED BY <1>2, <2>1, <2>2 DEF Fencing, TokensAreUnique
<1>6. \A m \in medias : job'[m.job] = job[m.job]
  BY DEF Fencing, MediaIsBacked, JobKept, TypeOK, MediaDocument
<1>7. MediaIsBacked'
  BY <1>6 DEF Fencing, MediaIsBacked, MediasKept, ObjectsKept
<1>8. ObjectsAreRecorded'
  BY <1>1 DEF Fencing, ObjectsAreRecorded, ObjectsKept
<1>9. NewestAttemptWins'
  BY <1>6 DEF Fencing, NewestAttemptWins, MediasKept
<1> QED BY <1>3, <1>4, <1>5, <1>7, <1>8, <1>9 DEF Fencing

(* A run that only moves on is tagged as before. *)
LEMMA RunMoves ==
  ASSUME TypeOK, Fencing, NEW w \in Workers,
         \A j \in Jobs : job[j].attempts \subseteq job'[j].attempts,
         objects \subseteq objects', issued' \in {issued, issued + 1},
         run'[w].token = run[w].token, run'[w].job = run[w].job,
         run'[w].uploaded = run[w].uploaded,
         run'[w].at \in Working \cup Settling <=> run[w].at \in Working \cup Settling,
         run'[w].at \notin {"put", "publish"} \/ run'[w].at = run[w].at
  PROVE  RunIsTagged(w)'
<1>1. run[w].token \in Nat /\ issued \in Nat
  BY DEF TypeOK, LocalState
<1> QED BY <1>1 DEF Fencing, RunIsTagged

(* A job whose tags do not change is tagged as before. *)
LEMMA JobMoves ==
  ASSUME TypeOK, Fencing, NEW j \in Jobs, issued' \in {issued, issued + 1},
         job'[j].attempts = job[j].attempts, job'[j].result = job[j].result,
         \/ job'[j].status = job[j].status /\ job'[j].token = job[j].token
         \/ /\ job[j].status # "completed"
            /\ job'[j].status \in {"pending", "failed", "cancelled"}
            /\ job'[j].token \in {0, job[j].token}
  PROVE  JobIsTagged(j)'
<1>1. job[j].token \in Nat /\ job[j].attempts \subseteq Nat /\ issued \in Nat
  BY DEF TypeOK, JobDocument
<1> QED BY <1>1 DEF Fencing, JobIsTagged

(* A run between two jobs is tagged. *)
LEMMA RunWaits ==
  ASSUME NEW w \in Workers, NEW place \in Claiming \cup Down,
         run'[w] = Waiting(place), issued' \in Nat
  PROVE  RunIsTagged(w)' /\ run'[w].token = 0
<1>1. place \notin Working \cup Settling \cup {"put", "publish"}
  BY DEF Claiming, Down, Working, Settling
<1>2. /\ run'[w].at = place /\ run'[w].token = 0 /\ run'[w].uploaded = FALSE
  BY DEF Waiting
<1>3. 0 <= issued'
  OBVIOUS
<1> QED BY <1>1, <1>2, <1>3 DEF RunIsTagged

(* What the local step of a run does to the fields that tag it. *)
MovesTo(w, place) ==
  /\ run'[w].at = place /\ run'[w].job = run[w].job
  /\ run'[w].token = run[w].token /\ run'[w].uploaded = run[w].uploaded
  /\ \A v \in Workers \ {w} : run'[v] = run[v]

LEMMA LocalEffects ==
  ASSUME TypeOK, NEW w \in Workers
  PROVE  /\ \A place \in Places : Goto(w, place) => MovesTo(w, place)
         /\ Fail(w) => MovesTo(w, "read cause")
         /\ \A place \in Places : run' = [run EXCEPT ![w] = Waiting(place)] =>
              run'[w] = Waiting(place) /\ \A v \in Workers \ {w} : run'[v] = run[v]
<1>1. run \in [Workers -> LocalState] /\ run[w] \in LocalState
  BY DEF TypeOK
<1>2. ASSUME NEW place \in Places, Goto(w, place) PROVE MovesTo(w, place)
  BY <1>1, <1>2 DEF LocalState, Goto, MovesTo
<1>3. Fail(w) => MovesTo(w, "read cause")
  BY <1>1 DEF LocalState, Fail, MovesTo
<1> QED BY <1>1, <1>2, <1>3

(* A step of one run on one job, with no media and no object added. *)
LEMMA RunStep ==
  ASSUME TypeOK, TypeOK', Fencing, NEW w \in Workers, UNCHANGED <<medias, objects, issued>>,
         \A v \in Workers \ {w} : run'[v] = run[v],
         \A j \in Jobs : JobKept(j),
         RunIsTagged(w)', run'[w].token \in {0, run[w].token}
  PROVE  Fencing'
BY FencingFrame DEF RunKept, ObjectsKept, MediasKept

(* A run that moves on, whatever it does to the untagged fields of its job. *)
LEMMA MoveStep ==
  ASSUME TypeOK, TypeOK', Fencing, NEW w \in Workers, UNCHANGED <<medias, objects, issued>>,
         NEW place \in Places, MovesTo(w, place),
         place \in Working \cup Settling <=> run[w].at \in Working \cup Settling,
         place \notin {"put", "publish"},
         \A j \in Jobs : JobKept(j)
  PROVE  Fencing'
<1>1. \A j \in Jobs : job[j].attempts \subseteq job'[j].attempts
  BY DEF JobKept
<1>2. RunIsTagged(w)'
  BY <1>1, RunMoves DEF MovesTo
<1> QED BY <1>2, RunStep DEF MovesTo

(* A run that ends its job and waits. *)
LEMMA WaitStep ==
  ASSUME TypeOK, TypeOK', Fencing, NEW w \in Workers, UNCHANGED <<medias, objects, issued>>,
         NEW place \in Claiming \cup Down, run' = [run EXCEPT ![w] = Waiting(place)],
         \A j \in Jobs : JobKept(j)
  PROVE  Fencing'
<1>1. run'[w] = Waiting(place) /\ \A v \in Workers \ {w} : run'[v] = run[v]
  BY LocalEffects DEF Places
<1>2. RunIsTagged(w)' /\ run'[w].token = 0
  BY <1>1, RunWaits DEF TypeOK
<1> QED BY <1>1, <1>2, RunStep

(* Only the labels of the job documents change. *)
LEMMA LabelStep ==
  ASSUME TypeOK, Fencing, UNCHANGED issued, NEW j \in Jobs, NEW d, job' = [job EXCEPT ![j] = d],
         d.attempts = job[j].attempts, d.result = job[j].result,
         job[j].status # "completed",
         \/ d.status = job[j].status /\ d.token = job[j].token
         \/ d.status \in {"pending", "failed", "cancelled"} /\ d.token \in {0, job[j].token}
  PROVE  \A k \in Jobs : JobKept(k)
<1>1. job'[j] = d /\ \A k \in Jobs \ {j} : job'[k] = job[k]
  BY DEF TypeOK
<1>2. JobIsTagged(j)'
  BY <1>1, JobMoves
<1> QED BY <1>1, <1>2 DEF JobKept

LEMMA TakeStep ==
  ASSUME TypeOK, Fencing, NEW w \in Workers, NEW j \in Jobs, Take(w, j)
  PROVE  \A k \in Jobs : JobKept(k)
<1>1. /\ job[j].status \in {"pending", "processing"}
      /\ job[j].attempts \subseteq Nat /\ issued \in Nat
  BY DEF Take, claimFilter, TypeOK, JobDocument
<1>2. /\ job'[j].status = "processing" /\ job'[j].token = issued + 1
      /\ job'[j].attempts = job[j].attempts /\ job'[j].result = job[j].result
      /\ issued' = issued + 1
      /\ \A k \in Jobs \ {j} : job'[k] = job[k]
  BY DEF Take, TypeOK, JobDocument
<1>3. JobIsTagged(j)'
  BY <1>1, <1>2 DEF Fencing, JobIsTagged
<1> QED BY <1>1, <1>2, <1>3 DEF JobKept

LEMMA FencingClaim ==
  ASSUME TypeOK, TypeOK', Fencing, NEW w \in Workers,
         \/ ReadSettings(w) \/ ReadWorker(w) \/ (\E j \in Jobs : Claim(w, j))
         \/ ClaimNothing(w) \/ ClaimFails(w)
  PROVE  Fencing'
<1> USE DEF shared, admin, At
<1>1. Claiming \subseteq Places /\ Claiming \cap (Working \cup Settling) = {}
      /\ Claiming \cap {"put", "publish"} = {}
  BY DEF Places, Claiming, Working, Settling
<1>2. UNCHANGED job => \A j \in Jobs : JobKept(j)
  BY DEF JobKept
<1>3. CASE ReadSettings(w)
  BY <1>1, <1>2, <1>3, LocalEffects, MoveStep DEF ReadSettings, Claiming
<1>4. CASE ReadWorker(w)
  BY <1>1, <1>2, <1>4, LocalEffects, MoveStep DEF ReadWorker, Claiming
<1>5. ASSUME NEW j \in Jobs, Claim(w, j) PROVE Fencing'
  <2>1. /\ run'[w].at = "resolve" /\ run'[w].job = j /\ run'[w].token = issued + 1
        /\ run'[w].uploaded = run[w].uploaded
        /\ \A v \in Workers \ {w} : run'[v] = run[v]
    BY <1>5 DEF Claim, TypeOK, LocalState
  <2>2. issued' = issued + 1 /\ issued \in Nat
    BY <1>5 DEF Claim, Take, TypeOK
  <2>3. ~run[w].uploaded
    BY <1>1, <1>5 DEF Claim, At, Claiming, Fencing, RunIsTagged
  <2>4. RunIsTagged(w)'
    BY <2>1, <2>2, <2>3 DEF RunIsTagged
  <2> QED BY <1>5, <2>1, <2>2, <2>4, TakeStep, FencingFrame
          DEF Claim, RunKept, ObjectsKept, MediasKept
<1>6. CASE ClaimNothing(w)
  BY <1>1, <1>2, <1>6, LocalEffects, MoveStep DEF ClaimNothing, Claiming
<1>7. CASE ClaimFails(w)
  <2>1. MovesTo(w, "idle")
    BY <1>1, <1>7, LocalEffects DEF ClaimFails, Claiming
  <2>2. \A k \in Jobs : JobKept(k)
    BY <1>2, <1>7, TakeStep DEF ClaimFails
  <2>3. issued' \in {issued, issued + 1} /\ UNCHANGED <<medias, objects>>
    BY <1>7 DEF ClaimFails, Take
  <2>4. \A k \in Jobs : job[k].attempts \subseteq job'[k].attempts
    BY <2>2 DEF JobKept
  <2>5. RunIsTagged(w)'
    BY <1>1, <1>7, <2>1, <2>3, <2>4, RunMoves DEF MovesTo, ClaimFails, Claiming
  <2> QED BY <2>1, <2>2, <2>3, <2>5, FencingFrame
          DEF MovesTo, RunKept, ObjectsKept, MediasKept
<1> QED BY <1>3, <1>4, <1>5, <1>6, <1>7

LEMMA FencingWatcher ==
  ASSUME TypeOK, TypeOK', Fencing, NEW w \in Workers, Watcher(w)
  PROVE  Fencing'
<1>1. UNCHANGED <<medias, objects, issued>>
  BY DEF Watcher, Renew, RenewFails, HandlerProgress
<1>2. run' = run \/ run' = [run EXCEPT ![w].cause = "lost"]
  BY DEF Watcher, Renew, RenewFails, HandlerProgress
<1>3. /\ run'[w].at = run[w].at /\ run'[w].job = run[w].job
      /\ run'[w].token = run[w].token /\ run'[w].uploaded = run[w].uploaded
      /\ \A v \in Workers \ {w} : run'[v] = run[v]
  BY <1>2 DEF TypeOK, LocalState
<1>4. \/ UNCHANGED job
      \/ Owns(w) /\ job' = [job EXCEPT ![run[w].job].expired = FALSE]
      \/ Owns(w) /\ job' = [job EXCEPT ![run[w].job].stage = "transcribe"]
  BY DEF Watcher, Renew, RenewFails, HandlerProgress
<1>5. \A j \in Jobs : JobKept(j)
  <2>1. CASE UNCHANGED job
    BY <2>1 DEF JobKept
  <2>2. CASE Owns(w) /\ job' = [job EXCEPT ![run[w].job].expired = FALSE]
    <3>1. run[w].job \in Jobs /\ job[run[w].job].status = "processing"
      BY <2>2 DEF Owns, ownerFilter
    <3>2. ASSUME NEW d, d = [job[run[w].job] EXCEPT !.expired = FALSE]
          PROVE  \A j \in Jobs : JobKept(j)
      <4>1. /\ d.attempts = job[run[w].job].attempts /\ d.result = job[run[w].job].result
            /\ d.status = job[run[w].job].status /\ d.token = job[run[w].job].token
        BY <3>1, <3>2 DEF TypeOK, JobDocument
      <4> QED BY <1>1, <2>2, <3>1, <3>2, <4>1, LabelStep
    <3> QED BY <3>2
  <2>3. CASE Owns(w) /\ job' = [job EXCEPT ![run[w].job].stage = "transcribe"]
    <3>1. run[w].job \in Jobs /\ job[run[w].job].status = "processing"
      BY <2>3 DEF Owns, ownerFilter
    <3>2. ASSUME NEW d, d = [job[run[w].job] EXCEPT !.stage = "transcribe"]
          PROVE  \A j \in Jobs : JobKept(j)
      <4>1. /\ d.attempts = job[run[w].job].attempts /\ d.result = job[run[w].job].result
            /\ d.status = job[run[w].job].status /\ d.token = job[run[w].job].token
        BY <3>1, <3>2 DEF TypeOK, JobDocument
      <4> QED BY <1>1, <2>3, <3>1, <3>2, <4>1, LabelStep
    <3> QED BY <3>2
  <2> QED BY <1>4, <2>1, <2>2, <2>3
<1>6. RunIsTagged(w)'
  BY <1>1, <1>3, <1>5, RunMoves DEF JobKept
<1> QED BY <1>1, <1>3, <1>5, <1>6, RunStep

(* A report writes the stage of the job the run owns, or nothing. *)
LEMMA StageStep ==
  ASSUME TypeOK, Fencing, UNCHANGED issued, NEW w \in Workers, Owns(w), NEW stage,
         job' = [job EXCEPT ![run[w].job].stage = stage]
  PROVE  \A j \in Jobs : JobKept(j)
<1>1. run[w].job \in Jobs /\ job[run[w].job].status = "processing"
  BY DEF Owns, ownerFilter
<1>2. PICK d : d = [job[run[w].job] EXCEPT !.stage = stage]
  OBVIOUS
<1>3. /\ d.attempts = job[run[w].job].attempts /\ d.result = job[run[w].job].result
      /\ d.status = job[run[w].job].status /\ d.token = job[run[w].job].token
  BY <1>1, <1>2 DEF TypeOK, JobDocument
<1> QED BY <1>1, <1>2, <1>3, LabelStep

LEMMA FencingReport ==
  ASSUME TypeOK, TypeOK', Fencing, NEW w \in Workers, NEW stage, NEW next \in Places,
         Report(w, stage, next), run[w].at \in Working, next \in Working \ {"put"}
  PROVE  Fencing'
<1>1. UNCHANGED <<medias, objects, issued>>
  BY DEF Report
<1>2. \A j \in Jobs : JobKept(j)
  BY <1>1, StageStep DEF Report, JobKept
<1>3. "read cause" \in Working /\ Working \subseteq Places /\ "publish" \notin Working
  BY DEF Working, Places
<1>4. MovesTo(w, next) \/ MovesTo(w, "read cause")
  BY LocalEffects DEF Report
<1> QED BY <1>1, <1>2, <1>3, <1>4, MoveStep

(* The audit record belongs to the newest claim of the job. *)
LEMMA AttemptStep ==
  ASSUME TypeOK, Fencing, UNCHANGED issued, NEW w \in Workers, PushAttempt(w)
  PROVE  /\ \A j \in Jobs : JobKept(j)
         /\ run[w].job \in Jobs
         /\ run[w].token \in job'[run[w].job].attempts
<1>1. PICK j \in Jobs : run[w].job = j
  BY DEF PushAttempt, Owns
<1>2. /\ job[j].status = "processing" /\ job[j].token = run[w].token
      /\ run[w].token \in Nat /\ run[w].token <= issued
  BY <1>1 DEF PushAttempt, Owns, ownerFilter, TypeOK, LocalState, Fencing, RunIsTagged
<1>3. /\ \A k \in Jobs \ {j} : job'[k] = job[k]
      /\ job'[j].status = job[j].status /\ job'[j].token = job[j].token
      /\ job'[j].result = job[j].result
      /\ job'[j].attempts = job[j].attempts \cup {run[w].token}
  BY <1>1 DEF PushAttempt, TypeOK, JobDocument
<1>4. JobIsTagged(j)'
  BY <1>2, <1>3 DEF Fencing, JobIsTagged
<1> QED BY <1>1, <1>2, <1>3, <1>4 DEF JobKept

LEMMA FencingRecord ==
  ASSUME TypeOK, TypeOK', Fencing, NEW w \in Workers, RecordAttempt(w)
  PROVE  Fencing'
<1>1. UNCHANGED <<medias, objects, issued>> /\ run[w].at = "record"
  BY DEF RecordAttempt, At
<1>2. \A j \in Jobs : JobKept(j)
  BY <1>1, AttemptStep DEF RecordAttempt, JobKept
<1>3. {"read cause", "put", "record"} \subseteq Working /\ Working \subseteq Places
  BY DEF Working, Places
<1>4. CASE MovesTo(w, "read cause")
  BY <1>1, <1>2, <1>3, <1>4, MoveStep
<1>5. CASE MovesTo(w, "put") /\ PushAttempt(w)
  <2>1. RunIsTagged(w)'
    <3>1. "put" # "publish"
      OBVIOUS
    <3> QED BY <1>1, <1>2, <1>3, <1>5, <3>1, AttemptStep
            DEF Fencing, RunIsTagged, MovesTo, JobKept
  <2> QED BY <1>1, <1>2, <1>5, <2>1, RunStep DEF MovesTo
<1> QED BY <1>3, <1>4, <1>5, LocalEffects DEF RecordAttempt

LEMMA FencingPut ==
  ASSUME TypeOK, TypeOK', Fencing, NEW w \in Workers, PutObject(w) \/ PutObjectFails(w)
  PROVE  Fencing'
<1>1. UNCHANGED <<job, medias, issued>> /\ run[w].at = "put"
  BY DEF PutObject, PutObjectFails, At
<1>2. run[w].job \in Jobs /\ run[w].token \in job[run[w].job].attempts
  BY <1>1 DEF Fencing, RunIsTagged
<1>3. objects' \in {objects, objects \cup {run[w].token}}
  BY DEF PutObject, PutObjectFails
<1>4. ObjectsKept
  BY <1>1, <1>2, <1>3 DEF ObjectsKept
<1>5. {"put", "read cause", "report uploaded"} \subseteq Working /\ Working \subseteq Places
      /\ "publish" \notin Working
  BY DEF Working, Places
<1>6. RunIsTagged(w)' /\ run'[w].token = run[w].token
      /\ \A v \in Workers \ {w} : run'[v] = run[v]
  <2>1. CASE PutObject(w)
    <3>1. /\ run'[w].at = "report uploaded" /\ run'[w].job = run[w].job
          /\ run'[w].token = run[w].token /\ run'[w].uploaded
          /\ run[w].token \in objects'
          /\ \A v \in Workers \ {w} : run'[v] = run[v]
      BY <2>1 DEF PutObject, TypeOK, LocalState
    <3> QED BY <1>1, <1>2, <1>5, <3>1 DEF Fencing, RunIsTagged
  <2>2. CASE PutObjectFails(w)
    <3>1. MovesTo(w, "read cause")
      BY <2>2, LocalEffects DEF PutObjectFails
    <3>2. objects \subseteq objects'
      BY <1>4 DEF ObjectsKept
    <3> QED BY <1>1, <1>5, <3>1, <3>2, RunMoves DEF MovesTo
  <2> QED BY <2>1, <2>2
<1> QED BY <1>1, <1>4, <1>6, FencingFrame DEF RunKept, JobKept, MediasKept

LEMMA FencingWork ==
  ASSUME TypeOK, TypeOK', Fencing, NEW w \in Workers,
         \/ Resolve(w) \/ ResolveFails(w) \/ Transcribe(w) \/ AfterTranscription(w)
         \/ ReportUpload(w) \/ PrepareUploadFails(w) \/ RecordAttempt(w)
         \/ PutObject(w) \/ PutObjectFails(w) \/ ReportUploaded(w) \/ ReportInstall(w)
  PROVE  Fencing'
<1> USE DEF shared, admin, At
<1>1. Working \subseteq Places /\ "publish" \notin Working
  BY DEF Places, Working
<1>2. UNCHANGED job => \A j \in Jobs : JobKept(j)
  BY DEF JobKept
<1>3. CASE Resolve(w)
  BY <1>1, <1>2, <1>3, LocalEffects, MoveStep DEF Resolve, Working
<1>4. CASE ResolveFails(w)
  BY <1>1, <1>2, <1>4, LocalEffects, MoveStep DEF ResolveFails, Working
<1>5. CASE Transcribe(w)
  <2>1. MovesTo(w, "read cause") \/ MovesTo(w, "transcribed")
    <3>1. ASSUME NEW silent \in BOOLEAN,
                 run' = [run EXCEPT ![w] = [run[w] EXCEPT !.silent = silent,
                                                         !.at = "transcribed"]]
          PROVE  MovesTo(w, "transcribed")
      BY <3>1 DEF MovesTo, TypeOK, LocalState
    <3> QED BY <1>5, <3>1, LocalEffects DEF Transcribe
  <2> QED BY <1>1, <1>2, <1>5, <2>1, MoveStep DEF Transcribe, Working
<1>6. CASE AfterTranscription(w)
  BY <1>1, <1>2, <1>6, LocalEffects, MoveStep DEF AfterTranscription, Working
<1>7. CASE ReportUpload(w)
  BY <1>1, <1>7, FencingReport DEF ReportUpload, Working
<1>8. CASE PrepareUploadFails(w)
  BY <1>1, <1>2, <1>8, LocalEffects, MoveStep DEF PrepareUploadFails, Working
<1>9. CASE RecordAttempt(w)
  BY <1>9, FencingRecord
<1>10. CASE PutObject(w) \/ PutObjectFails(w)
  BY <1>10, FencingPut
<1>11. CASE ReportUploaded(w)
  BY <1>1, <1>11, FencingReport DEF ReportUploaded, Working
<1>12. CASE ReportInstall(w)
  <2>1. CASE Report(w, "install", "read cause")
    BY <1>1, <1>12, <2>1, FencingReport DEF ReportInstall, Working
  <2>2. CASE Goto(w, "read cause") /\ UNCHANGED <<shared, issued>>
    BY <1>1, <1>2, <1>12, <2>2, LocalEffects, MoveStep DEF ReportInstall, Working
  <2> QED BY <1>12, <2>1, <2>2 DEF ReportInstall
<1> QED BY <1>3, <1>4, <1>5, <1>6, <1>7, <1>8, <1>9, <1>10, <1>11, <1>12

(* A settlement without media leaves the tags of the job in order. *)
LEMMA SettleStep ==
  ASSUME TypeOK, Fencing, UNCHANGED issued, NEW j \in Jobs, job[j].status = "processing",
         \A k \in Jobs \ {j} : job'[k] = job[k],
         job'[j].attempts = job[j].attempts, job'[j].result = job[j].result,
         job'[j].token = 0, job'[j].status \in {"pending", "completed", "failed"}
  PROVE  \A k \in Jobs : JobKept(k)
<1>1. JobIsTagged(j)'
  BY DEF Fencing, JobIsTagged, TypeOK
<1> QED BY <1>1 DEF JobKept

LEMMA VerdictStep ==
  ASSUME TypeOK, Fencing, UNCHANGED issued, NEW w \in Workers, ApplyVerdict(w)
  PROVE  \A k \in Jobs : JobKept(k)
<1>1. PICK j \in Jobs : /\ run[w].job = j
                       /\ \/ GiveBack(j) \/ MarkFailed(j)
                          \/ Completed(j, "completed", job[j].result)
  BY DEF ApplyVerdict
<1>2. job[j].status = "processing"
  BY <1>1 DEF ApplyVerdict, Owns, ownerFilter
<1>3. /\ \A k \in Jobs \ {j} : job'[k] = job[k]
      /\ job'[j].attempts = job[j].attempts /\ job'[j].result = job[j].result
      /\ job'[j].token = 0 /\ job'[j].status \in {"pending", "completed", "failed"}
  <2>1. CASE GiveBack(j)
    BY <2>1 DEF GiveBack, TypeOK, JobDocument
  <2>2. CASE MarkFailed(j)
    BY <2>2 DEF MarkFailed, TypeOK, JobDocument
  <2>3. CASE Completed(j, "completed", job[j].result)
    BY <2>3 DEF Completed, TypeOK, JobDocument
  <2> QED BY <1>1, <2>1, <2>2, <2>3
<1> QED BY <1>2, <1>3, SettleStep

(* The publication: its media is backed by what the run recorded. *)
LEMMA FencingPublish ==
  ASSUME TypeOK, TypeOK', Fencing, NEW w \in Workers, settlePublished(w)
  PROVE  Fencing'
<1>1. run[w].at = "publish" /\ UNCHANGED <<objects, issued>>
      /\ run' = [run EXCEPT ![w] = Waiting("idle")]
  BY DEF settlePublished, Transaction, Return, At
<1>2. CASE UNCHANGED <<job, medias>>
  BY <1>1, <1>2, WaitStep DEF JobKept, Claiming
<1>3. CASE CommitPublication(w)
  <2>1. PICK j \in Jobs : run[w].job = j
    BY <1>3 DEF CommitPublication, Owns
  <2>2. /\ job[j].status = "processing" /\ job[j].token = run[w].token
        /\ run[w].token \in job[j].attempts /\ run[w].token \in objects
    BY <1>1, <1>3, <2>1 DEF CommitPublication, Owns, ownerFilter, Fencing, RunIsTagged
  <2>3. \A a \in job[j].attempts : a <= run[w].token
    BY <2>2 DEF Fencing, JobIsTagged
  <2>4. /\ \A k \in Jobs \ {j} : job'[k] = job[k]
        /\ job'[j].attempts = job[j].attempts /\ job'[j].result = run[w].token
        /\ job'[j].token = 0 /\ job'[j].status = "completed"
    BY <1>3, <2>1 DEF CommitPublication, Completed, TypeOK, JobDocument
  <2>5. JobIsTagged(j)'
    BY <1>1, <2>4 DEF Fencing, JobIsTagged, TypeOK
  <2>6. \A k \in Jobs : JobKept(k)
    BY <2>2, <2>4, <2>5 DEF JobKept
  <2>7. MediasKept
    BY <1>1, <1>3, <2>1, <2>2, <2>3, <2>4 DEF CommitPublication, MediasKept
  <2>8. run'[w] = Waiting("idle") /\ \A v \in Workers \ {w} : run'[v] = run[v]
    BY <1>1, LocalEffects DEF Places, Claiming
  <2>9. RunIsTagged(w)' /\ run'[w].token = 0
    BY <2>8, RunWaits DEF Claiming, TypeOK
  <2> QED BY <1>1, <2>6, <2>7, <2>8, <2>9, FencingFrame DEF RunKept, ObjectsKept
<1> QED BY <1>2, <1>3 DEF settlePublished, Transaction

LEMMA FencingSilence ==
  ASSUME TypeOK, TypeOK', Fencing, NEW w \in Workers, settleNoSpeech(w)
  PROVE  Fencing'
<1>1. UNCHANGED <<objects, issued>> /\ run' = [run EXCEPT ![w] = Waiting("idle")]
  BY DEF settleNoSpeech, Transaction, Return
<1>2. CASE UNCHANGED <<job, medias>>
  BY <1>1, <1>2, WaitStep DEF JobKept, Claiming
<1>3. CASE CommitNoSpeech(w)
  <2>1. PICK j \in Jobs : run[w].job = j
    BY <1>3 DEF CommitNoSpeech, Owns
  <2>2. job[j].status = "processing" /\ UNCHANGED medias
    BY <1>3, <2>1 DEF CommitNoSpeech, Owns, ownerFilter
  <2>3. /\ \A k \in Jobs \ {j} : job'[k] = job[k]
        /\ job'[j].attempts = job[j].attempts /\ job'[j].result = job[j].result
        /\ job'[j].token = 0 /\ job'[j].status = "completed"
    BY <1>3, <2>1 DEF CommitNoSpeech, Completed, TypeOK, JobDocument
  <2> QED BY <1>1, <2>2, <2>3, SettleStep, WaitStep DEF Claiming
<1> QED BY <1>2, <1>3 DEF settleNoSpeech, Transaction

LEMMA FencingSettle ==
  ASSUME TypeOK, TypeOK', Fencing, NEW w \in Workers,
         \/ ReadCause(w) \/ settleUpdate(w) \/ ChooseSettlement(w)
         \/ settlePublished(w) \/ settleNoSpeech(w) \/ settleGeneric(w)
  PROVE  Fencing'
<1> USE DEF shared, admin, At
<1>1. Settling \subseteq Places
  BY DEF Places
<1>2. UNCHANGED job => \A j \in Jobs : JobKept(j)
  BY DEF JobKept
<1>3. CASE ReadCause(w)
  <2>1. CASE run[w].cause = "lost"
    <3>1. run' = [run EXCEPT ![w] = Waiting("idle")]
      BY <1>3, <2>1 DEF ReadCause
    <3> QED BY <1>2, <1>3, <3>1, WaitStep DEF ReadCause, Claiming
  <2>2. CASE run[w].cause # "lost"
    <3>1. MovesTo(w, "verdict")
      BY <1>3, <2>2 DEF ReadCause, MovesTo, TypeOK, LocalState
    <3> QED BY <1>1, <1>2, <1>3, <3>1, MoveStep DEF ReadCause, Working, Settling
  <2> QED BY <2>1, <2>2
<1>4. CASE settleUpdate(w)
  <2>1. MovesTo(w, "branch")
    BY <1>4 DEF settleUpdate, MovesTo, TypeOK, LocalState
  <2> QED BY <1>1, <1>2, <1>4, <2>1, MoveStep DEF settleUpdate, Settling
<1>5. CASE ChooseSettlement(w)
  <2>1. PICK place \in Settling : /\ Goto(w, place)
                                  /\ place = "publish" => run[w].uploaded
    BY <1>5 DEF ChooseSettlement, Settling
  <2>2. MovesTo(w, place)
    BY <1>1, <2>1, LocalEffects
  <2>3. UNCHANGED <<job, medias, objects, issued>> /\ run[w].at = "branch"
    BY <1>5 DEF ChooseSettlement
  <2>4. "put" \notin Settling /\ "branch" \in Settling
    BY DEF Settling
  <2>5. RunIsTagged(w)'
    BY <2>1, <2>2, <2>3, <2>4 DEF Fencing, RunIsTagged, MovesTo
  <2> QED BY <1>2, <2>2, <2>3, <2>5, RunStep DEF MovesTo
<1>6. CASE settlePublished(w)
  BY <1>6, FencingPublish
<1>7. CASE settleNoSpeech(w)
  BY <1>7, FencingSilence
<1>8. CASE settleGeneric(w)
  BY <1>2, <1>8, VerdictStep, WaitStep DEF settleGeneric, Return, Claiming
<1> QED BY <1>3, <1>4, <1>5, <1>6, <1>7, <1>8

LEMMA FencingProcess ==
  ASSUME TypeOK, TypeOK', Fencing, NEW w \in Workers, Exit(w) \/ Process(w)
  PROVE  Fencing'
<1> USE DEF shared, admin, At
<1>1. UNCHANGED job => \A j \in Jobs : JobKept(j)
  BY DEF JobKept
<1>2. CASE Exit(w)
  BY <1>1, <1>2, WaitStep DEF Exit, Down
<1>3. CASE Crash(w)
  BY <1>1, <1>3, WaitStep DEF Crash, Down
<1>4. CASE Shutdown(w)
  <2>1. /\ run'[w].at = run[w].at /\ run'[w].job = run[w].job
        /\ run'[w].token = run[w].token /\ run'[w].uploaded = run[w].uploaded
        /\ \A v \in Workers \ {w} : run'[v] = run[v]
    BY <1>4 DEF Shutdown, TypeOK, LocalState
  <2>2. UNCHANGED <<job, medias, objects, issued>>
    BY <1>4 DEF Shutdown
  <2>3. RunIsTagged(w)'
    BY <2>1, <2>2, RunMoves
  <2> QED BY <1>1, <2>1, <2>2, <2>3, RunStep
<1>5. CASE Restart(w) \/ Start(w)
  <2>1. MovesTo(w, "idle")
    BY <1>5, LocalEffects DEF Restart, Start, Places, Claiming
  <2>2. UNCHANGED <<job, medias, objects, issued>> /\ run[w].at \in Down
    BY <1>5 DEF Restart, Start, Down
  <2> QED BY <1>1, <2>1, <2>2, MoveStep DEF Places, Claiming, Working, Settling, Down
<1> QED BY <1>2, <1>3, <1>4, <1>5 DEF Process

LEMMA FencingEnvironment ==
  ASSUME TypeOK, TypeOK', Fencing, Environment
  PROVE  Fencing'
<1> USE DEF shared, admin
<1>1. UNCHANGED <<run, medias, objects, issued>>
  BY DEF Environment, LeaseExpires, RetryDue, CancelJob, RetryJob, TrashFile, ToggleQueue, ToggleWorker
<1>2. ASSUME \A j \in Jobs : JobKept(j) PROVE Fencing'
  BY <1>1, <1>2, FencingFrame DEF RunKept, ObjectsKept, MediasKept
<1>3. ASSUME NEW j \in Jobs, LeaseExpires(j) PROVE Fencing'
  <2>1. PICK d : d = [job[j] EXCEPT !.expired = TRUE]
    OBVIOUS
  <2>2. /\ d.attempts = job[j].attempts /\ d.result = job[j].result
        /\ d.status = job[j].status /\ d.token = job[j].token
    BY <2>1 DEF TypeOK, JobDocument
  <2> QED BY <1>1, <1>2, <1>3, <2>1, <2>2, LabelStep DEF LeaseExpires
<1>4. ASSUME NEW j \in Jobs, RetryDue(j) PROVE Fencing'
  <2>1. PICK d : d = [job[j] EXCEPT !.deferred = FALSE]
    OBVIOUS
  <2>2. /\ d.attempts = job[j].attempts /\ d.result = job[j].result
        /\ d.status = job[j].status /\ d.token = job[j].token
    BY <2>1 DEF TypeOK, JobDocument
  <2> QED BY <1>1, <1>2, <1>4, <2>1, <2>2, LabelStep DEF RetryDue
<1>5. ASSUME NEW j \in Jobs, CancelJob(j) PROVE Fencing'
  <2>1. PICK d : d = [job[j] EXCEPT !.status = "cancelled"]
    OBVIOUS
  <2>2. /\ d.attempts = job[j].attempts /\ d.result = job[j].result
        /\ d.status = "cancelled" /\ d.token = job[j].token
    BY <2>1 DEF TypeOK, JobDocument
  <2> QED BY <1>1, <1>2, <1>5, <2>1, <2>2, LabelStep DEF CancelJob
<1>6. ASSUME NEW j \in Jobs, RetryJob(j) PROVE Fencing'
  <2>1. PICK later \in BOOLEAN :
          job' = [job EXCEPT ![j] = [job[j] EXCEPT !.status = "pending", !.worker = None,
                    !.token = 0, !.expired = FALSE, !.deferred = later]]
    BY <1>6 DEF RetryJob
  <2>2. PICK d : d = [job[j] EXCEPT !.status = "pending", !.worker = None,
                        !.token = 0, !.expired = FALSE, !.deferred = later]
    OBVIOUS
  <2>3. /\ d.attempts = job[j].attempts /\ d.result = job[j].result
        /\ d.status = "pending" /\ d.token = 0
    BY <2>2 DEF TypeOK, JobDocument
  <2> QED BY <1>1, <1>2, <1>6, <2>1, <2>2, <2>3, LabelStep DEF RetryJob
<1>7. CASE UNCHANGED job
  BY <1>2, <1>7 DEF JobKept
<1> QED BY <1>3, <1>4, <1>5, <1>6, <1>7
        DEF Environment, TrashFile, ToggleQueue, ToggleWorker

(***************************************************************************)
(* The strengthening is inductive: whatever workers, watchers, signals,    *)
(* time and admin do, tokens keep telling the claims apart.                *)
(***************************************************************************)
THEOREM TokensFence == Spec => []Fencing
<1>1. Init => Fencing
  <2> SUFFICES ASSUME Init PROVE Fencing
    OBVIOUS
  <2>1. \A w \in Workers : RunIsTagged(w)
    <3>1. \A w \in Workers : /\ run[w].at = "idle" /\ run[w].token = 0
                             /\ run[w].uploaded = FALSE
      BY DEF Init, Waiting
    <3>2. issued = 0 /\ "idle" \notin Working \cup Settling
      BY DEF Init, Working, Settling
    <3> QED BY <3>1, <3>2 DEF RunIsTagged
  <2>2. \A j \in Jobs : JobIsTagged(j)
    <3>1. \A j \in Jobs : /\ job[j].status \in {"pending", "cancelled"}
                           /\ job[j].token = 0 /\ job[j].result = 0
                           /\ job[j].attempts = {}
      BY DEF Init, Enqueued
    <3> QED BY <3>1 DEF JobIsTagged, Init
  <2>3. TokensAreUnique
    BY DEF Init, TokensAreUnique, Waiting
  <2>4. MediaIsBacked /\ ObjectsAreRecorded /\ NewestAttemptWins
    BY DEF Init, MediaIsBacked, ObjectsAreRecorded, NewestAttemptWins
  <2> QED BY <2>1, <2>2, <2>3, <2>4 DEF Fencing
<1>2. TypeOK /\ TypeOK' /\ Fencing /\ [Next]_vars => Fencing'
  <2> SUFFICES ASSUME TypeOK, TypeOK', Fencing, [Next]_vars PROVE Fencing'
    OBVIOUS
  <2>1. ASSUME NEW w \in Workers, Loop(w) PROVE Fencing'
    BY <2>1, FencingClaim, FencingWork, FencingSettle, FencingProcess DEF Loop
  <2>2. ASSUME NEW w \in Workers, Watcher(w) PROVE Fencing'
    BY <2>2, FencingWatcher
  <2>3. ASSUME NEW w \in Workers, Process(w) PROVE Fencing'
    BY <2>3, FencingProcess
  <2>4. CASE Environment
    BY <2>4, FencingEnvironment
  <2>5. CASE UNCHANGED vars
    BY <2>5, FencingFrame DEF vars, RunKept, JobKept, ObjectsKept, MediasKept
  <2> QED BY <2>1, <2>2, <2>3, <2>4, <2>5 DEF Next
<1> QED BY <1>1, <1>2, TypeCorrect, PTL DEF Spec

(***************************************************************************)
(* A job never gets a second media, whatever is claimed twice, taken over, *)
(* retried or reported as failed.                                          *)
(***************************************************************************)
THEOREM AtMostOneMedia == Spec => []OneMediaPerJob
<1>1. TypeOK /\ Fencing => OneMediaPerJob
  BY DEF TypeOK, Fencing, MediaIsBacked, OneMediaPerJob, MediaDocument
<1> QED BY <1>1, TypeCorrect, TokensFence, PTL

(***************************************************************************)
(* A media is always backed by a recorded, uploaded object and by the      *)
(* completed job whose result it is.                                       *)
(***************************************************************************)
THEOREM MediaAlwaysBacked == Spec => []MediaIsBacked
<1>1. Fencing => MediaIsBacked
  BY DEF Fencing
<1> QED BY <1>1, TokensFence, PTL

(* No object in storage is ever missing from the upload attempts. *)
THEOREM ObjectsAlwaysRecorded == Spec => []ObjectsAreRecorded
<1>1. Fencing => ObjectsAreRecorded
  BY DEF Fencing
<1> QED BY <1>1, TokensFence, PTL

(* No run with an older claim publishes over a newer one's attempt. *)
THEOREM NewestAlwaysWins == Spec => []NewestAttemptWins
<1>1. Fencing => NewestAttemptWins
  BY DEF Fencing
<1> QED BY <1>1, TokensFence, PTL

(* Two runs never hold the claim of one job, even under one worker ID. *)
THEOREM OneHolderAlways == Spec => []OneHolder
<1>1. Fencing => OneHolder
  BY DEF Fencing, TokensAreUnique, OneHolder, HoldsClaim, JobIsTagged
<1> QED BY <1>1, TokensFence, PTL

-----------------------------------------------------------------------------
(* Verdicts.  What a run knows of its work agrees with how it was done.     *)

RunIsJudged(w) ==
  /\ run[w].cause = "parent" => stopping[w]
  /\ run[w].at \in {"report uploaded", "report install"} => run[w].uploaded \/ run[w].silent
  /\ run[w].at = "read cause" =>
       run[w].err \/ run[w].uploaded \/ run[w].silent \/ run[w].cause # "none"
  /\ run[w].at \in {"verdict", "branch"} =>
       run[w].err \/ run[w].uploaded \/ run[w].silent \/ stopping[w]
  /\ run[w].at = "branch" /\ run[w].verdict = "completed" => ~run[w].err
  /\ run[w].at = "settle" /\ run[w].verdict = "completed" => stopping[w]

(***************************************************************************)
(* Between the verdict and the branch the context of the process may still *)
(* be cancelled, and that is the only way to a generic completion.         *)
(***************************************************************************)
Judged == \A w \in Workers : RunIsJudged(w)

(* A job loop between two jobs has nothing to be judged. *)
LEMMA WaitingIsJudged ==
  ASSUME TypeOK, NEW w \in Workers, NEW place \in Claiming \cup Down,
         run' = [run EXCEPT ![w] = Waiting(place)]
  PROVE  RunIsJudged(w)' /\ \A v \in Workers \ {w} : run'[v] = run[v]
<1>1. run'[w] = Waiting(place) /\ \A v \in Workers \ {w} : run'[v] = run[v]
  BY DEF TypeOK
<1>2. /\ run'[w].at = place /\ run'[w].cause = "none" /\ run'[w].verdict = "none"
  BY <1>1 DEF Waiting
<1> QED BY <1>1, <1>2 DEF RunIsJudged, Claiming, Down

(* A run that fails has its error to show. *)
LEMMA FailureIsJudged ==
  ASSUME TypeOK, Judged, NEW w \in Workers, Fail(w), UNCHANGED stopping
  PROVE  RunIsJudged(w)' /\ \A v \in Workers \ {w} : run'[v] = run[v]
<1>1. run[w] \in LocalState
  BY DEF TypeOK
<1>2. /\ run'[w].at = "read cause" /\ run'[w].err = TRUE /\ run'[w].cause = run[w].cause
      /\ \A v \in Workers \ {w} : run'[v] = run[v]
  BY <1>1 DEF Fail, TypeOK, LocalState
<1> QED BY <1>2 DEF Judged, RunIsJudged

(* Moving on changes nothing but the place. *)
GoesTo(w, place) ==
  /\ run'[w].at = place /\ run'[w].err = run[w].err /\ run'[w].silent = run[w].silent
  /\ run'[w].uploaded = run[w].uploaded /\ run'[w].cause = run[w].cause
  /\ run'[w].verdict = run[w].verdict
  /\ \A v \in Workers \ {w} : run'[v] = run[v]

LEMMA GoneTo ==
  ASSUME TypeOK, NEW w \in Workers, NEW place, Goto(w, place)
  PROVE  GoesTo(w, place)
<1>1. run[w] \in LocalState
  BY DEF TypeOK
<1> QED BY <1>1 DEF Goto, GoesTo, TypeOK, LocalState

LEMMA JudgedClaim ==
  ASSUME TypeOK, Judged, NEW w \in Workers,
         \/ ReadSettings(w) \/ ReadWorker(w) \/ (\E j \in Jobs : Claim(w, j))
         \/ ClaimNothing(w) \/ ClaimFails(w) \/ Resolve(w) \/ Restart(w) \/ Start(w)
  PROVE  UNCHANGED stopping /\ RunIsJudged(w)' /\ \A v \in Workers \ {w} : run'[v] = run[v]
<1> USE DEF Judged, RunIsJudged
<1>1. ASSUME NEW place \in Claiming \cup {"transcribe"}, Goto(w, place), UNCHANGED stopping
      PROVE  RunIsJudged(w)' /\ \A v \in Workers \ {w} : run'[v] = run[v]
  BY <1>1, GoneTo DEF GoesTo, Claiming
<1>2. ASSUME NEW j \in Jobs, Claim(w, j)
      PROVE  UNCHANGED stopping /\ RunIsJudged(w)' /\ \A v \in Workers \ {w} : run'[v] = run[v]
  <2>1. run[w] \in LocalState
    BY DEF TypeOK
  <2>2. /\ run'[w].at = "resolve" /\ run'[w].cause = run[w].cause
        /\ \A v \in Workers \ {w} : run'[v] = run[v]
    BY <1>2, <2>1 DEF Claim, TypeOK, LocalState
  <2> QED BY <1>2, <2>2 DEF Claim
<1>3. CASE ReadSettings(w) \/ ReadWorker(w) \/ ClaimNothing(w) \/ ClaimFails(w)
  <2>1. UNCHANGED stopping /\ \E place \in Claiming : Goto(w, place)
    BY <1>3 DEF ReadSettings, ReadWorker, ClaimNothing, ClaimFails, Claiming
  <2> QED BY <1>1, <2>1
<1>4. CASE Resolve(w) \/ Restart(w) \/ Start(w)
  <2>1. UNCHANGED stopping /\ \E place \in {"transcribe", "idle"} : Goto(w, place)
    BY <1>4 DEF Resolve, Restart, Start
  <2> QED BY <1>1, <2>1 DEF Claiming
<1> QED BY <1>2, <1>3, <1>4

LEMMA JudgedWork ==
  ASSUME TypeOK, Judged, NEW w \in Workers,
         \/ ResolveFails(w) \/ Transcribe(w) \/ AfterTranscription(w)
         \/ ReportUpload(w) \/ PrepareUploadFails(w) \/ RecordAttempt(w)
         \/ PutObject(w) \/ PutObjectFails(w) \/ ReportUploaded(w) \/ ReportInstall(w)
  PROVE  UNCHANGED stopping /\ RunIsJudged(w)' /\ \A v \in Workers \ {w} : run'[v] = run[v]
<1>1. UNCHANGED stopping
  BY DEF ResolveFails, Transcribe, AfterTranscription, ReportUpload, PrepareUploadFails,
     RecordAttempt, PutObject, PutObjectFails, ReportUploaded, ReportInstall, Report
<1>2. CASE Fail(w)
  BY <1>1, <1>2, FailureIsJudged
<1>3. CASE Transcribe(w) /\ ~Fail(w)
  <2>1. PICK silent \in BOOLEAN :
          run' = [run EXCEPT ![w] = [run[w] EXCEPT !.silent = silent, !.at = "transcribed"]]
    BY <1>3 DEF Transcribe
  <2>2. /\ run'[w].at = "transcribed" /\ run'[w].cause = run[w].cause
        /\ \A v \in Workers \ {w} : run'[v] = run[v]
    BY <2>1 DEF TypeOK, LocalState
  <2> QED BY <1>1, <2>2 DEF Judged, RunIsJudged
<1>4. CASE AfterTranscription(w)
  <2>1. \/ GoesTo(w, "read cause") /\ run[w].cause # "none"
        \/ GoesTo(w, "report install") /\ run[w].silent
        \/ GoesTo(w, "report upload")
    BY <1>4, GoneTo DEF AfterTranscription
  <2> QED BY <1>1, <2>1 DEF GoesTo, Judged, RunIsJudged
<1>5. CASE (ReportUpload(w) \/ RecordAttempt(w)) /\ ~Fail(w)
  <2>1. \E place \in {"record", "put"} : Goto(w, place)
    BY <1>5 DEF ReportUpload, RecordAttempt, Report
  <2> QED BY <1>1, <2>1, GoneTo DEF GoesTo, Judged, RunIsJudged
<1>6. CASE PutObject(w)
  <2>1. /\ run'[w].at = "report uploaded" /\ run'[w].uploaded = TRUE
        /\ run'[w].cause = run[w].cause /\ \A v \in Workers \ {w} : run'[v] = run[v]
    BY <1>6 DEF PutObject, TypeOK, LocalState
  <2> QED BY <1>1, <2>1 DEF Judged, RunIsJudged
<1>7. CASE (ReportUploaded(w) \/ ReportInstall(w)) /\ ~Fail(w)
  <2>1. \E place \in {"report install", "read cause"} : Goto(w, place)
    BY <1>7 DEF ReportUploaded, ReportInstall, Report
  <2>2. run[w].at \in {"report uploaded", "report install"}
    BY <1>7 DEF ReportUploaded, ReportInstall, At
  <2>3. run[w].uploaded \/ run[w].silent
    BY <2>2 DEF Judged, RunIsJudged
  <2>4. GoesTo(w, "report install") \/ GoesTo(w, "read cause")
    BY <2>1, GoneTo
  <2> QED BY <1>1, <2>3, <2>4 DEF GoesTo, Judged, RunIsJudged
<1>8. CASE ResolveFails(w) \/ PrepareUploadFails(w) \/ PutObjectFails(w)
  BY <1>2, <1>8 DEF ResolveFails, PrepareUploadFails, PutObjectFails
<1> QED BY <1>2, <1>3, <1>4, <1>5, <1>6, <1>7, <1>8

LEMMA JudgedSettle ==
  ASSUME TypeOK, Judged, NEW w \in Workers,
         \/ ReadCause(w) \/ settleUpdate(w) \/ ChooseSettlement(w)
         \/ settlePublished(w) \/ settleNoSpeech(w) \/ settleGeneric(w)
  PROVE  UNCHANGED stopping /\ RunIsJudged(w)' /\ \A v \in Workers \ {w} : run'[v] = run[v]
<1>1. UNCHANGED stopping
  BY DEF ReadCause, settleUpdate, ChooseSettlement, settlePublished, settleNoSpeech, settleGeneric,
     Transaction
<1>2. CASE run' = [run EXCEPT ![w] = Waiting("idle")]
  BY <1>1, <1>2, WaitingIsJudged DEF Claiming
<1>3. CASE settlePublished(w) \/ settleNoSpeech(w) \/ settleGeneric(w)
  BY <1>2, <1>3 DEF settlePublished, settleNoSpeech, settleGeneric, Transaction, Return
<1>4. CASE ReadCause(w) /\ run[w].cause # "lost"
  <2>1. /\ run'[w].at = "verdict" /\ run'[w].err = run[w].err /\ run'[w].silent = run[w].silent
        /\ run'[w].uploaded = run[w].uploaded /\ run'[w].cause = run[w].cause
        /\ \A v \in Workers \ {w} : run'[v] = run[v]
    BY <1>4 DEF ReadCause, TypeOK, LocalState
  <2>2. run[w].cause \in {"none", "parent"} /\ run[w].at = "read cause"
    BY <1>4 DEF TypeOK, LocalState, Causes, ReadCause, At
  <2> QED BY <1>1, <2>1, <2>2 DEF Judged, RunIsJudged
<1>5. CASE ReadCause(w) /\ run[w].cause = "lost"
  BY <1>2, <1>5 DEF ReadCause
<1>6. CASE settleUpdate(w)
  <2>1. /\ run'[w].at = "branch" /\ run'[w].err = run[w].err /\ run'[w].silent = run[w].silent
        /\ run'[w].uploaded = run[w].uploaded /\ run'[w].cause = run[w].cause
        /\ run'[w].verdict = "completed" => ~run[w].err
        /\ \A v \in Workers \ {w} : run'[v] = run[v]
    BY <1>6 DEF settleUpdate, TypeOK, LocalState
  <2>2. run[w].at = "verdict"
    BY <1>6 DEF settleUpdate, At
  <2> QED BY <1>1, <2>1, <2>2 DEF Judged, RunIsJudged
<1>7. CASE ChooseSettlement(w)
  <2>1. run[w].at = "branch"
    BY <1>7 DEF ChooseSettlement, At
  <2>2. \/ GoesTo(w, "settle") /\ (run[w].err \/ stopping[w])
        \/ GoesTo(w, "settle") /\ ~run[w].uploaded /\ ~run[w].silent
        \/ GoesTo(w, "publish") \/ GoesTo(w, "silence")
    BY <1>7, GoneTo DEF ChooseSettlement
  <2> QED BY <1>1, <2>1, <2>2 DEF GoesTo, Judged, RunIsJudged
<1> QED BY <1>3, <1>4, <1>5, <1>6, <1>7

LEMMA JudgedWatcher ==
  ASSUME TypeOK, Judged, NEW w \in Workers, Watcher(w)
  PROVE  UNCHANGED stopping /\ RunIsJudged(w)' /\ \A v \in Workers \ {w} : run'[v] = run[v]
<1>1. UNCHANGED stopping /\ run[w].at \in Working
  BY DEF Watcher, Renew, RenewFails, HandlerProgress, At, Working
<1>2. run' = run \/ run' = [run EXCEPT ![w].cause = "lost"]
  BY DEF Watcher, Renew, RenewFails, HandlerProgress
<1>3. CASE run' = run
  BY <1>1, <1>3 DEF Judged, RunIsJudged
<1>4. CASE run' = [run EXCEPT ![w].cause = "lost"]
  <2>1. /\ run'[w].at = run[w].at /\ run'[w].err = run[w].err /\ run'[w].silent = run[w].silent
        /\ run'[w].uploaded = run[w].uploaded /\ run'[w].cause = "lost"
        /\ \A v \in Workers \ {w} : run'[v] = run[v]
    BY <1>4 DEF TypeOK, LocalState
  <2> QED BY <1>1, <2>1 DEF Judged, RunIsJudged, Working
<1> QED BY <1>2, <1>3, <1>4

LEMMA JudgedProcess ==
  ASSUME TypeOK, Judged, NEW w \in Workers, Exit(w) \/ Shutdown(w) \/ Crash(w)
  PROVE  /\ RunIsJudged(w)'
         /\ \A v \in Workers \ {w} : run'[v] = run[v] /\ stopping'[v] = stopping[v]
<1>1. CASE Exit(w) \/ Crash(w)
  <2>1. \E place \in Down : run' = [run EXCEPT ![w] = Waiting(place)]
    BY <1>1 DEF Exit, Crash, Down
  <2>2. \A v \in Workers \ {w} : stopping'[v] = stopping[v]
    BY <1>1 DEF Exit, Crash, TypeOK
  <2> QED BY <2>1, <2>2, WaitingIsJudged
<1>2. CASE Shutdown(w)
  <2>1. /\ run'[w].at = run[w].at /\ run'[w].err = run[w].err /\ run'[w].silent = run[w].silent
        /\ run'[w].uploaded = run[w].uploaded /\ run'[w].verdict = run[w].verdict
        /\ run[w].cause # "none" => run'[w].cause # "none"
        /\ \A v \in Workers \ {w} : run'[v] = run[v]
    BY <1>2 DEF Shutdown, TypeOK, LocalState
  <2>2. stopping'[w] = TRUE /\ \A v \in Workers \ {w} : stopping'[v] = stopping[v]
    BY <1>2 DEF Shutdown, TypeOK
  <2> QED BY <2>1, <2>2 DEF Judged, RunIsJudged
<1> QED BY <1>1, <1>2

(* A verdict is only overtaken by a cancellation of the process context. *)
LEMMA VerdictsAreJudged == Spec => []Judged
<1>1. Init => Judged
  <2> SUFFICES ASSUME Init, NEW w \in Workers PROVE RunIsJudged(w)
    BY DEF Judged
  <2>1. run[w].at = "idle" /\ run[w].cause = "none"
    BY DEF Init, Waiting
  <2> QED BY <2>1 DEF RunIsJudged
<1>2. TypeOK /\ Judged /\ [Next]_vars => Judged'
  <2> SUFFICES ASSUME TypeOK, Judged, [Next]_vars PROVE Judged'
    OBVIOUS
  <2>1. ASSUME NEW w \in Workers, RunIsJudged(w)',
               \A v \in Workers \ {w} : run'[v] = run[v] /\ stopping'[v] = stopping[v]
        PROVE  Judged'
    BY <2>1 DEF Judged, RunIsJudged
  <2>2. ASSUME NEW w \in Workers, Loop(w) \/ Watcher(w) \/ Process(w) PROVE Judged'
    BY <2>1, <2>2, JudgedClaim, JudgedWork, JudgedSettle, JudgedWatcher, JudgedProcess
       DEF Loop, Process
  <2>3. CASE Environment
    BY <2>3 DEF Environment, LeaseExpires, RetryDue, CancelJob, RetryJob, TrashFile, ToggleQueue,
       ToggleWorker, Judged, RunIsJudged
  <2>4. CASE UNCHANGED vars
    BY <2>4 DEF vars, Judged, RunIsJudged
  <2> QED BY <2>2, <2>3, <2>4 DEF Next
<1> QED BY <1>1, <1>2, TypeCorrect, PTL DEF Spec

-----------------------------------------------------------------------------
(* Effects.  What a step does to the documents that the admin sees: either  *)
(* nothing, or one of the following to one job.                             *)

OthersStay(j) == \A k \in Jobs \ {j} : job'[k] = job[k]

NothingShown == medias' = medias /\ \A f \in Files : file'[f].subtitle = file[f].subtitle

(* Job j goes from one status to another, and keeps what was produced for it. *)
Passes(j, from, to) ==
  /\ job[j].status \in from /\ job'[j].status = to
  /\ job'[j].attempts = job[j].attempts /\ job'[j].stage = job[j].stage
  /\ job'[j].result = job[j].result
  /\ OthersStay(j) /\ NothingShown

(* A run reports progress or records its attempt. *)
Works(j) ==
  /\ job[j].status = "processing" /\ job'[j].status = "processing"
  /\ job'[j].result = job[j].result
  /\ OthersStay(j) /\ NothingShown

Ends(j, stage, result) ==
  /\ job[j].status = "processing" /\ job'[j].status = "completed"
  /\ job'[j].attempts = job[j].attempts
  /\ job'[j].stage = stage /\ job'[j].result = result
  /\ OthersStay(j)

Marks(j, mark) ==
  /\ file'[FileOf[j]].trashed = FALSE /\ file'[FileOf[j]].subtitle = mark
  /\ \A f \in Files \ {FileOf[j]} : file'[f] = file[f]

Publishes(w, j) ==
  /\ Ends(j, "completed", run[w].token) /\ run[w].token # 0
  /\ medias' = medias \cup {[job |-> j, publication |-> run[w].token]}
  /\ Marks(j, "completed")

Silences(j) == Ends(j, "no_speech", job[j].result) /\ medias' = medias /\ Marks(j, "no_speech")

Hollows(w, j) ==
  /\ Ends(j, "completed", job[j].result) /\ NothingShown
  /\ stopping[w] /\ run[w].verdict = "completed"

HolderEffect(w, j) ==
  /\ HoldsClaim(w, j)
  /\ \/ Works(j) \/ Passes(j, {"processing"}, "pending") \/ Passes(j, {"processing"}, "failed")
     \/ Publishes(w, j) \/ Silences(j) \/ Hollows(w, j)

Effect(j) ==
  \/ Passes(j, {job[j].status}, job[j].status)
  \/ Passes(j, {"pending", "processing"}, "processing")
  \/ Passes(j, {"pending", "processing"}, "cancelled")
  \/ Passes(j, {"failed", "cancelled"}, "pending")
  \/ \E w \in Workers : HolderEffect(w, j)

(* What a step of the run of w does: what it writes, it writes as the holder. *)
RunEffect(w) ==
  \/ job' = job /\ NothingShown
  \/ \E j \in Jobs : Passes(j, {"pending", "processing"}, "processing") \/ HolderEffect(w, j)

StepEffect ==
  \/ job' = job /\ NothingShown
  \/ \E j \in Jobs : Effect(j)

(* A run that writes the document of its job holds the claim. *)
LEMMA OwnerHolds ==
  ASSUME NEW w \in Workers, Owns(w)
  PROVE  \E j \in Jobs : run[w].job = j /\ HoldsClaim(w, j) /\ job[j].status = "processing"
BY DEF Owns, ownerFilter, HoldsClaim

LEMMA NothingWritten ==
  ASSUME UNCHANGED <<job, medias, file>> PROVE StepEffect /\ \A w : RunEffect(w)
BY DEF StepEffect, RunEffect, NothingShown

(* The update of one document leaves the others alone. *)
LEMMA OneDocument ==
  ASSUME TypeOK, NEW j \in Jobs, NEW d, job' = [job EXCEPT ![j] = d]
  PROVE  job'[j] = d /\ OthersStay(j) /\ job[j] \in JobDocument
BY DEF TypeOK, OthersStay

LEMMA EffectOfClaim ==
  ASSUME TypeOK, NEW w \in Workers,
         \/ ReadSettings(w) \/ ReadWorker(w) \/ (\E j \in Jobs : Claim(w, j))
         \/ ClaimNothing(w) \/ ClaimFails(w)
  PROVE  RunEffect(w)
<1> USE DEF shared
<1>1. ASSUME NEW j \in Jobs, Take(w, j), UNCHANGED <<file, medias>> PROVE RunEffect(w)
  <2>1. PICK d : /\ job' = [job EXCEPT ![j] = d]
                 /\ d = [job[j] EXCEPT !.status = "processing", !.worker = WorkerId[w],
                           !.token = issued + 1, !.expired = FALSE, !.deferred = FALSE]
    BY <1>1 DEF Take
  <2>2. /\ job'[j] = d /\ OthersStay(j) /\ job[j] \in JobDocument
        /\ job[j].status \in {"pending", "processing"}
    BY <1>1, <2>1, OneDocument DEF Take, claimFilter
  <2>3. /\ d.status = "processing" /\ d.attempts = job[j].attempts
        /\ d.stage = job[j].stage /\ d.result = job[j].result
    BY <2>1, <2>2 DEF JobDocument
  <2>4. Passes(j, {"pending", "processing"}, "processing")
    BY <1>1, <2>2, <2>3 DEF Passes, NothingShown
  <2> QED BY <2>4 DEF RunEffect
<1>2. CASE ReadSettings(w) \/ ReadWorker(w) \/ ClaimNothing(w)
  BY <1>2, NothingWritten DEF ReadSettings, ReadWorker, ClaimNothing
<1>3. CASE \E j \in Jobs : Claim(w, j)
  BY <1>1, <1>3 DEF Claim
<1>4. CASE ClaimFails(w)
  BY <1>1, <1>4, NothingWritten DEF ClaimFails
<1> QED BY <1>2, <1>3, <1>4

(* A write of the holder that touches neither the status nor the result. *)
LEMMA EffectOfWork ==
  ASSUME TypeOK, NEW w \in Workers, Owns(w), UNCHANGED <<file, medias>>,
         NEW d, job' = [job EXCEPT ![run[w].job] = d],
         d.status = job[run[w].job].status, d.result = job[run[w].job].result
  PROVE  RunEffect(w)
<1>1. PICK j \in Jobs : run[w].job = j /\ HoldsClaim(w, j) /\ job[j].status = "processing"
  BY OwnerHolds
<1>2. Works(j)
  BY <1>1, OneDocument DEF Works, NothingShown
<1> QED BY <1>1, <1>2 DEF RunEffect, HolderEffect

LEMMA StageIsWork ==
  ASSUME TypeOK, NEW w \in Workers, Owns(w), UNCHANGED <<file, medias>>, NEW stage,
         job' = [job EXCEPT ![run[w].job].stage = stage]
  PROVE  RunEffect(w)
<1>1. PICK d : d = [job[run[w].job] EXCEPT !.stage = stage]
  OBVIOUS
<1>2. d.status = job[run[w].job].status /\ d.result = job[run[w].job].result
  BY <1>1 DEF Owns, TypeOK, JobDocument
<1> QED BY <1>1, <1>2, EffectOfWork

LEMMA AttemptIsWork ==
  ASSUME TypeOK, NEW w \in Workers, PushAttempt(w), UNCHANGED <<file, medias>>
  PROVE  RunEffect(w)
<1>1. PICK d : /\ job' = [job EXCEPT ![run[w].job] = d]
               /\ d = [job[run[w].job] EXCEPT !.stage = "upload",
                         !.attempts = job[run[w].job].attempts \cup {run[w].token}]
  BY DEF PushAttempt
<1>2. d.status = job[run[w].job].status /\ d.result = job[run[w].job].result
  BY <1>1 DEF PushAttempt, Owns, TypeOK, JobDocument
<1> QED BY <1>1, <1>2, EffectOfWork DEF PushAttempt

LEMMA EffectOfRun ==
  ASSUME TypeOK, NEW w \in Workers,
         \/ Resolve(w) \/ ResolveFails(w) \/ Transcribe(w) \/ AfterTranscription(w)
         \/ ReportUpload(w) \/ PrepareUploadFails(w) \/ RecordAttempt(w)
         \/ PutObject(w) \/ PutObjectFails(w) \/ ReportUploaded(w) \/ ReportInstall(w)
  PROVE  RunEffect(w)
<1> USE DEF shared
<1>1. CASE UNCHANGED <<job, medias, file>>
  BY <1>1, NothingWritten
<1>2. ASSUME NEW stage, NEW next, Report(w, stage, next) PROVE RunEffect(w)
  BY <1>2, NothingWritten, StageIsWork DEF Report
<1>3. CASE ReportUpload(w) \/ ReportUploaded(w) \/ ReportInstall(w)
  BY <1>1, <1>2, <1>3 DEF ReportUpload, ReportUploaded, ReportInstall
<1>4. CASE RecordAttempt(w)
  BY <1>4, NothingWritten, AttemptIsWork DEF RecordAttempt
<1>5. CASE \/ Resolve(w) \/ ResolveFails(w) \/ Transcribe(w) \/ AfterTranscription(w)
           \/ PrepareUploadFails(w) \/ PutObject(w) \/ PutObjectFails(w)
  BY <1>1, <1>5 DEF Resolve, ResolveFails, Transcribe, AfterTranscription, PrepareUploadFails,
     PutObject, PutObjectFails
<1> QED BY <1>3, <1>4, <1>5

LEMMA EffectOfWatcher ==
  ASSUME TypeOK, NEW w \in Workers, Watcher(w) PROVE RunEffect(w)
<1>1. UNCHANGED <<file, medias>>
  BY DEF Watcher, Renew, RenewFails, HandlerProgress
<1>2. ASSUME Owns(w), job' = [job EXCEPT ![run[w].job].expired = FALSE] PROVE RunEffect(w)
  <2>1. PICK d : d = [job[run[w].job] EXCEPT !.expired = FALSE]
    OBVIOUS
  <2>2. d.status = job[run[w].job].status /\ d.result = job[run[w].job].result
    BY <1>2, <2>1 DEF Owns, TypeOK, JobDocument
  <2> QED BY <1>1, <1>2, <2>1, <2>2, EffectOfWork
<1>3. CASE UNCHANGED job
  BY <1>1, <1>3, NothingWritten
<1>4. CASE Renew(w) \/ RenewFails(w)
  BY <1>2, <1>3, <1>4 DEF Renew, RenewFails
<1>5. CASE HandlerProgress(w)
  BY <1>1, <1>3, <1>5, StageIsWork DEF HandlerProgress
<1> QED BY <1>4, <1>5 DEF Watcher

-----------------------------------------------------------------------------

LEMMA CompletionEnds ==
  ASSUME TypeOK, NEW j \in Jobs, job[j].status = "processing", NEW stage, NEW result,
         Completed(j, stage, result)
  PROVE  Ends(j, stage, result)
<1>1. PICK d : /\ job' = [job EXCEPT ![j] = d]
               /\ d = [job[j] EXCEPT !.status = "completed", !.token = 0, !.expired = FALSE,
                         !.stage = stage, !.result = result]
  BY DEF Completed
<1>2. job'[j] = d /\ OthersStay(j) /\ job[j] \in JobDocument
  BY <1>1, OneDocument
<1>3. /\ d.status = "completed" /\ d.attempts = job[j].attempts
      /\ d.stage = stage /\ d.result = result
  BY <1>1, <1>2 DEF JobDocument
<1> QED BY <1>2, <1>3 DEF Ends

LEMMA MarkingMarks ==
  ASSUME TypeOK, NEW j \in Jobs, ~file[FileOf[j]].trashed, NEW mark, MarkFile(j, mark)
  PROVE  Marks(j, mark)
<1>1. FileOf[j] \in Files /\ file[FileOf[j]] \in FileDocument
  BY ConstantsAssumption DEF TypeOK
<1>2. PICK d : file' = [file EXCEPT ![FileOf[j]] = d] /\ d = [file[FileOf[j]] EXCEPT !.subtitle = mark]
  BY DEF MarkFile
<1>3. d.trashed = FALSE /\ d.subtitle = mark
  BY <1>1, <1>2 DEF FileDocument
<1> QED BY <1>1, <1>2, <1>3 DEF Marks, TypeOK

LEMMA EffectOfVerdict ==
  ASSUME TypeOK, Judged, NEW w \in Workers, At(w, "settle"), ApplyVerdict(w),
         UNCHANGED <<file, medias>>
  PROVE  RunEffect(w)
<1>1. PICK j \in Jobs : run[w].job = j /\ HoldsClaim(w, j) /\ job[j].status = "processing"
  BY OwnerHolds DEF ApplyVerdict
<1>2. NothingShown
  BY DEF NothingShown
<1>3. CASE GiveBack(j)
  <2>1. PICK d : /\ job' = [job EXCEPT ![j] = d]
                 /\ d = [job[j] EXCEPT !.status = "pending", !.worker = None, !.token = 0,
                           !.expired = FALSE]
    BY <1>3 DEF GiveBack
  <2>2. job'[j] = d /\ OthersStay(j) /\ job[j] \in JobDocument
    BY <2>1, OneDocument
  <2>3. /\ d.status = "pending" /\ d.attempts = job[j].attempts
        /\ d.stage = job[j].stage /\ d.result = job[j].result
    BY <2>1, <2>2 DEF JobDocument
  <2>4. Passes(j, {"processing"}, "pending")
    BY <1>1, <1>2, <2>2, <2>3 DEF Passes
  <2> QED BY <1>1, <2>4 DEF RunEffect, HolderEffect
<1>4. CASE MarkFailed(j)
  <2>1. PICK d : /\ job' = [job EXCEPT ![j] = d]
                 /\ d = [job[j] EXCEPT !.status = "failed", !.token = 0, !.expired = FALSE]
    BY <1>4 DEF MarkFailed
  <2>2. job'[j] = d /\ OthersStay(j) /\ job[j] \in JobDocument
    BY <2>1, OneDocument
  <2>3. /\ d.status = "failed" /\ d.attempts = job[j].attempts
        /\ d.stage = job[j].stage /\ d.result = job[j].result
    BY <2>1, <2>2 DEF JobDocument
  <2>4. Passes(j, {"processing"}, "failed")
    BY <1>1, <1>2, <2>2, <2>3 DEF Passes
  <2> QED BY <1>1, <2>4 DEF RunEffect, HolderEffect
<1>5. CASE run[w].verdict = "completed" /\ Completed(j, "completed", job[j].result)
  <2>1. Ends(j, "completed", job[j].result)
    BY <1>1, <1>5, CompletionEnds
  <2>2. stopping[w]
    BY <1>5 DEF Judged, RunIsJudged, At
  <2>3. Hollows(w, j)
    BY <1>2, <1>5, <2>1, <2>2 DEF Hollows
  <2> QED BY <1>1, <2>3 DEF RunEffect, HolderEffect
<1> QED BY <1>1, <1>3, <1>4, <1>5 DEF ApplyVerdict

LEMMA EffectOfSettlement ==
  ASSUME TypeOK, Fencing, Judged, NEW w \in Workers,
         \/ ReadCause(w) \/ settleUpdate(w) \/ ChooseSettlement(w)
         \/ settlePublished(w) \/ settleNoSpeech(w) \/ settleGeneric(w)
  PROVE  RunEffect(w)
<1> USE DEF shared
<1>1. CASE UNCHANGED <<job, medias, file>>
  BY <1>1, NothingWritten
<1>2. CASE CommitPublication(w)
  <2>1. PICK j \in Jobs : run[w].job = j /\ HoldsClaim(w, j) /\ job[j].status = "processing"
    BY <1>2, OwnerHolds DEF CommitPublication
  <2>2. Ends(j, "completed", run[w].token)
    BY <1>2, <2>1, CompletionEnds DEF CommitPublication
  <2>3. Marks(j, "completed")
    BY <1>2, <2>1, MarkingMarks DEF CommitPublication
  <2>4. run[w].token # 0
    BY <2>1 DEF HoldsClaim, Fencing, JobIsTagged
  <2>5. Publishes(w, j)
    BY <1>2, <2>1, <2>2, <2>3, <2>4 DEF CommitPublication, Publishes
  <2> QED BY <2>1, <2>5 DEF RunEffect, HolderEffect
<1>3. CASE CommitNoSpeech(w)
  <2>1. PICK j \in Jobs : run[w].job = j /\ HoldsClaim(w, j) /\ job[j].status = "processing"
    BY <1>3, OwnerHolds DEF CommitNoSpeech
  <2>2. Ends(j, "no_speech", job[j].result)
    BY <1>3, <2>1, CompletionEnds DEF CommitNoSpeech
  <2>3. Marks(j, "no_speech")
    BY <1>3, <2>1, MarkingMarks DEF CommitNoSpeech
  <2>4. Silences(j)
    BY <1>3, <2>2, <2>3 DEF CommitNoSpeech, Silences
  <2> QED BY <2>1, <2>4 DEF RunEffect, HolderEffect
<1>4. CASE settlePublished(w) \/ settleNoSpeech(w)
  BY <1>1, <1>2, <1>3, <1>4 DEF settlePublished, settleNoSpeech, Transaction
<1>5. CASE settleGeneric(w)
  BY <1>1, <1>5, EffectOfVerdict DEF settleGeneric
<1>6. CASE ReadCause(w) \/ settleUpdate(w) \/ ChooseSettlement(w)
  BY <1>1, <1>6 DEF ReadCause, settleUpdate, ChooseSettlement
<1> QED BY <1>4, <1>5, <1>6

LEMMA EffectOfEnvironment ==
  ASSUME TypeOK, Environment PROVE StepEffect
<1> USE DEF shared
<1>1. CASE job' = job
  <2>1. UNCHANGED medias /\ \A f \in Files : file'[f].subtitle = file[f].subtitle
    <3>1. ASSUME NEW f \in Files, TrashFile(f)
          PROVE  \A g \in Files : file'[g].subtitle = file[g].subtitle
      BY <3>1 DEF TrashFile, TypeOK, FileDocument
    <3> QED BY <3>1 DEF Environment, LeaseExpires, RetryDue, CancelJob, RetryJob, TrashFile,
               ToggleQueue, ToggleWorker
  <2> QED BY <1>1, <2>1 DEF StepEffect, NothingShown
<1>2. ASSUME NEW j \in Jobs, NEW from, NEW to, NEW d, job' = [job EXCEPT ![j] = d],
             UNCHANGED <<file, medias>>, job[j].status \in from, d.status = to,
             d.attempts = job[j].attempts, d.stage = job[j].stage, d.result = job[j].result
      PROVE  Passes(j, from, to)
  BY <1>2, OneDocument DEF Passes, NothingShown
<1>3. ASSUME NEW j \in Jobs, LeaseExpires(j) \/ RetryDue(j) PROVE StepEffect
  <2>1. PICK d : /\ job' = [job EXCEPT ![j] = d]
                 /\ d \in {[job[j] EXCEPT !.expired = TRUE], [job[j] EXCEPT !.deferred = FALSE]}
    BY <1>3 DEF LeaseExpires, RetryDue
  <2>2. /\ d.status = job[j].status /\ d.attempts = job[j].attempts
        /\ d.stage = job[j].stage /\ d.result = job[j].result
    BY <2>1 DEF TypeOK, JobDocument
  <2>3. Passes(j, {job[j].status}, job[j].status)
    BY <1>2, <1>3, <2>1, <2>2 DEF LeaseExpires, RetryDue
  <2> QED BY <2>3 DEF StepEffect, Effect
<1>4. ASSUME NEW j \in Jobs, CancelJob(j) PROVE StepEffect
  <2>1. PICK d : job' = [job EXCEPT ![j] = d] /\ d = [job[j] EXCEPT !.status = "cancelled"]
    BY <1>4 DEF CancelJob
  <2>2. /\ d.status = "cancelled" /\ d.attempts = job[j].attempts
        /\ d.stage = job[j].stage /\ d.result = job[j].result
    BY <2>1 DEF TypeOK, JobDocument
  <2>3. Passes(j, {"pending", "processing"}, "cancelled")
    BY <1>2, <1>4, <2>1, <2>2 DEF CancelJob
  <2> QED BY <2>3 DEF StepEffect, Effect
<1>5. ASSUME NEW j \in Jobs, RetryJob(j) PROVE StepEffect
  <2>1. PICK later \in BOOLEAN :
          job' = [job EXCEPT ![j] = [job[j] EXCEPT !.status = "pending", !.worker = None,
                    !.token = 0, !.expired = FALSE, !.deferred = later]]
    BY <1>5 DEF RetryJob
  <2>2. PICK d : d = [job[j] EXCEPT !.status = "pending", !.worker = None,
                        !.token = 0, !.expired = FALSE, !.deferred = later]
    OBVIOUS
  <2>3. /\ d.status = "pending" /\ d.attempts = job[j].attempts
        /\ d.stage = job[j].stage /\ d.result = job[j].result
    BY <2>2 DEF TypeOK, JobDocument
  <2>4. Passes(j, {"failed", "cancelled"}, "pending")
    BY <1>2, <1>5, <2>1, <2>2, <2>3 DEF RetryJob
  <2> QED BY <2>4 DEF StepEffect, Effect
<1> QED BY <1>1, <1>3, <1>4, <1>5 DEF Environment, TrashFile, ToggleQueue, ToggleWorker

LEMMA ExitWritesNothing ==
  ASSUME NEW w \in Workers, Exit(w) \/ Process(w) PROVE UNCHANGED <<job, medias, file>>
BY DEF Exit, Process, Shutdown, Crash, Restart, Start, shared

LEMMA RunsHaveEffects ==
  ASSUME TypeOK, Fencing, Judged, NEW w \in Workers, Acts(w) PROVE RunEffect(w)
BY EffectOfClaim, EffectOfRun, EffectOfSettlement, EffectOfWatcher, ExitWritesNothing, NothingWritten
   DEF Acts, Loop

(* Every step has one of the effects. *)
LEMMA StepsHaveEffects ==
  ASSUME TypeOK, Fencing, Judged, [Next]_vars PROVE StepEffect
<1>1. ASSUME NEW w \in Workers, Acts(w) PROVE StepEffect
  BY <1>1, RunsHaveEffects DEF RunEffect, StepEffect, Effect
<1>2. ASSUME NEW w \in Workers, Loop(w) \/ Watcher(w) \/ Process(w) PROVE StepEffect
  BY <1>1, <1>2, ExitWritesNothing, NothingWritten DEF Acts
<1>3. CASE UNCHANGED vars
  BY <1>3, NothingWritten DEF vars
<1> QED BY <1>2, <1>3, EffectOfEnvironment DEF Next

-----------------------------------------------------------------------------
(* What the effects allow. *)

LEMMA OneEffect ==
  ASSUME TypeOK, StepEffect, NEW j \in Jobs, job'[j] # job[j]
  PROVE  Effect(j)
<1>1. PICK k \in Jobs : Effect(k)
  BY DEF StepEffect
<1>2. OthersStay(k)
  BY <1>1 DEF Effect, HolderEffect, Passes, Works, Publishes, Silences, Hollows, Ends
<1>3. k = j
  BY <1>2 DEF OthersStay
<1> QED BY <1>1, <1>3

(* Attempts, stage and outcome are not the environment's or a signal's to write. *)
LEMMA EnvironmentPasses ==
  ASSUME TypeOK, Environment, NEW j \in Jobs
  PROVE  /\ job'[j].attempts = job[j].attempts /\ job'[j].stage = job[j].stage
         /\ job'[j].status \in {job[j].status, "pending", "cancelled"}
<1>1. CASE job' = job
  BY <1>1
<1>2. ASSUME NEW k \in Jobs, LeaseExpires(k) \/ RetryDue(k) \/ CancelJob(k) \/ RetryJob(k)
      PROVE  /\ job'[j].attempts = job[j].attempts /\ job'[j].stage = job[j].stage
             /\ job'[j].status \in {job[j].status, "pending", "cancelled"}
  <2>1. PICK d : /\ job' = [job EXCEPT ![k] = d]
                 /\ d.attempts = job[k].attempts /\ d.stage = job[k].stage
                 /\ d.status \in {job[k].status, "pending", "cancelled"}
    <3>1. ASSUME NEW later
          PROVE  \A d \in {[job[k] EXCEPT !.expired = TRUE], [job[k] EXCEPT !.deferred = FALSE],
                          [job[k] EXCEPT !.status = "cancelled"],
                          [job[k] EXCEPT !.status = "pending", !.worker = None, !.token = 0,
                             !.expired = FALSE, !.deferred = later]} :
                   /\ d.attempts = job[k].attempts /\ d.stage = job[k].stage
                   /\ d.status \in {job[k].status, "pending", "cancelled"}
      BY DEF TypeOK, JobDocument
    <3> QED BY <1>2, <3>1 DEF LeaseExpires, RetryDue, CancelJob, RetryJob
  <2> QED BY <2>1, OneDocument
<1> QED BY <1>1, <1>2 DEF Environment, TrashFile, ToggleQueue, ToggleWorker, shared

(***************************************************************************)
(* A job gets an attempt, a stage or an outcome only by a step of the run  *)
(* that holds its current claim: no step of another run does it, whatever  *)
(* was taken over, cancelled or retried meanwhile.                         *)
(***************************************************************************)
THEOREM OnlyHoldersWrite == Spec => OnlyHolderWrites
<1>1. TypeOK /\ Fencing /\ Judged /\ [Next]_vars => WrittenByHolder
  <2> SUFFICES ASSUME TypeOK, Fencing, Judged, [Next]_vars, NEW j \in Jobs, Written(j)
               PROVE  /\ \E w \in Workers : Acts(w)
                      /\ \A w \in Workers : Acts(w) => HoldsClaim(w, j)
    BY DEF WrittenByHolder
  <2>1. job'[j] # job[j]
    BY DEF Written
  <2>2. ~Environment
    BY EnvironmentPasses DEF Written
  <2>3. \E w \in Workers : Acts(w)
    BY <2>1, <2>2, ExitWritesNothing DEF Next, vars, Acts
  <2>4. ASSUME NEW w \in Workers, Acts(w) PROVE HoldsClaim(w, j)
    <3>1. PICK k \in Jobs : Passes(k, {"pending", "processing"}, "processing") \/ HolderEffect(w, k)
      BY <2>1, <2>4, RunsHaveEffects DEF RunEffect
    <3>2. OthersStay(k)
      BY <3>1 DEF HolderEffect, Passes, Works, Publishes, Silences, Hollows, Ends
    <3>3. k = j
      BY <2>1, <3>2 DEF OthersStay
    <3> QED BY <3>1, <3>3 DEF HolderEffect, Passes, Written
  <2> QED BY <2>3, <2>4
<1> QED BY <1>1, TypeCorrect, TokensFence, VerdictsAreJudged, PTL DEF Spec, OnlyHolderWrites

(***************************************************************************)
(* A completed job is never written again, and a failed or cancelled one   *)
(* only by the admin's retry, which keeps its attempts.                    *)
(***************************************************************************)
THEOREM SettledStaysFinal == Spec => SettledIsFinal
<1> DEFINE Frozen(j) ==
             job[j].status \in {"completed", "failed", "cancelled"} =>
               /\ job'[j].attempts = job[j].attempts
               /\ job'[j].stage = job[j].stage
               /\ job'[j].result = job[j].result
               /\ \/ job'[j].status = job[j].status
                  \/ job[j].status # "completed" /\ job'[j].status = "pending"
<1>1. TypeOK /\ Fencing /\ Judged /\ [Next]_vars => \A j \in Jobs : Frozen(j)
  <2> SUFFICES ASSUME TypeOK, Fencing, Judged, [Next]_vars, NEW j \in Jobs, job'[j] # job[j]
               PROVE  Frozen(j)
    OBVIOUS
  <2>1. Effect(j)
    BY StepsHaveEffects, OneEffect
  <2> QED BY <2>1 DEF Effect, HolderEffect, Passes, Works, Publishes, Silences, Hollows, Ends
<1> QED BY <1>1, TypeCorrect, TokensFence, VerdictsAreJudged, PTL DEF Spec, SettledIsFinal

(***************************************************************************)
(* Media, mark and completion appear together, for a file out of the       *)
(* trash, under a claim that is held; no mark changes in any other way.    *)
(***************************************************************************)
THEOREM PublicationStaysAtomic == Spec => PublicationIsAtomic
<1> DEFINE Whole ==
             /\ \A m \in medias' \ medias :
                  /\ \E w \in Workers : HoldsClaim(w, m.job)
                  /\ job'[m.job].status = "completed"
                  /\ file'[FileOf[m.job]] = [trashed |-> FALSE, subtitle |-> "completed"]
             /\ \A f \in Files :
                  file'[f].subtitle # file[f].subtitle =>
                    \E j \in Jobs : /\ FileOf[j] = f
                                    /\ \E w \in Workers : HoldsClaim(w, j)
                                    /\ job'[j].status = "completed"
<1>1. TypeOK /\ TypeOK' /\ Fencing /\ Judged /\ [Next]_vars => Whole
  <2> SUFFICES ASSUME TypeOK, TypeOK', Fencing, Judged, [Next]_vars PROVE Whole
    OBVIOUS
  <2>1. CASE NothingShown
    BY <2>1 DEF NothingShown
  <2>2. ASSUME NEW w \in Workers, NEW j \in Jobs, HoldsClaim(w, j), Publishes(w, j) PROVE Whole
    <3>1. FileOf[j] \in Files /\ file'[FileOf[j]] \in FileDocument
      BY ConstantsAssumption DEF TypeOK
    <3>2. file'[FileOf[j]] = [trashed |-> FALSE, subtitle |-> "completed"]
      BY <2>2, <3>1 DEF Publishes, Marks, FileDocument
    <3>3. \A m \in medias' \ medias : m.job = j
      BY <2>2 DEF Publishes
    <3>4. job'[j].status = "completed" /\ \A f \in Files \ {FileOf[j]} : file'[f] = file[f]
      BY <2>2 DEF Publishes, Ends, Marks
    <3> QED BY <2>2, <3>1, <3>2, <3>3, <3>4
  <2>3. ASSUME NEW w \in Workers, NEW j \in Jobs, HoldsClaim(w, j), Silences(j) PROVE Whole
    BY <2>3 DEF Silences, Ends, Marks
  <2>4. StepEffect
    BY StepsHaveEffects
  <2> QED BY <2>1, <2>2, <2>3, <2>4 DEF StepEffect, Effect, HolderEffect, Passes, Works, Hollows
<1> QED BY <1>1, TypeCorrect, TokensFence, VerdictsAreJudged, PTL DEF Spec, PublicationIsAtomic

(***************************************************************************)
(* A completion with nothing to show is always a run whose process was     *)
(* told to stop between its verdict and the choice of its settlement.      *)
(***************************************************************************)
THEOREM OnlyShutdownHollows == Spec => HollowOnlyOnShutdown
<1> DEFINE Explained(j) ==
             ~Hollow(j) /\ Hollow(j)' =>
               \E w \in Workers : /\ HoldsClaim(w, j)
                                  /\ stopping[w]
                                  /\ run[w].verdict = "completed"
<1>1. TypeOK /\ Fencing /\ Judged /\ [Next]_vars => \A j \in Jobs : Explained(j)
  <2> SUFFICES ASSUME TypeOK, Fencing, Judged, [Next]_vars, NEW j \in Jobs, ~Hollow(j), Hollow(j)'
               PROVE  \E w \in Workers : /\ HoldsClaim(w, j)
                                         /\ stopping[w]
                                         /\ run[w].verdict = "completed"
    OBVIOUS
  <2>1. Effect(j)
    BY StepsHaveEffects, OneEffect DEF Hollow
  <2>2. ASSUME NEW from, NEW to, Passes(j, from, to), to = job[j].status \/ to # "completed" PROVE FALSE
    BY <2>2 DEF Passes, Hollow
  <2>3. ~Works(j) /\ ~Silences(j) /\ \A w \in Workers : ~Publishes(w, j)
    BY DEF Works, Silences, Publishes, Ends, Hollow
  <2> QED BY <2>1, <2>2, <2>3 DEF Effect, HolderEffect, Hollows
<1> QED BY <1>1, TypeCorrect, TokensFence, VerdictsAreJudged, PTL DEF Spec, HollowOnlyOnShutdown

(***************************************************************************)
(* A file is marked completed only while it has a media, no_speech only by *)
(* a job completed as such, and is unmarked only while it has no media.    *)
(***************************************************************************)
THEOREM FileMarksAlwaysEarned == Spec => []FileMarksAreEarned
<1>1. Init => FileMarksAreEarned
  BY DEF Init, FileMarksAreEarned
<1>2. TypeOK /\ Fencing /\ Judged /\ FileMarksAreEarned /\ [Next]_vars => FileMarksAreEarned'
  <2> SUFFICES ASSUME TypeOK, Fencing, Judged, FileMarksAreEarned, [Next]_vars, NEW f \in Files
               PROVE  /\ file'[f].subtitle = "completed" => \E m \in medias' : FileOf[m.job] = f
                      /\ file'[f].subtitle = "no_speech" =>
                           \E j \in Jobs : /\ FileOf[j] = f
                                           /\ job'[j].status = "completed"
                                           /\ job'[j].stage = "no_speech"
                      /\ file'[f].subtitle = "none" => \A m \in medias' : FileOf[m.job] # f
    BY DEF FileMarksAreEarned
  <2>1. StepEffect
    BY StepsHaveEffects
  <2>2. \A j \in Jobs : job[j].status = "completed" =>
          job'[j].status = "completed" /\ job'[j].stage = job[j].stage
    <3> SUFFICES ASSUME NEW j \in Jobs, job[j].status = "completed", job'[j] # job[j]
                 PROVE  job'[j].status = "completed" /\ job'[j].stage = job[j].stage
      OBVIOUS
    <3>1. Effect(j)
      BY <2>1, OneEffect
    <3> QED BY <3>1 DEF Effect, HolderEffect, Passes, Works, Publishes, Silences, Hollows, Ends
  <2>3. CASE NothingShown
    BY <2>2, <2>3 DEF NothingShown, FileMarksAreEarned
  <2>4. ASSUME NEW w \in Workers, NEW j \in Jobs, Publishes(w, j)
        PROVE  /\ medias' = medias \cup {[job |-> j, publication |-> run[w].token]}
               /\ file'[FileOf[j]].subtitle = "completed"
               /\ \A g \in Files \ {FileOf[j]} : file'[g] = file[g]
    BY <2>4 DEF Publishes, Marks
  <2>5. ASSUME NEW j \in Jobs, Silences(j)
        PROVE  /\ medias' = medias /\ job'[j].status = "completed" /\ job'[j].stage = "no_speech"
               /\ file'[FileOf[j]].subtitle = "no_speech"
               /\ \A g \in Files \ {FileOf[j]} : file'[g] = file[g]
    BY <2>5 DEF Silences, Ends, Marks
  <2>6. CASE \E w \in Workers : \E j \in Jobs : Publishes(w, j)
    <3> PICK w \in Workers, j \in Jobs : Publishes(w, j)
      BY <2>6
    <3>1. CASE f = FileOf[j]
      <4>1. [job |-> j, publication |-> run[w].token] \in medias'
        BY <2>4
      <4> QED BY <2>4, <3>1, <4>1
    <3>2. CASE f # FileOf[j]
      <4>1. file'[f] = file[f] /\ medias \subseteq medias'
        BY <2>4, <3>2
      <4>2. \A m \in medias' : m \in medias \/ FileOf[m.job] # f
        BY <2>4, <3>2
      <4> QED BY <2>2, <4>1, <4>2 DEF FileMarksAreEarned
    <3> QED BY <3>1, <3>2
  <2>7. CASE \E j \in Jobs : Silences(j)
    <3> PICK j \in Jobs : Silences(j)
      BY <2>7
    <3> QED BY <2>2, <2>5 DEF FileMarksAreEarned
  <2> QED BY <2>1, <2>3, <2>6, <2>7 DEF StepEffect, Effect, HolderEffect, Passes, Works, Hollows
<1> QED BY <1>1, <1>2, TypeCorrect, TokensFence, VerdictsAreJudged, PTL DEF Spec

-----------------------------------------------------------------------------
(* Refinement: each effect is a step of the contract on its job, or none.   *)

LEMMA StateByStatus ==
  ASSUME NEW j \in Jobs
  PROVE  /\ job[j].status = "pending" => StateOf(j) = "waiting"
         /\ job[j].status = "processing" => StateOf(j) = "running"
         /\ job[j].status = "failed" => StateOf(j) = "failed"
         /\ job[j].status = "cancelled" => StateOf(j) = "cancelled"
         /\ job[j].status = "completed" /\ job[j].result # 0 => StateOf(j) = "published"
         /\ job[j].status = "completed" /\ job[j].result = 0 /\ job[j].stage = "no_speech" =>
              StateOf(j) = "silent"
         /\ job[j].status = "completed" /\ job[j].result = 0 /\ job[j].stage # "no_speech" =>
              StateOf(j) = "hollow"
BY DEF StateOf

LEMMA StateAfter ==
  ASSUME NEW j \in Jobs
  PROVE  /\ job'[j].status = "pending" => StateOf(j)' = "waiting"
         /\ job'[j].status = "processing" => StateOf(j)' = "running"
         /\ job'[j].status = "failed" => StateOf(j)' = "failed"
         /\ job'[j].status = "cancelled" => StateOf(j)' = "cancelled"
         /\ job'[j].status = "completed" /\ job'[j].result # 0 => StateOf(j)' = "published"
         /\ job'[j].status = "completed" /\ job'[j].result = 0 /\ job'[j].stage = "no_speech" =>
              StateOf(j)' = "silent"
         /\ job'[j].status = "completed" /\ job'[j].result = 0 /\ job'[j].stage # "no_speech" =>
              StateOf(j)' = "hollow"
BY DEF StateOf

(* Documents that agree on what is reported are in one state. *)
LEMMA SameState ==
  ASSUME NEW j \in Jobs, job'[j].status = job[j].status, job'[j].result = job[j].result,
         job'[j].stage = job[j].stage \/ job[j].status # "completed"
  PROVE  StateOf(j)' = StateOf(j)
BY DEF StateOf

LEMMA OthersKeepState ==
  ASSUME NEW j \in Jobs, OthersStay(j), NEW from, NEW to, StateOf(j) \in from, StateOf(j)' = to
  PROVE  Contract!Move(j, from, to)
<1>1. \A k \in Jobs \ {j} : StateOf(k)' = StateOf(k)
  BY DEF OthersStay, StateOf
<1>2. [k \in Jobs |-> StateOf(k)]' = [[k \in Jobs |-> StateOf(k)] EXCEPT ![j] = to]
  BY <1>1
<1> QED BY <1>2 DEF Contract!Move

LEMMA NoStateMoves ==
  ASSUME \A j \in Jobs : StateOf(j)' = StateOf(j), NothingShown
  PROVE  UNCHANGED Contract!contractVars
<1>1. [j \in Jobs |-> StateOf(j)]' = [j \in Jobs |-> StateOf(j)]
  OBVIOUS
<1>2. {m.job : m \in medias}' = {m.job : m \in medias}
  BY DEF NothingShown
<1>3. [f \in Files |-> file[f].subtitle]' = [f \in Files |-> file[f].subtitle]
  BY DEF NothingShown
<1> QED BY <1>1, <1>2, <1>3 DEF Contract!contractVars

LEMMA NothingShownUnseen ==
  ASSUME NothingShown
  PROVE  UNCHANGED <<{m.job : m \in medias}, [f \in Files |-> file[f].subtitle]>>
BY DEF NothingShown

LEMMA MarkIsSeen ==
  ASSUME NEW j \in Jobs, NEW mark, Marks(j, mark)
  PROVE  [f \in Files |-> file[f].subtitle]'
           = [[f \in Files |-> file[f].subtitle] EXCEPT ![FileOf[j]] = mark]
BY ConstantsAssumption DEF Marks

LEMMA HolderKeepsContract ==
  ASSUME TypeOK, Fencing, NEW w \in Workers, NEW j \in Jobs, HolderEffect(w, j)
  PROVE  Contract!ContractNext \/ UNCHANGED Contract!contractVars
<1>1. job[j].status = "processing" /\ job[j].result = 0 /\ StateOf(j) = "running"
  BY StateByStatus DEF HolderEffect, HoldsClaim, Fencing, JobIsTagged
<1>2. CASE Works(j)
  <2>1. StateOf(j)' = StateOf(j)
    BY <1>1, <1>2, SameState DEF Works
  <2>2. \A k \in Jobs : StateOf(k)' = StateOf(k)
    BY <1>2, <2>1 DEF Works, OthersStay, StateOf
  <2> QED BY <1>2, <2>2, NoStateMoves DEF Works
<1>3. CASE Passes(j, {"processing"}, "pending")
  <2>1. Contract!Move(j, {"running"}, "waiting")
    BY <1>1, <1>3, StateAfter, OthersKeepState DEF Passes
  <2>2. Contract!GiveBack(j)
    BY <1>3, <2>1, NothingShownUnseen DEF Passes, Contract!GiveBack
  <2> QED BY <2>2 DEF Contract!ContractNext
<1>4. CASE Passes(j, {"processing"}, "failed")
  <2>1. Contract!Move(j, {"running"}, "failed")
    BY <1>1, <1>4, StateAfter, OthersKeepState DEF Passes
  <2>2. Contract!GiveUp(j)
    BY <1>4, <2>1, NothingShownUnseen DEF Passes, Contract!GiveUp
  <2> QED BY <2>2 DEF Contract!ContractNext
<1>5. CASE Publishes(w, j)
  <2>1. Contract!Move(j, {"running"}, "published")
    BY <1>1, <1>5, StateAfter, OthersKeepState DEF Publishes, Ends
  <2>2. j \notin {m.job : m \in medias}
    BY <1>1 DEF Fencing, MediaIsBacked
  <2>3. {m.job : m \in medias}' = {m.job : m \in medias} \cup {j}
    <3>1. PICK r : r = [job |-> j, publication |-> run[w].token]
      OBVIOUS
    <3>2. r.job = j /\ medias' = medias \cup {r}
      BY <1>5, <3>1 DEF Publishes
    <3> QED BY <3>2, Zenon
  <2>4. Contract!Publish(j)
    BY <1>5, <2>1, <2>2, <2>3, MarkIsSeen DEF Publishes, Contract!Publish
  <2> QED BY <2>4 DEF Contract!ContractNext
<1>6. CASE Silences(j)
  <2>1. Contract!Move(j, {"running"}, "silent")
    BY <1>1, <1>6, StateAfter, OthersKeepState DEF Silences, Ends
  <2>2. {m.job : m \in medias}' = {m.job : m \in medias}
    BY <1>6 DEF Silences
  <2>3. Contract!Silence(j)
    BY <1>6, <2>1, <2>2, MarkIsSeen DEF Silences, Contract!Silence
  <2> QED BY <2>3 DEF Contract!ContractNext
<1>7. CASE Hollows(w, j)
  <2>1. Contract!Move(j, {"running"}, "hollow")
    BY <1>1, <1>7, StateAfter, OthersKeepState DEF Hollows, Ends
  <2>2. Contract!Hollow(j)
    BY <1>7, <2>1, NothingShownUnseen DEF Hollows, Contract!Hollow
  <2> QED BY <2>2 DEF Contract!ContractNext
<1> QED BY <1>2, <1>3, <1>4, <1>5, <1>6, <1>7 DEF HolderEffect

LEMMA EffectKeepsContract ==
  ASSUME TypeOK, Fencing, NEW j \in Jobs, Effect(j)
  PROVE  Contract!ContractNext \/ UNCHANGED Contract!contractVars
<1>1. CASE \E w \in Workers : HolderEffect(w, j)
  BY <1>1, HolderKeepsContract
<1>2. ASSUME NEW from, NEW to, Passes(j, from, to), job[j].status = to
      PROVE  UNCHANGED Contract!contractVars
  <2>1. \A k \in Jobs : StateOf(k)' = StateOf(k)
    BY <1>2, SameState DEF Passes, OthersStay, StateOf
  <2> QED BY <1>2, <2>1, NoStateMoves DEF Passes
<1>3. CASE Passes(j, {"pending", "processing"}, "processing") /\ job[j].status = "pending"
  <2>1. Contract!Move(j, {"waiting"}, "running")
    BY <1>3, StateByStatus, StateAfter, OthersKeepState DEF Passes
  <2>2. Contract!Begin(j)
    BY <1>3, <2>1, NothingShownUnseen DEF Passes, Contract!Begin
  <2> QED BY <2>2 DEF Contract!ContractNext
<1>4. CASE Passes(j, {"pending", "processing"}, "cancelled")
  <2>1. Contract!Move(j, {"waiting", "running"}, "cancelled")
    BY <1>4, StateByStatus, StateAfter, OthersKeepState DEF Passes
  <2>2. Contract!Cancel(j)
    BY <1>4, <2>1, NothingShownUnseen DEF Passes, Contract!Cancel
  <2> QED BY <2>2 DEF Contract!ContractNext
<1>5. CASE Passes(j, {"failed", "cancelled"}, "pending")
  <2>1. Contract!Move(j, {"failed", "cancelled"}, "waiting")
    BY <1>5, StateByStatus, StateAfter, OthersKeepState DEF Passes
  <2>2. Contract!Retry(j)
    BY <1>5, <2>1, NothingShownUnseen DEF Passes, Contract!Retry
  <2> QED BY <2>2 DEF Contract!ContractNext
<1> QED BY <1>1, <1>2, <1>3, <1>4, <1>5 DEF Effect, Passes

(***************************************************************************)
(* The queue implements its contract: each step of a worker, its watcher,  *)
(* the admin, a signal or time is one step of the contract or stutters.    *)
(***************************************************************************)
THEOREM QueueKeepsContract == Spec => KeepsContract
<1>1. Init => Contract!ContractInit
  <2> SUFFICES ASSUME Init PROVE Contract!ContractInit
    OBVIOUS
  <2>1. \A j \in Jobs : job[j].status \in {"pending", "cancelled"}
    BY DEF Init, Enqueued
  <2>2. \A j \in Jobs : StateOf(j) \in {"waiting", "cancelled"}
    BY <2>1, StateByStatus
  <2>3. {m.job : m \in medias} = {}
    BY DEF Init
  <2>4. [f \in Files |-> file[f].subtitle] = [f \in Files |-> "none"]
    BY DEF Init
  <2> QED BY <2>2, <2>3, <2>4 DEF Contract!ContractInit
<1>2. TypeOK /\ Fencing /\ Judged /\ [Next]_vars => [Contract!ContractNext]_(Contract!contractVars)
  <2> SUFFICES ASSUME TypeOK, Fencing, Judged, [Next]_vars
               PROVE  Contract!ContractNext \/ UNCHANGED Contract!contractVars
    OBVIOUS
  <2>1. CASE job' = job /\ NothingShown
    BY <2>1, NoStateMoves DEF StateOf
  <2>2. CASE \E j \in Jobs : Effect(j)
    BY <2>2, EffectKeepsContract
  <2> QED BY <2>1, <2>2, StepsHaveEffects DEF StepEffect
<1> QED BY <1>1, <1>2, TypeCorrect, TokensFence, VerdictsAreJudged, PTL
        DEF Spec, KeepsContract, Contract!ContractSpec
=============================================================================
