# Verification of the subtitle worker

TLA+ specifications of `worker-subtitle`: the Go daemon that claims subtitle jobs
from MongoDB, transcribes their audio with a local MOSS process, uploads a VTT file
to S3 and publishes it. TLC checks small instances, TLAPS proves the theorems listed
below for every value of the constants. Paths are relative to `src/`.

## The system

| part | state it keeps | operations | hard behaviour |
|---|---|---|---|
| job queue `internal/jobqueue/{queue,publish,progress}.go` | documents of `video_process`, `files`, `medias`, `settings`, `workers`; per run: claim token, error, cancellation cause | `Claim`, `resolve`, `renew`, `reportProgress`, `uploadSubtitle`, `settlePublished`, `settleNoSpeech`, settlement in `Run` | several processes and an admin write the same documents; leases, lost replies, crashes, shutdown |
| S3 uploader `internal/uploader` | parts and upload ID of a multipart upload | `UploadToS3`, `uploadMultipart`, `verifyS3Object`, `DownloadFromS3` | parallel parts, first error wins, cancellation, abort |
| subtitle pipeline `internal/subtitle/run.go`, `checkpoint.go` | chunk files and checkpoints on disk | `run`, `processChunk`, `transcribeChunk`, `saveChunkCheckpoint`, `loadChunkCheckpoint` | crash and resume, split retries |
| MOSS pipe `internal/subtitle/service.go`, `moss/server.py` | a child process, its two pipes | `exchange`, `Ping`, `Transcribe`, `Close` | time-outs, late answers, death of the child |
| work directory and cleanup `workdir.go`, `finalize.go`, `cleanup.go` | directories and manifests | `createWorkDir`, `CompactCompletedRun`, `cleanSettledWork` | crash between steps, several attempts |
| dashboard manager `internal/desktop/manager.go`, `heartbeat.go`, `logs.go` | phase, readiness, action channel, log, all under one mutex | `submit`, `run`, `fail`, `heartbeat`, `Write` | goroutines, a mutex and channels |
| transcript parser `moss/moss_transcribe_diarize/transcript_parser.py`, `moss/timestamp_fallback.py` | the segment it reads | `parse_transcript`, `needs_timestamp_fallback` | a text that is cut short, out of order or free of any grammar |
| cue merging and export `internal/subtitle/dedupe.go`, `export.go` | the cues so far | `repetitiveTranscript`, `offsetSegments`, `MergeRepeatedCues`, `writeSubtitles` | cues that overlap, touch, nest or repeat in cycles |
| audio source, setup, metrics, configuration, models, inference | files, tensors | I/O and data | not modelled |

The manager's `run` is one loop per process: every tick it pings MOSS, calls
`Queue.Claim`, and runs the job it gets with `Queue.Run`, whose handler is the
subtitle pipeline over the MOSS pipe. `Run` starts a goroutine that renews the lease
and cancels the run's context when the renewal fails. A second context, the
process's, is cancelled by SIGTERM or SIGINT. The admin service writes the same
documents: it enables the queue and workers, cancels and retries jobs, trashes files.

## Modules

| module | models | theorems in |
|---|---|---|
| `JobQueue` | the queue, its workers, the admin, time and storage | `JobQueueProofs` |
| `QueueContract` | what the queue promises, with no workers or leases | |
| `JobQueueRefinement` | the mapping from the first to the second | `JobQueueProofs` |
| `LeaseTiming` | one claim, its renewals and its settlement against the clock | `RunTimingProofs` |
| `S3Upload` | `UploadToS3` with its goroutines, and the multipart upload in storage | `S3UploadProofs` |
| `Manager` | the dashboard manager, its requests, its log and its heartbeat | `ManagerProofs` |
| `WorkDirectory` | attempts, manifests, compaction and cleanup of one file's directory | `WorkDirectoryProofs` |
| `ChunkPipeline` | chunks, split retries and checkpoints of transcriptions | `ChunkPipelineProofs` |
| `MossPipe` | requests and answers between the worker and its MOSS process | `RunTimingProofs` |
| `TranscriptParser` | from the text of one chunk to its segments, and the verdict on them | `TranscriptParserProofs` |
| `CueMerge` | the merge of repeated cues | `SubtitlesProofs` |
| `Subtitles` | `TranscriptParser` and `CueMerge`, one after the other | `SubtitlesProofs` |
| `MCJobQueue`, `MCRunTiming`, `MCChunkPipeline`, `MCTranscription` | instances for TLC | |

The components meet at narrow calls, and each module has the neighbours as their
outcomes: a handler in `JobQueue` gives subtitles, silence or an error
(`ChunkPipeline`), an answer in `ChunkPipeline` is described by what
`TranscriptParser` finds in a text, its upload succeeds, fails or fails after the fact (`S3Upload`), a
lease may expire at any time (`LeaseTiming` shows when it cannot), and an answer of
the model in `ChunkPipeline` is the one to its request or an error (`MossPipe`).

### JobQueue

One action is one database or storage call, or the local code between two calls.

* `job[j]` is a document of `video_process`: `status`, `worker` (`workerId`), `token`
  (`leaseToken`, 0 when unset), `expired` (`leaseExpiresAt` has passed), `deferred`
  (`nextRetryAt` is ahead), `attempts` (`subtitleUploadAttempts`), `stage`
  (`testStage`), `result` (`result.mediaId`, 0 when unset).
* `file[f]` has the trash mark and `metadata.subtitleProcessingStatus`; `medias` and
  `objects` are the media documents and the objects in storage. A publication is
  named by the token of the run that makes it, since a run calls `uploadSubtitle` at
  most once.
* `run[w]` is the local state of `Queue.Run` in process `w`: `at` is the place in the
  code, `err` is `err != nil`, `silent` is `noSpeech`, `uploaded` is
  `published != nil`, `cause` is `context.Cause(ctx)`: `lost` for `ErrLeaseLost`,
  `parent` when the process context was cancelled first. `verdict` is the status in
  the update that `settleUpdate` built. `stopping[w]` is `parent.Err() != nil`.
* Tokens are numbers drawn from `issued`, where the code draws a random UUID: what
  matters is that they are fresh.

A call may fail, and a failed write may have been applied: `ClaimFails`,
`RenewFails`, `Report`, `RecordAttempt`, `PutObjectFails`, `Transaction` and
`settleGeneric` contain both outcomes. A call on a cancelled context fails without
further cause; any other failure, like a crash, a signal, a lease that expires under
a live run or an edit by the admin, costs one of `MaxDisturbances`.

The lease is the flag `expired`. `LeaseExpires` sets it when no live process runs the
job under its current claim, and, as a disturbance, at any other moment: a process
may be suspended, or its clock differ. The model therefore does not rely on timing
for its safety. `WorkerId` maps processes to configured IDs: the instance lock
(`instance_lock_linux.go`) excludes two processes with one ID on one machine only, so
`queue_takeover` gives both processes the same ID.

The admin is modelled from the code that reads what it writes. A file has at most
one open job: `enums/video_process.enum.go:27-33` names the unique index that sees to
that. `Init` may also hold jobs cancelled earlier, so that a file gets a second one.

### QueueContract

Per job: waiting, running, published, silent, failed, cancelled, or hollow (completed
with nothing to show, see the finding). `Publish` adds the media and the file mark and
ends the job in one step, `Silence` marks the file and ends the job. Takeovers, lost
replies and upload attempts do not exist at this level; `KeepsContract` says that
every behaviour of `JobQueue` is one of the contract under `StateOf`.

### LeaseTiming

Time passes in ticks of `Tock`, which waits until every goroutine that can go on has
done so. All times are the code's timeouts: `LeaseLength` (2 min, `queue.go:85` and
`renew`), `Interval` and `RenewTimeout` of the watcher (10 s, 5 s), `ClaimTimeout`,
`LogTimeout`, `SettleTimeout`. Two are assumptions about the outside: `UnwindTimeout`,
how long the handler needs to return after a cancellation (30 s for the abort of an
upload and 5 s for the model process), and `Skew`, how far two machines' clocks
differ. A handler unwinds after a signal (`stopping`), then the run settles, or after the
loss of its lease (`losing`), then it does not; both are covered by the lease. `TimingAssumption` says that their sum fits into the lease. The module has no
suspended processes: there the lease does expire, which is what `JobQueue` allows.

### S3Upload

One action is one call of the storage, or the code between two. `at` is the place in
`UploadToS3` and `uploadMultipart`; `uploader[u]` is a goroutine, which takes the head
of the channel of parts (`next`), checks its context, sends the part and enters it in
`completedParts`. `firstErr` and `cancelled` are the two ways its context ends.
`Gather` is the code after `Wait`, which completes or aborts. Every call may fail,
applied or not; `leaked` remembers the two failures after which an upload may stay
open whatever the code does, a lost reply of the creation and a failed abort.

### Manager

Every critical section of `m.mu` is one action with the guard `Free`. Only `submit`
can block inside of its own, on the full action channel: `sending` is the request it
then holds the mutex with. `Update` and `Signal` are the two halves of `m.update`, and
`owing` is the time between. `loop` follows `run` through setup, tests, ticks, claims
and jobs; `kill` and `reap` are the two halves of `runner.Close`, since `exec.Cmd.Wait`
returns only when the goroutine that copies stderr has written what it read
(`pending`), and that takes `m.mu`. What a job does is `JobQueue`'s. Clients may submit
`retry` and `test` at any time; the dashboard's page sends retries only.

### WorkDirectory

Processes (`Workers`) share a file's directory after a takeover or an admin's retry. An attempt
has a manifest, an audio with the other intermediates, the responses in `chunks/` and
in `moss-results.json`, and results. Writing a file is two steps, truncation and
content (`torn`). So is each of the four writes of a manifest (`run.go:95`,
`run.go:104-113`, `finalize.go:98`, and the receipt of a publication, `publish.go:134-151`),
and each answer of the model (`run.go:236`, 252): `answered` are the answers written whole.
Removing a directory is one step per file. A cleanup lists, visits each manifest, then
cleans what it has collected. It refuses an attempt with an answer that is not whole, or
that another process is removing the answers of (`RefuseResponses`); otherwise it reads all
of them in one step. Crashes and disk errors together are bounded by
`MaxFailures`.

### ChunkPipeline

`stack[p]` is the stack of calls of `processChunk` in a run, a frame being a call with
its interval, its depth and what its halves have returned so far. The segments of one
answer are a single leaf: the interval, the version (audio and settings, whose hash
names the directory of the checkpoints) and the answer. A checkpoint is one value,
since it is written to a temporary file and renamed. An answer is described by the
tests that `transcribeChunk` makes of it: segments (none, clean, repeated, outside of
the chunk), words, truncation, error, and whether the error is worth a split.
`Answers` are the kinds the interface admits; the present `server.py` reports text
without segments as an error, so the retry with a format reminder (`Reformat`) is
reached only by other servers. Times are integers; `TimesAssumption` asks for a unit
fine enough for four halvings, so `Half` loses nothing.

### TranscriptParser

A text is a sequence of tokens: times, speakers, other brackets (`note`) and words.
`mode` is `_state`; its states inside of a bracket (`READ_START`, `READ_SPEAKER`,
`READ_END`) only find out which kind of token it is, so each handler reads a whole
token. `opened`, `voice`, `text` and `closing` are `_start`, `_speaker`, `_text` and
`_end`. `DropEmptyPrefix` is the substitution that `parse_transcript` makes first. Then
`mode` becomes the verdict of `server.py` and `transcribeChunk` on the whole text:
silence, halves, failure, or cues, which `offsetSegments` has moved and cut
(`Placed`). The retry with a format reminder is in `ChunkPipeline`; here it cannot
happen, since `server.py` reports an error exactly when it would (`Unparseable`).

`Constrained` is the grammar of `timed_decoding.py:12`, `Orderly` adds that no segment
ends before it starts. They are hypotheses of properties and never guards: the parser
itself is run on any text.

`CuesAreGenerated` says what a cue is for any text at all: a stretch of it from a time and
its speaker to the first time after them that can end the segment (`IsEnd`), with all that
lies between, except the times that `DropEmptyPrefix` drops. A segment of the grammar that
ends when it should has its own end; one that ends before it starts is given a later one,
which may be the start of another segment. That much the code does not exclude, and it is
what `transcript_words` is about; but no time is made up, and the stretches of two cues do
not overlap.

### CueMerge and Subtitles

`ordered` are the cues sorted by their start, `next` is the index `i` of the loop and
`merged` is `out`. `Cycles(i)` are the cycles of annotations that start at `i`, and
`IsBest` the one that the two nested loops of the code settle on. A cue carries a set of
texts, since a collapsed cycle joins several. `Subtitles` gives `CueMerge` the cues of an
accepted chunk. A cue that was read takes time (`IsRead`), since `offsetSegments` refuses
one that does not; the merge relies on it. Speakers of different chunks are different
(`offsetSegments` prefixes them with the chunk's offset), so cues of two chunks are never
merged, and one chunk is enough.

### MossPipe

The caller is sequential, one `exchange` at a time, with a goroutine (`io`) that writes
a line and reads one. `server` is the loop of `server.py`: it waits, works, answers,
and releases memory; an exception makes it write a last line, `Fatal`, and die. A call
may time out at any time; it then kills the process and waits for the goroutine. What
travels on the pipes are request numbers, so that an answer to the wrong request would
be seen. `MaxCalls` bounds their number.

## Runs

| run | instance | shows |
|---|---|---|
| `queue_takeover` | one job, two processes with one ID, three disturbances | `OneHolder`, `OnlyHolderWrites`, `SettledIsFinal`, `PublicationIsAtomic`, `OneMediaPerJob`, `MediaIsBacked`, `ObjectsAreRecorded`, `NewestAttemptWins`, `HollowOnlyOnShutdown`, and that all of it refines `QueueContract` (`KeepsContract`) |
| `queue_shared_file` | two jobs of one file, two processes, one disturbance, fair | `FileMarksAreEarned`, `JobsSettle`, `DisabledQueueDrains` |
| `queue_outcome` | one job, two processes, one disturbance | the violation of `CompletedHasOutcome` |
| `run_timing` | the code's timeouts in units of 5 s: lease 24, interval 2, renewal 1, claim 2, log 1, unwinding 7, settlement 2, skew 8; and, while the lease rests, four calls of the model, fair | `LeaseCoversRun`, `LossIsNoticed`; `AnswerIsMine`, `NothingIsUnderWay`, `CallsReturn` |
| `s3_upload` | a small file, or one of 4 parts with 3 goroutines, fair | `CompleteListsEveryPart`, `SuccessIsWhole`, `UploadsAreClosed`, `PartsGoToOpenUploads`, `Returns` |
| `manager_api` | any retries and tests, fair | `HeartbeatIsCurrent`, `LastSaysOffline`, `NoModelLeft`, `IdleIsReadyOrError`, `Stops` |
| `manager_log_lock` | the same | the violation of `LogIsNotAwaitedUnderLock` |
| `work_crash` | one process, three attempts, two responses, one crash | the violation of `SettledIsClean` |
| `work_responses` | the same | the violation of `ResponsesKept` |
| `transcription` | see below | `AudioIsCovered`, `NothingIsForeign`, `NothingIsIncomplete`, `CompletedIsReused`; `OrderlyIsParsed`, `CuesAreGenerated`, `SpeechIsShown`; `NoCueIsDropped`, `MergesAreJustified`; `ActiveIsUntouched`, `CompletedHasResults` |
| `transcript_words` | the same | the violation of `WordsAreKept` |
| `cycle_speakers` | the same | the violation of `SpeakersAreKept` |

`queue_takeover` also checks its `TypeOK`. The type invariants of all modules are
theorems.

`transcription` explores four parts that share no state, each while the others rest
(1.7 million states in all):

* chunks: two processes, two runs, one audio of 64 s in one chunk of 64 s or two of
  32 s, answers of each kind;
* texts: one or two segments of the grammar with times from 0 to 5, or 1 to 3, in any
  order, with or without words; three segments with times from 1 to 3 in any order;
  every text of up to five tokens without a grammar; three segments with times from 0 to 3
  that share their boundaries, some of them empty; and every prefix of two segments, as one
  that was cut short. The chunk is 3 long, so times fall inside of it, in the
  grace after it, and beyond. Two equal brief cues make a loop (8 in the code);
* cues: up to three anywhere in 0 to 4, four in a row with overlaps, touching, with a
  pause or a gap, and seven or eight annotations in cycles of width up to 3 (8 in the
  code), speech and annotations mixed; and six annotations of two speakers. Seven allow a
  cycle of two, repeated three times, and one cue more;
* directory: two processes, two attempts, one response, one crash or disk error.

The rest of each part is a state in which none of its actions is enabled, so a
violation belongs to the part that moves.

Three disturbances are enough for the longest scenario the properties of the queue are
about: the lease expires under a run that is uploading, the second process publishes
with a lost reply, and the first is cancelled or crashes. Two processes suffice for
every property that compares claims, because a claim is always compared with one
other. The liveness run has two jobs and so many more states; one disturbance can
still hit any step of either. Four parts and three goroutines let one goroutine fail, a
second be sending and a third have a part left to take. A chunk of 64 s is split to
depth 2 and its halves have the intervals of the chunks of 32 s, so that checkpoints of
the other version would fit; the proofs cover every length. Four calls let a time-out
fall between two that succeed.

The queue runs check deadlock. The systems of the other modules come to an end (a call
returns, a process stops, a bound is used up), so their runs do not; `Returns`,
`Stops` and `CallsReturn` say that what should end does.

### Fairness

* `JobQueue`: weak fairness of each worker's loop (a goroutine that is runnable runs),
  of `Restart` (`Restart=on-failure`, `install.sh:125`), of `LeaseExpires` for jobs
  nobody attends and of `RetryDue` (clocks advance). The watcher, signals, crashes and
  the admin get none. `JobsSettle` needs one process that in the end keeps serving: up,
  enabled, not stopping.
* `S3Upload`: every storage call comes back, each goroutine runs.
* `Manager`: goroutines run; strong fairness of the cases of its `select`s, since Go
  chooses among ready cases at random. No fairness of clients, of `Output` or of
  `Stop`. `Stops` allows one exception, `Wedged`: a `submit` holds the mutex that the
  loop waits for. That is the finding below.
* `MossPipe`: the deadlines of 15 min, 30 min and 5 s come (`service.go`), a killed
  process is gone, a closed pipe is read to its end. The process itself may hang.

## Findings

`queue_outcome`: `Run` reads `parent.Err()` at `queue.go:232` to build the update and
again at lines 239 and 246 to choose the transaction. If the signal arrives in
between, the update says `completed`, both transactions are skipped, and line 253
completes the job alone: no media, no result, no file mark, although `README.md:25-28`
promises them in one transaction. The job is never claimed again.
`HollowOnlyOnShutdown` shows that this is the only way to get such a job.

`manager_log_lock`: a test that was accepted during a ping that fails fills the action
channel; a retry then blocks in `submit` (`manager.go:118`) with `m.mu` held, while the
loop closes the model and waits for the log to be copied, which needs `m.mu`. The
process stands still, also for SIGTERM.

`work_crash`: an attempt whose process crashed says `running` for ever, or has a truncated
manifest, and `cleanSettledWork` (`cleanup.go:65`) refuses the whole directory on the first
such manifest. A crash during the receipt of a publication does the same to an attempt that
was settled. `README.md:59-63` excepts active attempts only.

`transcript_words`: a segment that ends before it starts obeys the grammar, but the
parser takes its end for text (`transcript_parser.py:170-174`) and swallows what follows up
to the next time that is late enough, or to the end of the text. What is left is valid
and accepted. `[5.00][S01]a[3.00][6.00][S01]b[7.00][8.00][S01]c[9.00]` gives the single
segment 5 to 6 with the text `a[3.00]`. `timed_decoding.py:8` leaves bounds to Go, which no
longer sees them, and `run.go:267-268` says that no incomplete transcript is accepted.
`OrderlyIsParsed` shows that this is the only way to lose words of the grammar.

`cycle_speakers`: the comment at `dedupe.go:46-47` wants the cues of a cycle to have the same
speaker, but `MergeRepeatedCues` compares each only with the one at its place in the first
round (line 63). `[rain]` by one speaker and `[wind]` by another in turn, three times,
become one cue of the first speaker. SRT and VTT do not write speakers, so nothing false
is shown, but the cycle is merged where the comment says it is not. For speech the
speaker is kept (`Covers`, in `NoCueIsDropped`).

`work_responses`: a cleanup that crashed while it removed `chunks/` is repeated by the
next one, which overwrites `moss-results.json` (`cleanup.go:98`) with what is left.

Not findings of a run, but to be known:

* `README.md:15-16` says that `segments.partial.json` survives the cleanup, and
  `finalize.go:106` removes it.
* A segment that ends when it starts is emitted (`transcript_parser.py:165` has `>=`) and
  refused by `offsetSegments` (`<=`), which fails the run instead of splitting the chunk.
* `README.md:67` says that overlapping identical cues of one speaker are merged. They
  stay apart when another cue begins between them: `MergeRepeatedCues` compares a cue
  only with the one before it. `MergesAreJustified` says when a merge is right, not that
  there is one whenever it would be.
* The substitution of empty shared boundaries never applies to a text of the grammar,
  whose segments always have an end of their own.

## Proofs

All theorems hold for every value of the constants that satisfies the named
assumptions. Every invariant and every action property that a passing run checks is one
of them, and so is the refinement of `QueueContract`; only liveness is left to TLC. None
of the invariants is inductive alone, and each module has its strengthenings, each with a
lemma that every step preserves it.

`JobQueueProofs`, from `ConstantsAssumption` (any sets of jobs, files and workers, any
worker IDs, any bound):

* `TypeCorrect`; `TokensFence`, the inductive `Fencing`; `MediaAlwaysBacked`,
  `ObjectsAlwaysRecorded`, `NewestAlwaysWins`, which are parts of it; `AtMostOneMedia` and
  `OneHolderAlways`, which follow. That a media is backed depends on the run that publishes
  having recorded and uploaded what it publishes (`RunIsTagged`). That no older run wins
  depends on a processing job carrying a token at least as new as all of its attempts
  (`JobIsTagged`), and that two runs do not share a claim on tokens being handed out once
  (`TokensAreUnique`). There is one lemma per group of actions, and for each part of
  `Fencing` one saying which variables can disturb it.
* `Judged` says that what a run knows of its work agrees with how it was done: past the
  handler a run without an error has uploaded, found silence or lost its context, and one
  that takes the plain settlement with the verdict `completed` belongs to a process that
  is stopping.
* `StepsHaveEffects`, from the three invariants: whatever a step does inside, to the
  documents that others see it does nothing, or one of a few things to one job
  (`StepEffect`): it passes the job from one status to another, works on it, publishes,
  silences or hollows it, the last four only by a run that holds the job's claim.
  `RunsHaveEffects` says which run: a step of worker `w` changes no job whose claim `w` does
  not hold, beyond taking one, whoever else holds it. The action
  properties `OnlyHoldersWrite`, `SettledStaysFinal`, `PublicationStaysAtomic` and
  `OnlyShutdownHollows` then need no case for each action of the code, nor does the
  invariant `FileMarksAlwaysEarned`.
* `QueueKeepsContract`: every behaviour of `JobQueue` is one of `QueueContract` under
  `StateOf`. Initial states map to `Contract!Init`, and each effect is a step of the
  contract on its job, or a stutter.

`RunTimingProofs`, from `TimingAssumption`: `RunsHoldTheirLease` and
`LossIsNoticedInTime`. `Timely` bounds at each place what may have been used up of the
lease, by the timeouts still ahead; `Noticed` does so for a lost claim. From
`CallsAssumption`: `PipeTypes`, `AnswersMatch`, `NothingStaysUnderWay`. At any time the
request of the call is in exactly one place, or its answer is, or the process is dead
(`Matched`).

`S3UploadProofs`, from `UploadAssumption` (any number of parts, any configured
concurrency): `UploadTypes`, `CompleteIsComplete`, `UploadsAlwaysClosed`, `PartsStayInside`,
`SuccessIsAlwaysWhole`. `Accounting` says that each part is still in the channel, held
by a goroutine, completed, or lost for a reason that is recorded, so that an empty pool
without an error has completed every part.

`ManagerProofs`: `ManagerTypes`, `NoSignalIsLost`, `EndsOffline`, `EndsWithoutModel`,
`IdleIsSettled`. `Current` and `Ending` tie the heartbeat's snapshot to the state and the
signals, `Owned` ties the child process to the places of the loop. `Settled` says, for
each place of the loop, what it knows of the model and which phases the dashboard may
show there: a phase that disagrees with the model was made so by a client whose request
is still in the channel. It holds only until the process is signalled, since a
stopping loop leaves its work without telling how it went.

`WorkDirectoryProofs`, from `FailuresAssumption`: `WorkTypes`, `NothingActiveIsCleaned`,
`CompletedAlwaysHasResults`. An attempt in use belongs to one process and its manifest
is not yet final (`Apart`, `Unfinished`), and one says completed only after the export
(`Exported`). An attempt is a run's own until it has returned and its receipt is written
(`Owning`).

`ChunkPipelineProofs`, from `TimesAssumption`, `AnswersAssumption`, `RunsAssumption`:
`PipelineIsSound`, `ChunksAreTyped`, `AudioIsAlwaysCovered`, `NothingForeignIsUsed`,
`NothingIncompleteIsSaved`, `CompletedStaysReused`. `Sound` says that the calls on a stack
are nested, each a half of its caller, that a caller has the leaves of exactly the halves
that returned, and that every checkpoint tiles its interval with leaves of its version. It
rests on a lemma that leaves of two adjacent intervals, concatenated, tile both.
`Reusable` says that a run's loop stands at a multiple of its chunk length and that every
chunk it has passed has a checkpoint; so a run of the same version, which can only stand
at the same multiples, finds one for whatever a completed run has passed.

`TranscriptParserProofs`, from `TranscriptsAssumption` and `ChunkAssumption` (any texts of
any length): `ParserTypes`, `OrderlyIsAlwaysParsed`, `CuesAreAlwaysGenerated`,
`WordsAreNeverSilence`. For the first of the properties, the inductive invariant ties each
mode to a position in a segment of the grammar and says that the segments emitted so far
are exactly those with words that begin before it; the end of a segment is confirmed by
the bracket that follows (`EndIsConfirmed`). For `CuesAreGenerated`, `Traced` says, for each
mode, where in the text the segment that is being read begins and up to where it has been
read (`Opens`, `Reached`, `Closes`), and that the segments emitted so far lie one after the
other before it (`LaidOut`).

`SubtitlesProofs`, from `SourcesAssumption` (any number of cues that take time, laid out in
any way), `TolerancesAssumption` and `NotesAssumption`: `MergeTypes`, `EveryCueIsKept`,
`EveryMergeIsJustified`. The invariant `Sound` is stated over its state as parameters, so
that the merge alone and the merge of the parser's cues share it:

* The sort is a permutation (`InTimeSorts`): the rank of a cue is an injection of a finite
  set into itself.
* A cue to write starts before every cue still to be read, so a cue that continues it is
  covered by it.
* A merge stands for cues without a gap too long between them, one of which ends where it
  does (`Ends`): that is where the pause to the next is measured from.
* Inside of a cycle the ends of the cues never fall back, which needs that a cue takes time
  and that the tolerance is at most one millisecond; so the end of the last is the end of
  all of them. The rounds of a cycle are an injection of `1..Repetitions` into the cues with
  one text, which counts them (`CycleIsRepeated`).

From end to end: `SubtitlesKeepEveryCue` says that both theorems hold of the cues that
`writeSubtitles` gives to the merge, and `SpeechIsAlwaysShown` follows the words from the text
of the model to the cues to write. The second needs `NotesAreAnnotations`, that the texts
which `annotation` accepts are single brackets: so words are none, and keep their speaker.

Induction over naturals is done without the library's theorems, which take a predicate as a
parameter: `Least` gives a set of naturals its least element, from the library's fact that
`<` is well founded, and `Climb` derives from it that a set with a first number and the
successor of each has all of an interval. `Cleaned`, the removal of speakers from a text, is
written as a recursive function; of it the proofs use only the value for a text of one token,
and no result depends on what it computes for longer ones.

Model-checked only: the five liveness properties `JobsSettle`, `DisabledQueueDrains`,
`Returns`, `Stops` and `CallsReturn`. They need fairness, hence `ENABLED`, which the prover
does not support.

## Plan

What is left to prove is not a property of a run but how the parts fit: that an accepted
chunk of `TranscriptParser` gives `ChunkPipeline` an answer it would save, and that what
`S3Upload` returns is one of the outcomes that `JobQueue` has for an upload. Both are
refinements with a mapping, in the way of `JobQueueRefinement`.

## Not modelled

* Inference: tensor code around a neural network, including how the grammar masks its
  tokens. `TranscriptParser` takes any text instead.
* The audio source: one download to a `.part` file in the attempt's own directory, a
  length check and a rename. Nothing else reads that file meanwhile, so there is no
  interleaving to explore; a failure is `RunFails` of `WorkDirectory`.
* Setup: a sequence of external commands, one step of `Manager` (`Bootstrap`,
  `SetupFails`). What a killed command leaves on disk is outside of the code; the hazard
  list names the one case where the next setup does not recover from it
  (`setup.go:75`).
* Metrics, job log files and HTTP handlers: sampling and sequential I/O.
* Configuration, credential decryption, key prefixes, the percentages and times of the
  progress timeline, the layout and escaping of SRT and VTT, the estimate of the language,
  symbolic links in the work directory: data that no other part decides upon.
