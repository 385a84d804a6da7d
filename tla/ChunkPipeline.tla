---------------------------- MODULE ChunkPipeline ----------------------------
(***************************************************************************)
(* The transcription of a file's audio in chunks: a chunk whose answer is  *)
(* not usable is split in two halves, recursively, and every chunk that is *)
(* complete is saved as a checkpoint that later runs for the same audio    *)
(* and settings reuse, also those of another process.                      *)
(*                                                                         *)
(* The segments of an answer are one leaf, with the audio it covers.       *)
(***************************************************************************)
EXTENDS Naturals, Sequences

CONSTANTS
  Processes,
  Audios, Settings,
  Duration,        \* of an audio
  ChunkSeconds,    \* of the settings
  Second,          \* the units of time in a second
  Answers,         \* answers the model can give
  MaxRuns          \* bound on the runs of the model's life

Answer ==
  {a \in [segments : {"none", "clean", "repeated", "outside"}, words : BOOLEAN,
          truncated : BOOLEAN, error : BOOLEAN, retryable : BOOLEAN] :
     /\ a.segments # "none" => a.words
     /\ a.retryable => a.error
     /\ a.error => a.segments = "none" /\ ~a.truncated}

(* A chunk is halved four times at most: the unit of time is fine enough for that. *)
ASSUME TimesAssumption ==
  /\ Duration \in [Audios -> Nat] /\ ChunkSeconds \in [Settings -> Nat]
  /\ \A a \in Audios : Duration[a] > 0 /\ Duration[a] % 16 = 0
  /\ \A s \in Settings : ChunkSeconds[s] > 0 /\ ChunkSeconds[s] % 16 = 0
  /\ Second \in Nat
ASSUME AnswersAssumption == Answers \subseteq Answer
ASSUME RunsAssumption == MaxRuns \in Nat

Versions == [audio : Audios, settings : Settings]

VARIABLES
  saved,     \* the checkpoints of all versions
  at,        \* where a process is
  version,   \* the audio and settings of its run
  start,     \* the loop's position
  all,       \* the leaves of the chunks it has finished
  stack,     \* the calls of processChunk
  runs       \* number of runs so far

process == <<at, version, start, all, stack>>
vars == <<saved, process, runs>>

Leaf == [start : Nat, end : Nat, version : Versions, answer : Answer]
Checkpoint == [version : Versions, start : Nat, length : Nat, leaves : Seq(Leaf)]
Frame == [start : Nat, length : Nat, depth : 0..4, halves : 0..2, leaves : Seq(Leaf)]

Ended == {"idle", "completed", "failed"}

TypeOK ==
  /\ saved \subseteq Checkpoint
  /\ at \in [Processes -> Ended \cup {"loop", "chunk", "asking", "formatted", "saving"}]
  /\ version \in [Processes -> Versions]
  /\ start \in [Processes -> Nat]
  /\ all \in [Processes -> Seq(Leaf)]
  /\ stack \in [Processes -> Seq(Frame)]
  /\ runs \in 0..MaxRuns

Init ==
  /\ saved = {}
  /\ at = [p \in Processes |-> "idle"]
  /\ version \in [Processes -> Versions]
  /\ start = [p \in Processes |-> 0]
  /\ all = [p \in Processes |-> <<>>]
  /\ stack = [p \in Processes |-> <<>>]
  /\ runs = 0

Go(p, from, to) == at[p] = from /\ at' = [at EXCEPT ![p] = to]

Top(p) == stack[p][Len(stack[p])]
Callers(p) == SubSeq(stack[p], 1, Len(stack[p]) - 1)

Call(from, length, depth) ==
  [start |-> from, length |-> length, depth |-> depth, halves |-> 0, leaves |-> <<>>]

Half(f) == f.length \div 2

-----------------------------------------------------------------------------
(* The loop of a run. *)

(* The audio is downloaded, and hashed with the settings. *)
Begin(p) ==
  /\ at[p] \in Ended /\ runs < MaxRuns /\ runs' = runs + 1
  /\ at' = [at EXCEPT ![p] = "loop"]
  /\ \E v \in Versions : version' = [version EXCEPT ![p] = v]
  /\ start' = [start EXCEPT ![p] = 0] /\ all' = [all EXCEPT ![p] = <<>>]
  /\ stack' = [stack EXCEPT ![p] = <<>>]
  /\ UNCHANGED saved

TotalOf(p) == Duration[version[p].audio]
ChunkOf(p) == ChunkSeconds[version[p].settings]

NextLength(p) ==
  IF ChunkOf(p) <= TotalOf(p) - start[p] THEN ChunkOf(p) ELSE TotalOf(p) - start[p]

NextChunk(p) ==
  /\ start[p] < TotalOf(p)
  /\ Go(p, "loop", "chunk")
  /\ stack' = [stack EXCEPT ![p] = <<Call(start[p], NextLength(p), 0)>>]
  /\ UNCHANGED <<saved, version, start, all, runs>>

(* The segments and the subtitles are written. *)
Complete(p) ==
  /\ start[p] >= TotalOf(p)
  /\ Go(p, "loop", "completed")
  /\ UNCHANGED <<saved, version, start, all, stack, runs>>

-----------------------------------------------------------------------------
(* processChunk returns leaves to its caller. *)

ReturnToLoop(p, leaves) ==
  /\ Len(stack[p]) = 1
  /\ at' = [at EXCEPT ![p] = "loop"]
  /\ all' = [all EXCEPT ![p] = @ \o leaves]
  /\ start' = [start EXCEPT ![p] = @ + ChunkOf(p)]
  /\ stack' = [stack EXCEPT ![p] = <<>>]

(* Mutant: the segments of the first half are lost. *)
JoinedLast(f, leaves) == [f EXCEPT !.leaves = leaves, !.halves = @ + 1]

Joined(f, leaves) == [f EXCEPT !.leaves = @ \o leaves, !.halves = @ + 1]

(* The second half follows the first. *)
ReturnToSplit(p, leaves) ==
  /\ Len(stack[p]) > 1
  /\ LET n == Len(stack[p]) - 1
         f == Joined(stack[p][n], leaves)
         callers == SubSeq(stack[p], 1, n - 1)
     IN IF f.halves = 1
        THEN /\ at' = [at EXCEPT ![p] = "chunk"]
             /\ stack' = [stack EXCEPT ![p] =
                  Append(Append(callers, f), Call(f.start + Half(f), Half(f), f.depth + 1))]
        ELSE /\ at' = [at EXCEPT ![p] = "saving"]
             /\ stack' = [stack EXCEPT ![p] = Append(callers, f)]
  /\ UNCHANGED <<all, start>>

Return(p, leaves) == ReturnToLoop(p, leaves) \/ ReturnToSplit(p, leaves)

(* Mutant: the directory of the checkpoints is named after the audio only. *)
SameAudio(v, w) == v.audio = w.audio

(* The directory of the checkpoints is named after the hash of audio and settings. *)
SameFingerprint(v, w) == v = w

Fits(p, c) ==
  /\ SameFingerprint(c.version, version[p])
  /\ c.start = Top(p).start /\ c.length = Top(p).length

Reuse(p) ==
  /\ at[p] = "chunk"
  /\ \E c \in saved : Fits(p, c) /\ Return(p, c.leaves)
  /\ UNCHANGED <<saved, version, runs>>

(* The audio of the chunk is extracted and given to the model. *)
Ask(p) ==
  /\ Go(p, "chunk", "asking")
  /\ ~ \E c \in saved : Fits(p, c)
  /\ UNCHANGED <<saved, version, start, all, stack, runs>>

-----------------------------------------------------------------------------
(* What becomes of an answer. *)

Unparsed(a) == ~a.error /\ a.segments = "none" /\ a.words

(* Mutant: an answer cut off before its first segment counts as silence. *)
SilentIfNoWords(a) == ~a.error /\ a.segments = "none" /\ ~a.words

Silent(a) == ~a.truncated /\ ~a.error /\ a.segments = "none" /\ ~a.words

Looping(a) == a.truncated \/ a.retryable \/ a.segments = "repeated"

MaySplit(a, f) ==
  IF Looping(a) THEN f.depth < 4 /\ f.length >= 20 * Second
                ELSE f.depth < 2 /\ f.length >= 60 * Second

(* Only the first answer of a chunk is asked for again, with the format spelled out. *)
Reformats(p, a) == at[p] = "asking" /\ Unparsed(a) /\ ~a.truncated

Reformat(p, a) ==
  /\ at[p] \in {"asking", "formatted"} /\ Reformats(p, a)
  /\ at' = [at EXCEPT ![p] = "formatted"]
  /\ UNCHANGED <<saved, version, start, all, stack, runs>>

Hears(p, a) == at[p] \in {"asking", "formatted"} /\ ~Reformats(p, a)

Retries(a) == ~Silent(a) /\ (Looping(a) \/ Unparsed(a))

Accepts(a) == Silent(a) \/ (~Retries(a) /\ ~a.error /\ a.segments = "clean")

Accept(p, a) ==
  /\ Hears(p, a) /\ Accepts(a)
  /\ at' = [at EXCEPT ![p] = "saving"]
  /\ LET leaf == [start |-> Top(p).start, end |-> Top(p).start + Top(p).length,
                  version |-> version[p], answer |-> a]
     IN stack' = [stack EXCEPT ![p] = Append(Callers(p), [Top(p) EXCEPT !.leaves = <<leaf>>])]
  /\ UNCHANGED <<saved, version, start, all, runs>>

Split(p, a) ==
  /\ Hears(p, a) /\ Retries(a) /\ MaySplit(a, Top(p))
  /\ at' = [at EXCEPT ![p] = "chunk"]
  /\ stack' = [stack EXCEPT ![p] = Append(@, Call(Top(p).start, Half(Top(p)), Top(p).depth + 1))]
  /\ UNCHANGED <<saved, version, start, all, runs>>

(* The run fails: an error, times outside of the chunk, or no more splits. *)
Reject(p, a) ==
  /\ Hears(p, a) /\ ~Accepts(a) /\ ~(Retries(a) /\ MaySplit(a, Top(p)))
  /\ at' = [at EXCEPT ![p] = "failed"]
  /\ UNCHANGED <<saved, version, start, all, stack, runs>>

(* Mutant: the result of a split is not saved, its halves are. *)
SaveLeaves(p) ==
  /\ at[p] = "saving"
  /\ saved' = IF Top(p).halves = 2 THEN saved ELSE
       {c \in saved : ~Fits(p, c)} \cup
       {[version |-> version[p], start |-> Top(p).start, length |-> Top(p).length, leaves |-> Top(p).leaves]}
  /\ Return(p, Top(p).leaves)
  /\ UNCHANGED <<version, runs>>

(* The checkpoint is written to a temporary file, synced and renamed. *)
Save(p) ==
  /\ at[p] = "saving"
  /\ saved' = {c \in saved : ~Fits(p, c)} \cup
       {[version |-> version[p], start |-> Top(p).start, length |-> Top(p).length, leaves |-> Top(p).leaves]}
  /\ Return(p, Top(p).leaves)
  /\ UNCHANGED <<version, runs>>

(* A crash, a cancellation, or a failure of ffmpeg, of the model or of the disk. *)
Fail(p) ==
  /\ at[p] \notin Ended /\ at' = [at EXCEPT ![p] = "failed"]
  /\ UNCHANGED <<saved, version, start, all, stack, runs>>

Hear(p) == \E a \in Answers : Reformat(p, a) \/ Accept(p, a) \/ Split(p, a) \/ Reject(p, a)

Work(p) == NextChunk(p) \/ Complete(p) \/ Reuse(p) \/ Ask(p) \/ Hear(p) \/ Save(p)

Next == \E p \in Processes : Begin(p) \/ Work(p) \/ Fail(p)

Spec == Init /\ [][Next]_vars

-----------------------------------------------------------------------------
(* Properties. *)

(* The leaves follow each other without gap or overlap. *)
Tiles(leaves, from, to) ==
  /\ leaves = <<>> => from = to
  /\ leaves # <<>> => leaves[1].start = from /\ leaves[Len(leaves)].end = to
  /\ \A i \in 1..Len(leaves) : leaves[i].start < leaves[i].end
  /\ \A i \in 1..Len(leaves) - 1 : leaves[i].end = leaves[i + 1].start

(***************************************************************************)
(* A run that completes has covered its audio exactly once and in order,   *)
(* whatever was split, reused, or left behind by failed runs.              *)
(***************************************************************************)
AudioIsCovered ==
  \A p \in Processes : at[p] = "completed" => Tiles(all[p], 0, TotalOf(p))

LeavesIn(leaves) == {leaves[i] : i \in 1..Len(leaves)}

(* checkpoint.go, line 44: what it uses was made from its own audio and settings. *)
NothingIsForeign ==
  \A p \in Processes : \A leaf \in LeavesIn(all[p]) : leaf.version = version[p]

(***************************************************************************)
(* run.go, lines 268 and 356: no incomplete transcript is accepted, and    *)
(* malformed text, truncation and errors are not mistaken for silence.     *)
(***************************************************************************)
NothingIsIncomplete ==
  \A c \in saved : \A leaf \in LeavesIn(c.leaves) :
    /\ ~leaf.answer.truncated /\ ~leaf.answer.error
    /\ leaf.answer.segments = "clean" \/ ~leaf.answer.words

(***************************************************************************)
(* README.md, lines 11-12: once a run has completed, a chunk is not asked  *)
(* for by a run with the same audio and settings, also if it was split.    *)
(***************************************************************************)
CompletedIsReused ==
  [][\A p, q \in Processes :
       at[q] = "completed" /\ version[p] = version[q] /\ Len(stack[p]) = 1 =>
         ~(at[p] = "chunk" /\ at'[p] = "asking")]_vars
=============================================================================
