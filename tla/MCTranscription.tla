--------------------------- MODULE MCTranscription ---------------------------
(***************************************************************************)
(* An instance of the parts of a transcription for TLC: the chunks, the    *)
(* text of one of them with the merge of its cues, and the directory of    *)
(* the attempts. These parts share no state, so each of them is explored   *)
(* while the others rest.                                                  *)
(***************************************************************************)
EXTENDS MCChunkPipeline, Subtitles, WorkDirectory, Integers

Words(n) == [kind |-> "words", value |-> n]
Note == [kind |-> "note", value |-> 1]

(* One segment of the grammar, with or without words. *)
Said(times, w) ==
  {<<Time(x), Speaker(1)>> \o said \o <<Time(y)>> : x, y \in times, said \in {<<>>, <<Words(w)>>}}

Then(X, Y) == {x \o y : x \in X, y \in Y}

(* Times beyond the chunk, a repetition, and three segments in any disorder. *)
Constrained3 ==
  {<<>>} \cup Said(0..5, 1) \cup Then(Said(1..3, 1), Said(1..3, 1))
  \cup Then(Said(1..3, 1), Then(Said(1..3, 2), Said(1..3, 3)))

(* Segments that share their boundaries: the empty ones are dropped, also out of a text. *)
Opened(times, w) ==
  {<<Time(x), Speaker(w)>> \o said : x \in times, said \in {<<>>, <<Words(w)>>}}
Shared ==
  Then(Opened(0..2, 1), Then(Opened(0..2, 2), Then(Opened(1..2, 3), {<<Time(t)>> : t \in 1..3})))

(* What a decoding without the grammar may give. *)
Free == UNION {[1..n -> {Time(0), Time(1), Speaker(1), Words(1), Note}] : n \in 1..5}

CutShort == UNION {{SubSeq(s, 1, n) : n \in 0..Len(s)} : s \in Then(Said(1..2, 1), Said(1..2, 2))}

SmallTranscripts ==
  [tokens : Constrained3 \cup Shared \cup Free, full : {FALSE}]
    \cup [tokens : CutShort, full : {TRUE}]

-----------------------------------------------------------------------------

TwoNotes == {<<Note>>} \cup {<<Time(t)>> : t \in 0..4}
AnyText == Seq(Token)
AnySpeaker == Nat \X Nat

Hello == [speaker |-> 1, text |-> <<Words(1)>>]
Music == [speaker |-> 1, text |-> <<Note>>]
Noise == [speaker |-> 1, text |-> <<Time(0)>>]
NoiseOfAnother == [Noise EXCEPT !.speaker = 2]

RawAt(from, length, said) ==
  [start |-> from, end |-> from + length, speaker |-> <<0, said.speaker>>, texts |-> {said.text}]

(* Cues laid out one after the other, with gaps or overlaps. *)
Laid(shape) ==
  LET end[k \in 0..Len(shape)] == IF k = 0 THEN 2 ELSE end[k - 1] + shape[k].gap + shape[k].length
  IN [k \in 1..Len(shape) |-> RawAt(end[k] - shape[k].length, shape[k].length, shape[k].said)]

Shapes(n, gaps, length, said) == [1..n -> [gap : gaps, length : {length}, said : said]]

(* Three cues anywhere, four in a row, and six to eight annotations in cycles. *)
SmallSources ==
  {[k \in 1..Len(s) |-> RawAt(s[k].from, s[k].length, s[k].said)] :
     s \in UNION {[1..n -> [from : 0..2, length : 1..2, said : {Hello, Music}]] : n \in 1..3}}
  \cup {Laid(s) : s \in Shapes(4, {-1, 0, 2, 3}, 2, {Hello, Music})
                     \cup Shapes(7, {-1, 3}, 2, {Music, Noise})
                     \cup Shapes(8, {0}, 1, {Music, Noise})
                     \cup Shapes(6, {0}, 1, {Music, NoiseOfAnother})}

-----------------------------------------------------------------------------

ChunksRest ==
  /\ saved = {} /\ runs = MaxRuns
  /\ at = [p \in Processes |-> "failed"]
  /\ version = [p \in Processes |-> CHOOSE v \in Versions : TRUE]
  /\ start = [p \in Processes |-> 0]
  /\ all = [p \in Processes |-> <<>>] /\ stack = [p \in Processes |-> <<>>]

ParserRests ==
  /\ transcript = [tokens |-> <<>>, full |-> FALSE]
  /\ position = 1 /\ mode = "silent"
  /\ opened = 0 /\ voice = 0 /\ text = <<>> /\ closing = 0
  /\ segments = <<>> /\ cues = <<>>

(* Every attempt has been made. *)
DirectoryRests ==
  /\ used = Attempts
  /\ manifest = [d \in Attempts |-> "failed"]
  /\ audio = [d \in Attempts |-> FALSE]
  /\ chunks = [d \in Attempts |-> {}] /\ kept = chunks /\ answered = chunks
  /\ results = [d \in Attempts |-> FALSE]
  /\ place = [p \in Workers |-> "idle"]
  /\ dir = [p \in Workers |-> CHOOSE d \in Attempts : TRUE] /\ target = dir
  /\ failed = [p \in Workers |-> FALSE]
  /\ todo = [p \in Workers |-> {}] /\ seen = todo /\ held = todo
  /\ failures = 0

TranscriptionInit ==
  \/ Init /\ ParserRests /\ MergeIdle /\ DirectoryRests
  \/ ChunksRest /\ SubtitlesInit /\ DirectoryRests
  \/ ChunksRest /\ ParserRests /\ MergeInit /\ DirectoryRests
  \/ ChunksRest /\ ParserRests /\ MergeIdle /\ WorkInit

TranscriptionNext ==
  \/ Next /\ UNCHANGED <<parserVars, mergeVars, workVars>>
  \/ SubtitlesNext /\ UNCHANGED <<vars, workVars>>
  \/ WorkNext /\ UNCHANGED <<vars, parserVars, mergeVars>>

TranscriptionSpec ==
  TranscriptionInit /\ [][TranscriptionNext]_<<vars, parserVars, mergeVars, workVars>>
=============================================================================
