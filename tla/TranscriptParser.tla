--------------------------- MODULE TranscriptParser ---------------------------
(***************************************************************************)
(* What becomes of a text that the model generates for a chunk: a          *)
(* streaming parser reads timed segments from it, the service and          *)
(* transcribeChunk judge what it found, and offsetSegments moves what they *)
(* accept to its place in the file.                                        *)
(*                                                                         *)
(* A text is a sequence of tokens: a time, a speaker or another note in    *)
(* brackets, or words without brackets. White space between tokens is left *)
(* out. So each handler of the parser reads a whole token: the states      *)
(* inside of one (READ_START, READ_SPEAKER, READ_END) only decide its kind.*)
(***************************************************************************)
EXTENDS Naturals, Sequences, FiniteSets

CONSTANTS
  Transcripts,      \* what the model may generate
  Offset, Length,   \* the chunk: its place in the audio, and its length
  Grace,            \* how far a segment may end after the chunk (1 s)
  Loop,             \* that many brief cues with the same words in a row are a loop (8)
  Brief,            \* the longest of them (2 s)
  Breath, Slack     \* the pause and the overlap between two of them (0.25 s, 0.001 s)

Token == [kind : {"time", "speaker", "words", "note"}, value : Nat]
Time(t) == [kind |-> "time", value |-> t]
Speaker(s) == [kind |-> "speaker", value |-> s]

(* full: it took as many tokens as were allowed. *)
Transcript == [tokens : Seq(Token), full : BOOLEAN]

ASSUME TranscriptsAssumption == Transcripts \subseteq Transcript
ASSUME ChunkAssumption == Offset \in Nat /\ Length \in Nat /\ Grace \in Nat

VARIABLES
  transcript,
  position,   \* of the next token
  mode,       \* the state of the parser, "closed", or the verdict
  opened,     \* _start, _speaker, _text and _end of the segment that it reads
  voice,
  text,
  closing,
  segments,   \* those it has emitted
  cues        \* and those accepted, in the time of the file

parser == <<position, mode, opened, voice, text, closing, segments>>
parserVars == <<transcript, parser, cues>>

Segment == [start : Nat, end : Nat, speaker : Nat, text : Seq(Token)]
Cue == [start : Nat, end : Nat, speaker : Nat \X Nat, text : Seq(Token)]

Parsing == {"seek_start", "expect_speaker", "read_text", "after_end"}
Verdicts == {"silent", "accepted", "split", "failed"}

ParserTypeOK ==
  /\ transcript \in Transcripts
  /\ position \in Nat \ {0}
  /\ mode \in Parsing \cup {"closed"} \cup Verdicts
  /\ opened \in Nat /\ voice \in Nat /\ closing \in Nat
  /\ text \in Seq(Token)
  /\ segments \in Seq(Segment)
  /\ cues \in Seq(Cue)

tokens == transcript.tokens

ParserInit ==
  /\ transcript \in Transcripts
  /\ position = 1 /\ mode = "seek_start"
  /\ opened = 0 /\ voice = 0 /\ text = <<>> /\ closing = 0
  /\ segments = <<>> /\ cues = <<>>

-----------------------------------------------------------------------------
(* The parser: one action per handler. *)

IsPair(i) ==
  i + 1 <= Len(tokens) /\ tokens[i].kind = "time" /\ tokens[i + 1].kind = "speaker"

SharesBoundary(i) == IsPair(i) /\ IsPair(i + 2)

(* parse_transcript drops an empty segment whose end is the start of the next one. *)
DropEmptyPrefix ==
  /\ mode \in Parsing /\ SharesBoundary(position)
  /\ position' = position + 2
  /\ UNCHANGED <<transcript, mode, opened, voice, text, closing, segments, cues>>

Reads(m) ==
  /\ mode = m /\ position <= Len(tokens) /\ ~SharesBoundary(position)
  /\ position' = position + 1

token == tokens[position]

(* _seek_start and _read_start: anything but a time is skipped. *)
Seek ==
  IF token.kind = "time"
  THEN mode' = "expect_speaker" /\ opened' = token.value
  ELSE mode' = "seek_start" /\ UNCHANGED opened

SeekStart ==
  /\ Reads("seek_start") /\ Seek
  /\ UNCHANGED <<transcript, voice, text, closing, segments, cues>>

(* _expect_speaker_open and _read_speaker *)
ExpectSpeaker ==
  /\ Reads("expect_speaker")
  /\ IF token.kind = "speaker"
     THEN mode' = "read_text" /\ voice' = token.value /\ text' = <<>>
     ELSE mode' = "seek_start" /\ UNCHANGED <<voice, text>>
  /\ UNCHANGED <<transcript, opened, closing, segments, cues>>

(* _read_text and _read_end: a time that precedes the start is taken for text. *)
ReadText ==
  /\ Reads("read_text")
  /\ IF token.kind = "time" /\ token.value >= opened
     THEN mode' = "after_end" /\ closing' = token.value /\ UNCHANGED text
     ELSE text' = Append(text, token) /\ UNCHANGED <<mode, closing>>
  /\ UNCHANGED <<transcript, opened, voice, segments, cues>>

(* _emit_segment *)
Emitted ==
  IF text = <<>> THEN segments
  ELSE Append(segments, [start |-> opened, end |-> closing, speaker |-> voice, text |-> text])

(* Mutant: the bracket that confirms the end is not read as the next start. *)
AfterEndForgetful ==
  /\ Reads("after_end")
  /\ IF token.kind = "words"
     THEN /\ text' = text \o <<Time(closing), token>> /\ mode' = "read_text"
          /\ UNCHANGED <<opened, segments>>
     ELSE segments' = Emitted /\ mode' = "seek_start" /\ UNCHANGED <<text, opened>>
  /\ UNCHANGED <<transcript, voice, closing, cues>>

(* Mutant: the time that was not the end is lost. *)
AfterEndWithoutTime ==
  /\ Reads("after_end")
  /\ IF token.kind = "words"
     THEN /\ text' = Append(text, token) /\ mode' = "read_text"
          /\ UNCHANGED <<opened, segments>>
     ELSE segments' = Emitted /\ Seek /\ UNCHANGED text
  /\ UNCHANGED <<transcript, voice, closing, cues>>

(* _after_end: words show that the time was not the end; a bracket confirms it. *)
AfterEnd ==
  /\ Reads("after_end")
  /\ IF token.kind = "words"
     THEN /\ text' = text \o <<Time(closing), token>> /\ mode' = "read_text"
          /\ UNCHANGED <<opened, segments>>
     ELSE segments' = Emitted /\ Seek /\ UNCHANGED text
  /\ UNCHANGED <<transcript, voice, closing, cues>>

(* close: a segment that was not ended is dropped. *)
CloseParser ==
  /\ mode \in Parsing /\ position > Len(tokens)
  /\ segments' = IF mode = "after_end" THEN Emitted ELSE segments
  /\ mode' = "closed"
  /\ UNCHANGED <<transcript, position, opened, voice, text, closing, cues>>

-----------------------------------------------------------------------------
(* What the service and transcribeChunk make of it. *)

(* EMPTY_SEGMENTS and emptySpeechSegments: times and speakers only. *)
EmptySegments ==
  /\ tokens # <<>> /\ Len(tokens) % 3 = 0
  /\ \A i \in 1..Len(tokens) : tokens[i].kind = IF i % 3 = 2 THEN "speaker" ELSE "time"

Parsed == segments # <<>>

(* needs_timestamp_fallback: the service reports an error. *)
Unparseable == tokens # <<>> /\ ~Parsed /\ ~transcript.full /\ ~EmptySegments

NoSpeech == tokens = <<>> \/ EmptySegments

(* cleanCueText *)
Cleaned(s) ==
  LET kept[n \in 0..Len(s)] ==
        IF n = 0 THEN <<>>
        ELSE IF s[n].kind = "speaker" THEN kept[n - 1] ELSE Append(kept[n - 1], s[n])
  IN kept[Len(s)]

IsAnnotation(s) == Len(s) = 1 /\ s[1].kind \in {"time", "note"}

BriefSpeech(s) ==
  /\ Cleaned(s.text) # <<>> /\ ~IsAnnotation(Cleaned(s.text))
  /\ s.start < s.end /\ s.end - s.start <= Brief

Repeats(r, s) ==
  /\ r.speaker = s.speaker /\ Cleaned(r.text) = Cleaned(s.text)
  /\ r.end <= s.start + Slack /\ s.start <= r.end + Breath

(* repetitiveTranscript *)
Repetitive ==
  \E last \in 1..Len(segments) :
    /\ last >= Loop
    /\ \A i \in last - Loop + 1..last : BriefSpeech(segments[i])
    /\ \A i \in last - Loop + 2..last : Repeats(segments[i - 1], segments[i])

OutOfChunk(s) == s.end <= s.start \/ s.start >= Length \/ s.end > Length + Grace

(* offsetSegments: a speaker is known only in its chunk. *)
Placed(s) ==
  [start |-> s.start + Offset, end |-> Offset + (IF s.end < Length THEN s.end ELSE Length),
   speaker |-> <<Offset, s.speaker>>, text |-> s.text]

Judge(verdict) ==
  /\ mode = "closed" /\ mode' = verdict
  /\ UNCHANGED <<transcript, position, opened, voice, text, closing, segments>>

(* Mutant: whatever gives no segments is silence. *)
SpeechlessIfNotParsed == ~transcript.full /\ ~Parsed

Speechless == ~transcript.full /\ ~Unparseable /\ ~Parsed /\ NoSpeech

TakeForSilence == Judge("silent") /\ Speechless /\ UNCHANGED cues

TooMuch == transcript.full \/ Repetitive

(* The chunk is given to the model again, in two halves. *)
AskForHalves == Judge("split") /\ TooMuch /\ UNCHANGED cues

InChunk == \A i \in 1..Len(segments) : ~OutOfChunk(segments[i])

(* An error of the service, or times outside of the chunk: the run fails. *)
Refuse == Judge("failed") /\ ~Speechless /\ ~TooMuch /\ (Unparseable \/ ~InChunk) /\ UNCHANGED cues

AcceptSegments ==
  /\ Judge("accepted") /\ ~Speechless /\ ~TooMuch /\ ~Unparseable /\ InChunk
  /\ cues' = [i \in 1..Len(segments) |-> Placed(segments[i])]

Parse == DropEmptyPrefix \/ SeekStart \/ ExpectSpeaker \/ ReadText \/ AfterEnd \/ CloseParser

ParserNext == Parse \/ TakeForSilence \/ AskForHalves \/ Refuse \/ AcceptSegments

ParserSpec == ParserInit /\ [][ParserNext]_parserVars

-----------------------------------------------------------------------------
(* Properties. *)

(* timed_decoding.py, line 12: a time, a speaker, perhaps words, and a time, repeatedly. *)
EndOf(i) == IF tokens[i + 2].kind = "words" THEN i + 3 ELSE i + 2

Constrained ==
  /\ tokens # <<>> => IsPair(1)
  /\ \A i \in 1..Len(tokens) : IsPair(i) =>
       /\ i + 2 <= Len(tokens) /\ EndOf(i) <= Len(tokens)
       /\ tokens[EndOf(i)].kind = "time"
       /\ EndOf(i) < Len(tokens) => IsPair(EndOf(i) + 1)

Orderly ==
  /\ Constrained
  /\ \A i \in 1..Len(tokens) : IsPair(i) => tokens[i].value <= tokens[EndOf(i)].value

SaidAt(i) ==
  [start |-> tokens[i].value, end |-> tokens[EndOf(i)].value,
   speaker |-> tokens[i + 1].value, text |-> <<tokens[i + 2]>>]

Spoken == {i \in 1..Len(tokens) : IsPair(i) /\ tokens[i + 2].kind = "words"}

(***************************************************************************)
(* If the text obeys the grammar of the constrained decoding, and no       *)
(* segment of it ends before it starts, the parser finds exactly the       *)
(* segments with words.                                                    *)
(***************************************************************************)
OrderlyIsParsed ==
  mode \notin Parsing /\ Orderly =>
    {segments[n] : n \in 1..Len(segments)} = {SaidAt(i) : i \in Spoken}

(* The empty pairs never reach the parser. *)
Dropped(k) == SharesBoundary(k) \/ SharesBoundary(k - 1)

(* A time that can end a segment that starts at i: words after it make it text. *)
IsEnd(i, j) ==
  /\ tokens[j].kind = "time" /\ tokens[i].value <= tokens[j].value /\ ~SharesBoundary(j)
  /\ j < Len(tokens) => tokens[j + 1].kind # "words"

(* s is what follows the speaker, up to j. *)
IsText(s, i, j) ==
  LET Count(k) == Cardinality({m \in i + 2..k : ~Dropped(m)})
  IN /\ Len(s) = Count(j - 1)
     /\ \A k \in i + 2..j - 1 : ~Dropped(k) => Count(k) \in 1..Len(s) /\ s[Count(k)] = tokens[k]

(* The cue is the stretch of the text from i to j. *)
GeneratedAt(c, i, j) ==
  /\ IsPair(i) /\ i + 1 < j
  /\ c.start = Offset + tokens[i].value /\ c.speaker = <<Offset, tokens[i + 1].value>>
  /\ IsEnd(i, j) /\ \A k \in i + 2..j - 1 : ~IsEnd(i, k)
  /\ c.end = Offset + (IF tokens[j].value < Length THEN tokens[j].value ELSE Length)
  /\ IsText(c.text, i, j)

(***************************************************************************)
(* timed_decoding.py, lines 7-8: no timestamp is fabricated.  Whatever the *)
(* model generates, each cue is one stretch of it: a time, a speaker, all  *)
(* that follows, and the first time after it that is not before the start  *)
(* and has no words behind it.  So a segment that does not end before it   *)
(* starts has its own end; one that does is given the end of a later one,  *)
(* or a start.  The stretches are disjoint and in order, and the cues are  *)
(* within the chunk.                                                       *)
(***************************************************************************)
CuesAreGenerated ==
  /\ \A n \in 1..Len(cues) :
       Offset <= cues[n].start /\ cues[n].start < cues[n].end /\ cues[n].end <= Offset + Length
  /\ \E from \in [1..Len(cues) -> 1..Len(tokens)] : \A n \in 1..Len(cues) :
       \E j \in 1..Len(tokens) :
         GeneratedAt(cues[n], from[n], j) /\ (n < Len(cues) => j < from[n + 1])

(* README.md, lines 46-47: malformed text that is not empty fails, it is not no_speech. *)
WordsAreNotSilence ==
  mode = "silent" => \A i \in 1..Len(tokens) : tokens[i].kind # "words"

(***************************************************************************)
(* run.go, line 268: an incomplete transcript is never accepted. So all    *)
(* words of a text that obeys the grammar are in the cues.                 *)
(***************************************************************************)
WordsAreKept ==
  Constrained /\ mode = "accepted" =>
    \A i \in 1..Len(tokens) : tokens[i].kind = "words" =>
      \E n \in 1..Len(cues) : \E m \in 1..Len(cues[n].text) : cues[n].text[m] = tokens[i]
=============================================================================
