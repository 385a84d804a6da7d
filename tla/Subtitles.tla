------------------------------ MODULE Subtitles ------------------------------
(***************************************************************************)
(* From the text that the model generates to the cues of the subtitles:    *)
(* what TranscriptParser accepts is given to CueMerge.                     *)
(*                                                                         *)
(* The file has one chunk here; that several tile it is ChunkPipeline's.   *)
(***************************************************************************)
EXTENDS TranscriptParser, CueMerge

ASSUME NotesAreAnnotations == \A t \in Notes : IsAnnotation(t)

MergeIdle == ordered = <<>> /\ next = 1 /\ merged = <<>>

RawOf(c) == [start |-> c.start, end |-> c.end, speaker |-> c.speaker, texts |-> {Cleaned(c.text)}]

(* writeSubtitles, with what all chunks gave *)
WriteSubtitles ==
  /\ mode = "accepted" /\ MergeIdle
  /\ ordered' = InTime([n \in 1..Len(cues) |-> RawOf(cues[n])])
  /\ UNCHANGED <<next, merged, parserVars>>

SubtitlesInit == ParserInit /\ MergeIdle

SubtitlesNext ==
  \/ ParserNext /\ UNCHANGED mergeVars
  \/ WriteSubtitles
  \/ MergeNext /\ UNCHANGED parserVars

SubtitlesSpec == SubtitlesInit /\ [][SubtitlesNext]_<<parserVars, mergeVars>>

Written == mode = "accepted" /\ ordered # <<>> /\ next > Len(ordered)

Shown(i) ==
  \E n \in 1..Len(merged) :
    LET m == merged[n]  placed == Placed(SaidAt(i))
    IN /\ m.speaker = placed.speaker /\ placed.text \in m.texts
       /\ m.start <= placed.start /\ placed.end <= m.end

(***************************************************************************)
(* README.md, lines 46-47 and 67-69, from end to end: words are never      *)
(* taken for silence, and if the text obeys the grammar and no segment     *)
(* ends before it starts, all of them are shown for the time the model     *)
(* gave them.                                                              *)
(***************************************************************************)
SpeechIsShown ==
  /\ mode = "silent" => \A i \in 1..Len(tokens) : tokens[i].kind # "words"
  /\ Written /\ Orderly => \A i \in Spoken : Shown(i)
=============================================================================
