----------------------- MODULE TranscriptParserProofs -----------------------
(***************************************************************************)
(* Theorems about the parser and the verdicts, for any transcripts.        *)
(***************************************************************************)
EXTENDS TranscriptParser, SequenceTheorems, FiniteSetTheorems, TLAPS

-----------------------------------------------------------------------------
(* Types. *)

LEMMA TokensAreTyped ==
  ASSUME ParserTypeOK
  PROVE  /\ tokens \in Seq(Token) /\ Len(tokens) \in Nat
         /\ transcript.full \in BOOLEAN
         /\ \A i \in 1..Len(tokens) :
              tokens[i] \in Token /\ tokens[i].value \in Nat
              /\ tokens[i] = [kind |-> tokens[i].kind, value |-> tokens[i].value]
<1>1. transcript \in Transcript
  BY TranscriptsAssumption DEF ParserTypeOK
<1>2. tokens \in Seq(Token) /\ transcript.full \in BOOLEAN
  BY <1>1 DEF Transcript, tokens
<1>3. \A i \in 1..Len(tokens) : tokens[i] \in Token
  BY <1>2
<1> QED BY <1>2, <1>3 DEF Token

LEMMA TokenIsRead ==
  ASSUME ParserTypeOK, NEW m, Reads(m)
  PROVE  /\ mode = m /\ position \in 1..Len(tokens) /\ position' = position + 1
         /\ token \in Token /\ token.value \in Nat
         /\ token = [kind |-> token.kind, value |-> token.value]
<1>1. position \in 1..Len(tokens)
  BY TokensAreTyped DEF ParserTypeOK, Reads
<1> QED BY <1>1, TokensAreTyped DEF Reads, token

LEMMA EmittedIsTyped ==
  ASSUME ParserTypeOK PROVE Emitted \in Seq(Segment)
<1>1. text # <<>> =>
        [start |-> opened, end |-> closing, speaker |-> voice, text |-> text] \in Segment
  BY DEF ParserTypeOK, Segment
<1> QED BY <1>1 DEF ParserTypeOK, Emitted

LEMMA PlacedIsTyped ==
  ASSUME NEW s \in Segment PROVE Placed(s) \in Cue
BY ChunkAssumption DEF Segment, Cue, Placed

LEMMA StepKeepsTypes ==
  ASSUME ParserTypeOK, ParserNext PROVE ParserTypeOK'
<1> USE DEF ParserTypeOK, Parsing
<1>1. CASE DropEmptyPrefix
  BY <1>1 DEF DropEmptyPrefix
<1>2. CASE SeekStart
  <2>1. position' = position + 1 /\ token.value \in Nat
    BY <1>2, TokenIsRead DEF SeekStart
  <2>2. CASE token.kind = "time"
    BY <1>2, <2>1, <2>2 DEF SeekStart, Seek
  <2>3. CASE token.kind # "time"
    BY <1>2, <2>1, <2>3 DEF SeekStart, Seek
  <2> QED BY <2>2, <2>3
<1>3. CASE ExpectSpeaker
  <2>1. position' = position + 1 /\ token.value \in Nat
    BY <1>3, TokenIsRead DEF ExpectSpeaker
  <2>2. CASE token.kind = "speaker"
    BY <1>3, <2>1, <2>2 DEF ExpectSpeaker
  <2>3. CASE token.kind # "speaker"
    BY <1>3, <2>1, <2>3 DEF ExpectSpeaker
  <2> QED BY <2>2, <2>3
<1>4. CASE ReadText
  <2>1. position' = position + 1 /\ token \in Token /\ token.value \in Nat
    BY <1>4, TokenIsRead DEF ReadText
  <2>2. Append(text, token) \in Seq(Token)
    BY <2>1
  <2>3. CASE token.kind = "time" /\ token.value >= opened
    BY <1>4, <2>1, <2>3 DEF ReadText
  <2>4. CASE ~(token.kind = "time" /\ token.value >= opened)
    <3>1. text' \in Seq(Token)
      BY <1>4, <2>2, <2>4, Zenon DEF ReadText
    <3>2. UNCHANGED <<transcript, opened, voice, segments, cues, mode, closing>>
      BY <1>4, <2>4 DEF ReadText
    <3> QED BY <2>1, <3>1, <3>2
  <2> QED BY <2>3, <2>4
<1>5. CASE AfterEnd
  <2>1. position' = position + 1 /\ token \in Token /\ token.value \in Nat
    BY <1>5, TokenIsRead DEF AfterEnd
  <2>2. Time(closing) \in Token
    BY DEF Time, Token
  <2>3. text \o <<Time(closing), token>> \in Seq(Token)
    BY <2>1, <2>2
  <2>4. CASE token.kind = "words"
    <3>1. text' \in Seq(Token)
      BY <1>5, <2>3, <2>4, Zenon DEF AfterEnd
    <3>2. mode' = "read_text" /\ UNCHANGED <<transcript, opened, voice, closing, segments, cues>>
      BY <1>5, <2>4 DEF AfterEnd
    <3> QED BY <2>1, <3>1, <3>2
  <2>5. CASE token.kind # "words"
    BY <1>5, <2>1, <2>5, EmittedIsTyped DEF AfterEnd, Seek
  <2> QED BY <2>4, <2>5
<1>6. CASE CloseParser
  BY <1>6, EmittedIsTyped DEF CloseParser
<1>7. CASE TakeForSilence \/ AskForHalves \/ Refuse
  BY <1>7 DEF TakeForSilence, AskForHalves, Refuse, Judge, Verdicts
<1>8. CASE AcceptSegments
  <2>1. \A i \in 1..Len(segments) : Placed(segments[i]) \in Cue
    BY PlacedIsTyped
  <2>2. [i \in 1..Len(segments) |-> Placed(segments[i])] \in Seq(Cue)
    BY <2>1
  <2> QED BY <1>8, <2>2 DEF AcceptSegments, Judge, Verdicts
<1> QED BY <1>1, <1>2, <1>3, <1>4, <1>5, <1>6, <1>7, <1>8 DEF ParserNext, Parse

(* The state of the parser is well typed, whatever is generated. *)
THEOREM ParserTypes == ParserSpec => []ParserTypeOK
<1>1. ParserInit => ParserTypeOK
  BY DEF ParserInit, ParserTypeOK, Parsing
<1>2. ParserTypeOK /\ [ParserNext]_parserVars => ParserTypeOK'
  <2> SUFFICES ASSUME ParserTypeOK, [ParserNext]_parserVars PROVE ParserTypeOK'
    OBVIOUS
  <2>1. CASE ParserNext
    BY <2>1, StepKeepsTypes
  <2>2. CASE UNCHANGED parserVars
    BY <2>2 DEF parserVars, parser, ParserTypeOK
  <2> QED BY <2>1, <2>2
<1> QED BY <1>1, <1>2, PTL DEF ParserSpec

-----------------------------------------------------------------------------
(* An orderly text is parsed segment by segment. *)

(* How far the parser is in the segment that starts at i. *)
Inside(i) ==
  \/ mode = "expect_speaker" /\ position = i + 1 /\ opened = tokens[i].value
  \/ /\ mode \in {"read_text", "after_end"}
     /\ opened = tokens[i].value /\ voice = tokens[i + 1].value
     /\ \/ mode = "read_text" /\ position = i + 2 /\ text = <<>>
        \/ mode = "read_text" /\ position = i + 3 /\ i \in Spoken /\ text = <<tokens[i + 2]>>
        \/ /\ mode = "after_end" /\ position = EndOf(i) + 1
           /\ closing = tokens[EndOf(i)].value
           /\ text = IF i \in Spoken THEN <<tokens[i + 2]>> ELSE <<>>

Found(S) == {segments[n] : n \in 1..Len(segments)} = {SaidAt(j) : j \in S}

Ahead(i) == {j \in Spoken : j < i}

InOrder ==
  \/ mode = "seek_start" /\ position = 1 /\ segments = <<>>
  \/ \E i \in 1..Len(tokens) : IsPair(i) /\ Inside(i) /\ Found(Ahead(i))
  \/ mode \notin Parsing /\ Found(Spoken)

LEMMA PairsAreApart ==
  ASSUME ParserTypeOK, Orderly, NEW i \in 1..Len(tokens), IsPair(i)
  PROVE  /\ EndOf(i) \in 1..Len(tokens)
         /\ EndOf(i) = IF i \in Spoken THEN i + 3 ELSE i + 2
         /\ i \in Spoken <=> tokens[i + 2].kind = "words"
         /\ tokens[EndOf(i)].kind = "time" /\ tokens[i].value <= tokens[EndOf(i)].value
         /\ EndOf(i) < Len(tokens) => IsPair(EndOf(i) + 1)
         /\ ~SharesBoundary(i)
         /\ \A j \in i + 1..EndOf(i) : ~IsPair(j)
<1>1. /\ i + 2 <= Len(tokens) /\ EndOf(i) <= Len(tokens)
      /\ tokens[EndOf(i)].kind = "time"
      /\ EndOf(i) < Len(tokens) => IsPair(EndOf(i) + 1)
      /\ tokens[i].value <= tokens[EndOf(i)].value
  BY DEF Orderly, Constrained
<1>2. i \in Spoken <=> tokens[i + 2].kind = "words"
  BY DEF Spoken
<1>3. EndOf(i) = IF i \in Spoken THEN i + 3 ELSE i + 2
  BY <1>2 DEF EndOf
<1>4. EndOf(i) \in 1..Len(tokens)
  BY <1>1, <1>3, TokensAreTyped
<1>5. \A j \in i + 1..EndOf(i) : ~IsPair(j)
  <2> SUFFICES ASSUME NEW j \in i + 1..EndOf(i), IsPair(j) PROVE FALSE
    OBVIOUS
  <2>1. j + 1 <= Len(tokens) /\ tokens[j].kind = "time" /\ tokens[j + 1].kind = "speaker"
    BY DEF IsPair
  <2>2. tokens[i + 1].kind = "speaker"
    BY DEF IsPair
  <2>3. j = EndOf(i)
    BY <1>2, <1>3, <2>1, <2>2, TokensAreTyped
  <2>4. tokens[j + 1].kind = "time"
    BY <1>1, <1>4, <2>1, <2>3, TokensAreTyped DEF IsPair
  <2> QED BY <2>1, <2>4
<1>6. ~SharesBoundary(i)
  <2> SUFFICES ASSUME IsPair(i + 2) PROVE FALSE
    BY DEF SharesBoundary
  <2>1. tokens[i + 2].kind = "time"
    BY DEF IsPair
  <2>2. EndOf(i) = i + 2
    BY <1>2, <1>3, <2>1
  <2> QED BY <1>4, <1>5, <2>2, TokensAreTyped
<1> QED BY <1>1, <1>2, <1>3, <1>4, <1>5, <1>6

LEMMA NextAhead ==
  ASSUME ParserTypeOK, Orderly, NEW i \in 1..Len(tokens), IsPair(i)
  PROVE  LET done == Ahead(i) \cup (IF i \in Spoken THEN {i} ELSE {})
         IN /\ Ahead(EndOf(i) + 1) = done
            /\ EndOf(i) = Len(tokens) => Spoken = done
<1>1. Spoken \subseteq {j \in 1..Len(tokens) : IsPair(j)}
  BY DEF Spoken
<1>2. EndOf(i) \in 1..Len(tokens) /\ i < EndOf(i) /\ \A j \in i + 1..EndOf(i) : ~IsPair(j)
  BY PairsAreApart, TokensAreTyped
<1>3. \A j \in Spoken : j < EndOf(i) + 1 <=> j < i \/ j = i
  BY <1>1, <1>2, TokensAreTyped
<1>4. \A j : j \in Ahead(EndOf(i) + 1) <=> j \in Ahead(i) \/ (j = i /\ i \in Spoken)
  BY <1>3 DEF Ahead
<1>5. EndOf(i) = Len(tokens) => \A j \in Spoken : j < EndOf(i) + 1
  BY <1>1, TokensAreTyped
<1>6. EndOf(i) = Len(tokens) => Spoken = Ahead(EndOf(i) + 1)
  BY <1>5 DEF Ahead
<1>7. Ahead(EndOf(i) + 1) = Ahead(i) \cup (IF i \in Spoken THEN {i} ELSE {})
  BY <1>4
<1> QED BY <1>6, <1>7

LEMMA TextIsKept ==
  ASSUME transcript' = transcript
  PROVE  /\ tokens' = tokens /\ Spoken' = Spoken
         /\ (Orderly' <=> Orderly) /\ (Constrained' <=> Constrained)
         /\ \A i : (IsPair(i)' <=> IsPair(i)) /\ EndOf(i)' = EndOf(i) /\ SaidAt(i)' = SaidAt(i)
                   /\ Ahead(i)' = Ahead(i)
BY DEF tokens, Spoken, Orderly, Constrained, IsPair, EndOf, SaidAt, Ahead

LEMMA FoundIsKept ==
  ASSUME transcript' = transcript, segments' = segments
  PROVE  /\ \A i : Found(Ahead(i)) => Found(Ahead(i))'
         /\ Found(Spoken) => Found(Spoken)'
<1>1. \A i : Ahead(i)' = Ahead(i) /\ SaidAt(i)' = SaidAt(i)
  BY TextIsKept
<1>2. Spoken' = Spoken
  BY TextIsKept
<1> QED BY <1>1, <1>2 DEF Found

(* What _emit_segment adds is the segment that was read. *)
LEMMA EmittedIsFound ==
  ASSUME ParserTypeOK, Orderly, NEW i \in 1..Len(tokens), IsPair(i), Inside(i),
         mode = "after_end", Found(Ahead(i))
  PROVE  {Emitted[n] : n \in 1..Len(Emitted)}
           = {SaidAt(j) : j \in Ahead(i) \cup (IF i \in Spoken THEN {i} ELSE {})}
<1>1. /\ opened = tokens[i].value /\ voice = tokens[i + 1].value
      /\ closing = tokens[EndOf(i)].value
      /\ text = IF i \in Spoken THEN <<tokens[i + 2]>> ELSE <<>>
  BY DEF Inside
<1>2. CASE i \in Spoken
  <2>1. text = <<tokens[i + 2]>> /\ text # <<>>
    BY <1>1, <1>2
  <2> DEFINE said == [start |-> opened, end |-> closing, speaker |-> voice, text |-> text]
  <2>2. said = SaidAt(i) /\ Emitted = Append(segments, said)
    BY <1>1, <2>1 DEF SaidAt, Emitted
  <2>3. segments \in Seq(Segment) /\ said \in Segment
    BY DEF ParserTypeOK, Segment
  <2> HIDE DEF said
  <2>4. /\ Len(Emitted) = Len(segments) + 1 /\ Emitted[Len(segments) + 1] = said
        /\ \A n \in 1..Len(segments) : Emitted[n] = segments[n]
    BY <2>2, <2>3
  <2>5. {Emitted[n] : n \in 1..Len(Emitted)} = {segments[n] : n \in 1..Len(segments)} \cup {said}
    BY <2>3, <2>4
  <2>6. {SaidAt(j) : j \in Ahead(i) \cup {i}} = {SaidAt(j) : j \in Ahead(i)} \cup {SaidAt(i)}
    OBVIOUS
  <2> QED BY <1>2, <2>2, <2>5, <2>6 DEF Found
<1>3. CASE i \notin Spoken
  BY <1>1, <1>3 DEF Emitted, Found
<1> QED BY <1>2, <1>3

LEMMA FirstTimeIsRead ==
  ASSUME ParserTypeOK, Orderly, InOrder, SeekStart PROVE InOrder'
<1>1. mode = "seek_start" /\ position = 1 /\ segments = <<>> /\ 1 \in 1..Len(tokens)
  BY TokenIsRead DEF SeekStart, InOrder, Inside, Parsing
<1>2. tokens # <<>>
  BY <1>1
<1>3. IsPair(1) /\ token.kind = "time" /\ token = tokens[1]
  BY <1>1, <1>2 DEF Orderly, Constrained, IsPair, token
<1>4. /\ transcript' = transcript /\ segments' = <<>> /\ position' = 2
      /\ mode' = "expect_speaker" /\ opened' = tokens[1].value
  BY <1>1, <1>3 DEF SeekStart, Seek, Reads
<1>5. IsPair(1)' /\ tokens' = tokens
  BY <1>3, <1>4, TextIsKept
<1>6. Inside(1)'
  BY <1>4, <1>5 DEF Inside
<1>7. Ahead(1)' = {}
  BY <1>4, TextIsKept, TokensAreTyped DEF Ahead, Spoken
<1>8. Found(Ahead(1))'
  BY <1>4, <1>7 DEF Found
<1> QED BY <1>1, <1>5, <1>6, <1>8 DEF InOrder

LEMMA InsideStays ==
  ASSUME ParserTypeOK, Orderly, InOrder, mode \in Parsing, mode # "seek_start"
  PROVE  \E i \in 1..Len(tokens) : IsPair(i) /\ Inside(i) /\ Found(Ahead(i))
BY DEF InOrder

LEMMA SpeakerIsRead ==
  ASSUME ParserTypeOK, Orderly, InOrder, ExpectSpeaker PROVE InOrder'
<1>1. mode = "expect_speaker" /\ position' = position + 1
  BY DEF ExpectSpeaker, Reads
<1>2. PICK i \in 1..Len(tokens) : IsPair(i) /\ Inside(i) /\ Found(Ahead(i))
  BY <1>1, InsideStays DEF Parsing
<1>3. position = i + 1 /\ opened = tokens[i].value
  BY <1>1, <1>2 DEF Inside
<1>4. token = tokens[i + 1] /\ token.kind = "speaker"
  BY <1>2, <1>3 DEF token, IsPair
<1>5. /\ mode' = "read_text" /\ voice' = tokens[i + 1].value /\ text' = <<>>
      /\ UNCHANGED <<transcript, opened, segments>>
  BY <1>4 DEF ExpectSpeaker
<1>6. tokens' = tokens /\ IsPair(i)' /\ Found(Ahead(i))'
  BY <1>2, <1>5, TextIsKept, FoundIsKept
<1>7. Inside(i)'
  BY <1>1, <1>3, <1>5, <1>6 DEF Inside
<1> QED BY <1>6, <1>7 DEF InOrder

LEMMA WordsAreRead ==
  ASSUME ParserTypeOK, Orderly, InOrder, ReadText PROVE InOrder'
<1>1. mode = "read_text" /\ position' = position + 1 /\ UNCHANGED <<transcript, opened, voice, segments>>
  BY DEF ReadText, Reads
<1>2. PICK i \in 1..Len(tokens) : IsPair(i) /\ Inside(i) /\ Found(Ahead(i))
  BY <1>1, InsideStays DEF Parsing
<1>3. /\ opened = tokens[i].value /\ voice = tokens[i + 1].value
      /\ \/ position = i + 2 /\ text = <<>>
         \/ position = i + 3 /\ i \in Spoken /\ text = <<tokens[i + 2]>>
  BY <1>1, <1>2 DEF Inside
<1>4. /\ tokens' = tokens /\ IsPair(i)' /\ Found(Ahead(i))'
      /\ Spoken' = Spoken /\ EndOf(i)' = EndOf(i)
  BY <1>1, <1>2, TextIsKept, FoundIsKept
<1>5. CASE position = EndOf(i)
  <2>1. token.kind = "time" /\ token.value >= opened /\ token = tokens[EndOf(i)]
    BY <1>2, <1>3, <1>5, PairsAreApart, TokensAreTyped DEF token
  <2>2. mode' = "after_end" /\ closing' = tokens[EndOf(i)].value /\ text' = text
    BY <2>1 DEF ReadText
  <2>3. text = IF i \in Spoken THEN <<tokens[i + 2]>> ELSE <<>>
    BY <1>2, <1>3, <1>5, PairsAreApart
  <2>4. Inside(i)'
    BY <1>1, <1>3, <1>4, <1>5, <2>2, <2>3 DEF Inside
  <2> QED BY <1>4, <2>4 DEF InOrder
<1>6. CASE position # EndOf(i)
  <2>1. position = i + 2 /\ text = <<>> /\ i \in Spoken
    BY <1>2, <1>3, <1>6, PairsAreApart
  <2>2. token = tokens[i + 2] /\ token.kind # "time"
    BY <1>2, <2>1, PairsAreApart DEF token
  <2>3. mode' = mode /\ text' = <<tokens[i + 2]>>
    BY <2>1, <2>2 DEF ReadText
  <2>4. Inside(i)'
    BY <1>1, <1>3, <1>4, <2>1, <2>3 DEF Inside
  <2> QED BY <1>4, <2>4 DEF InOrder
<1> QED BY <1>5, <1>6

LEMMA EndIsConfirmed ==
  ASSUME ParserTypeOK, Orderly, InOrder, AfterEnd PROVE InOrder'
<1>1. /\ mode = "after_end" /\ position' = position + 1 /\ position <= Len(tokens)
      /\ UNCHANGED <<transcript, voice, closing>>
  BY DEF AfterEnd, Reads
<1>2. PICK i \in 1..Len(tokens) : IsPair(i) /\ Inside(i) /\ Found(Ahead(i))
  BY <1>1, InsideStays DEF Parsing
<1>3. /\ position = EndOf(i) + 1 /\ EndOf(i) + 1 \in 1..Len(tokens)
      /\ IsPair(EndOf(i) + 1)
  BY <1>1, <1>2, PairsAreApart, TokensAreTyped DEF Inside
<1>4. PICK k \in 1..Len(tokens) : k = EndOf(i) + 1 /\ position = k /\ IsPair(k)
  BY <1>3
<1>5. token = tokens[k] /\ token.kind = "time"
  BY <1>4 DEF token, IsPair
<1>6. segments' = Emitted /\ mode' = "expect_speaker" /\ opened' = tokens[k].value
  BY <1>5 DEF AfterEnd, Seek
<1>7. {Emitted[n] : n \in 1..Len(Emitted)} = {SaidAt(j) : j \in Ahead(k)}
  BY <1>1, <1>2, <1>4, EmittedIsFound, NextAhead
<1>8. tokens' = tokens /\ IsPair(k)' /\ Ahead(k)' = Ahead(k) /\ \A j : SaidAt(j)' = SaidAt(j)
  BY <1>1, <1>4, TextIsKept
<1>9. Inside(k)'
  BY <1>1, <1>4, <1>6, <1>8 DEF Inside
<1>10. Found(Ahead(k))'
  BY <1>6, <1>7, <1>8 DEF Found
<1> QED BY <1>4, <1>8, <1>9, <1>10 DEF InOrder

LEMMA ParserIsClosed ==
  ASSUME ParserTypeOK, Orderly, InOrder, CloseParser PROVE InOrder'
<1>1. /\ mode \in Parsing /\ position > Len(tokens) /\ mode' = "closed"
      /\ segments' = (IF mode = "after_end" THEN Emitted ELSE segments)
      /\ transcript' = transcript
  BY DEF CloseParser
<1>2. CASE mode = "seek_start"
  <2>1. position = 1 /\ segments = <<>>
    BY <1>2 DEF InOrder, Inside, Parsing
  <2>2. Spoken = {}
    BY <1>1, <2>1, TokensAreTyped DEF Spoken
  <2>3. Found(Spoken)
    BY <2>1, <2>2 DEF Found
  <2>4. Found(Spoken)'
    BY <1>1, <1>2, <2>3, FoundIsKept
  <2> QED BY <1>1, <2>4 DEF InOrder, Parsing
<1>3. CASE mode # "seek_start"
  <2>1. PICK i \in 1..Len(tokens) : IsPair(i) /\ Inside(i) /\ Found(Ahead(i))
    BY <1>1, <1>3, InsideStays
  <2>2. mode = "after_end" /\ EndOf(i) = Len(tokens)
    BY <1>1, <2>1, PairsAreApart, TokensAreTyped DEF Inside, IsPair
  <2>3. {Emitted[n] : n \in 1..Len(Emitted)} = {SaidAt(j) : j \in Spoken}
    BY <2>1, <2>2, EmittedIsFound, NextAhead
  <2>4. Spoken' = Spoken /\ \A j : SaidAt(j)' = SaidAt(j)
    BY <1>1, TextIsKept
  <2>5. Found(Spoken)'
    BY <1>1, <2>2, <2>3, <2>4 DEF Found
  <2> QED BY <1>1, <2>5 DEF InOrder, Parsing
<1> QED BY <1>2, <1>3

LEMMA OrderIsKept ==
  ASSUME ParserTypeOK, Orderly => InOrder, [ParserNext]_parserVars
  PROVE  (Orderly => InOrder)'
<1>1. transcript' = transcript
  BY DEF ParserNext, Parse, DropEmptyPrefix, SeekStart, ExpectSpeaker, ReadText, AfterEnd, CloseParser,
         TakeForSilence, AskForHalves, Refuse, AcceptSegments, Judge, parserVars, parser
<1>2. SUFFICES ASSUME Orderly, InOrder PROVE InOrder'
  BY <1>1, TextIsKept
<1>3. CASE DropEmptyPrefix
  <2>1. mode \in Parsing /\ SharesBoundary(position) /\ IsPair(position)
    BY <1>3 DEF DropEmptyPrefix, SharesBoundary
  <2>2. position \in 1..Len(tokens)
    BY <2>1, TokensAreTyped DEF IsPair, ParserTypeOK
  <2> QED BY <1>2, <2>1, <2>2, PairsAreApart
<1>4. CASE SeekStart
  BY <1>2, <1>4, FirstTimeIsRead
<1>5. CASE ExpectSpeaker
  BY <1>2, <1>5, SpeakerIsRead
<1>6. CASE ReadText
  BY <1>2, <1>6, WordsAreRead
<1>7. CASE AfterEnd
  BY <1>2, <1>7, EndIsConfirmed
<1>8. CASE CloseParser
  BY <1>2, <1>8, ParserIsClosed
<1>9. CASE TakeForSilence \/ AskForHalves \/ Refuse \/ AcceptSegments
  <2>1. mode = "closed" /\ mode' \in Verdicts /\ segments' = segments
    BY <1>9 DEF TakeForSilence, AskForHalves, Refuse, AcceptSegments, Judge, Verdicts
  <2>2. mode \notin Parsing /\ mode' \notin Parsing
    BY <2>1 DEF Parsing, Verdicts
  <2>3. Found(Spoken)
    BY <1>2, <2>1, <2>2 DEF InOrder, Inside
  <2>4. Found(Spoken)'
    BY <1>1, <2>1, <2>3, FoundIsKept
  <2> QED BY <2>2, <2>4 DEF InOrder, Parsing
<1>10. CASE UNCHANGED parserVars
  <2>1. /\ UNCHANGED <<transcript, position, mode, opened, voice, text, closing, segments>>
    BY <1>10 DEF parserVars, parser
  <2>2. /\ tokens' = tokens /\ Spoken' = Spoken
        /\ \A i : (IsPair(i)' <=> IsPair(i)) /\ EndOf(i)' = EndOf(i)
    BY <2>1, TextIsKept
  <2>3. \A i : Inside(i)' <=> Inside(i)
    BY <2>1, <2>2 DEF Inside
  <2> QED BY <1>2, <2>1, <2>2, <2>3, FoundIsKept DEF InOrder, Parsing
<1> QED BY <1>3, <1>4, <1>5, <1>6, <1>7, <1>8, <1>9, <1>10 DEF ParserNext, Parse

(* Of an orderly text the parser finds exactly the segments with words, however long it is. *)
THEOREM OrderlyIsAlwaysParsed == ParserSpec => []OrderlyIsParsed
<1>1. ParserInit => (Orderly => InOrder)
  BY DEF ParserInit, InOrder
<1>2. ParserTypeOK /\ (Orderly => InOrder) /\ [ParserNext]_parserVars => (Orderly => InOrder)'
  BY OrderIsKept
<1>3. ParserTypeOK /\ (Orderly => InOrder) => OrderlyIsParsed
  BY DEF InOrder, Inside, Found, Parsing, OrderlyIsParsed
<1> QED BY <1>1, <1>2, <1>3, ParserTypes, PTL DEF ParserSpec

-----------------------------------------------------------------------------
(* What is accepted was generated. *)

Kept(i, k) == {m \in i + 2..k : ~Dropped(m)}

LEMMA OneMoreKept ==
  ASSUME NEW i \in Nat, NEW j \in Nat, i + 1 < j
  PROVE  /\ Cardinality(Kept(i, j - 1)) \in Nat
         /\ Dropped(j) => Kept(i, j) = Kept(i, j - 1)
         /\ ~Dropped(j) => Cardinality(Kept(i, j)) = Cardinality(Kept(i, j - 1)) + 1
<1>1. IsFiniteSet(i + 2..j - 1)
  BY FS_Interval
<1>2. IsFiniteSet(Kept(i, j - 1))
  BY <1>1, FS_Subset DEF Kept
<1>3. Cardinality(Kept(i, j - 1)) \in Nat
  BY <1>2, FS_CardinalityType
<1>4. i + 2..j = (i + 2..j - 1) \cup {j} /\ j \notin i + 2..j - 1
  OBVIOUS
<1>5. Dropped(j) => Kept(i, j) = Kept(i, j - 1)
  BY <1>4 DEF Kept
<1>6. ~Dropped(j) => Kept(i, j) = Kept(i, j - 1) \cup {j} /\ j \notin Kept(i, j - 1)
  BY <1>4 DEF Kept
<1> QED BY <1>2, <1>3, <1>5, <1>6, FS_AddElement

LEMMA TextOfKept ==
  ASSUME NEW s, NEW i, NEW j
  PROVE  IsText(s, i, j) <=>
           /\ Len(s) = Cardinality(Kept(i, j - 1))
           /\ \A k \in i + 2..j - 1 : ~Dropped(k) =>
                Cardinality(Kept(i, k)) \in 1..Len(s) /\ s[Cardinality(Kept(i, k))] = tokens[k]
BY DEF IsText, Kept

LEMMA TextBegins ==
  ASSUME NEW i \in Nat PROVE IsText(<<>>, i, i + 2)
<1>1. i + 2..i + 1 = {} /\ i + 2 - 1 = i + 1
  OBVIOUS
<1>2. Kept(i, i + 1) = {}
  BY <1>1 DEF Kept
<1>3. Cardinality({}) = 0
  BY FS_EmptySet
<1>4. Len(<<>>) = 0
  OBVIOUS
<1>5. /\ Len(<<>>) = Cardinality(Kept(i, i + 2 - 1))
      /\ \A k \in i + 2..i + 2 - 1 : FALSE
  BY <1>1, <1>2, <1>3, <1>4
<1> QED BY <1>5, TextOfKept

LEMMA TextGrows ==
  ASSUME NEW s \in Seq(Token), NEW i \in Nat, NEW j \in Nat, i + 1 < j,
         IsText(s, i, j), ~Dropped(j), NEW t \in Token, t = tokens[j]
  PROVE  IsText(Append(s, t), i, j + 1)
<1>1. /\ Len(s) = Cardinality(Kept(i, j - 1)) /\ Len(s) \in Nat
      /\ \A k \in i + 2..j - 1 : ~Dropped(k) =>
           Cardinality(Kept(i, k)) \in 1..Len(s) /\ s[Cardinality(Kept(i, k))] = tokens[k]
  BY TextOfKept
<1>2. Cardinality(Kept(i, j)) = Len(s) + 1
  BY <1>1, OneMoreKept
<1>3. /\ Len(Append(s, t)) = Len(s) + 1 /\ Append(s, t)[Len(s) + 1] = t
      /\ \A n \in 1..Len(s) : Append(s, t)[n] = s[n]
  OBVIOUS
<1>4. ASSUME NEW k \in i + 2..j, ~Dropped(k)
      PROVE  /\ Cardinality(Kept(i, k)) \in 1..Len(Append(s, t))
             /\ Append(s, t)[Cardinality(Kept(i, k))] = tokens[k]
  <2>1. CASE k = j
    BY <1>1, <1>2, <1>3, <2>1
  <2>2. CASE k \in i + 2..j - 1
    BY <1>1, <1>3, <1>4, <2>2
  <2> QED BY <2>1, <2>2
<1>5. j + 1 - 1 = j
  OBVIOUS
<1> DEFINE longer == Append(s, t)
<1>6. /\ Len(longer) = Cardinality(Kept(i, j + 1 - 1))
      /\ \A k \in i + 2..j + 1 - 1 : ~Dropped(k) =>
           Cardinality(Kept(i, k)) \in 1..Len(longer) /\ longer[Cardinality(Kept(i, k))] = tokens[k]
  BY <1>2, <1>3, <1>4, <1>5
<1> HIDE DEF longer
<1>7. IsText(longer, i, j + 1)
  BY <1>6, TextOfKept
<1> QED BY <1>7 DEF longer

LEMMA TextSkips ==
  ASSUME NEW s, NEW i \in Nat, NEW j \in Nat, i + 1 < j, IsText(s, i, j), Dropped(j)
  PROVE  IsText(s, i, j + 1)
<1>1. Kept(i, j) = Kept(i, j - 1) /\ j + 1 - 1 = j
  BY OneMoreKept
<1>2. \A k \in i + 2..j : k \in i + 2..j - 1 \/ Dropped(k)
  OBVIOUS
<1>3. /\ Len(s) = Cardinality(Kept(i, j + 1 - 1))
      /\ \A k \in i + 2..j + 1 - 1 : ~Dropped(k) =>
           Cardinality(Kept(i, k)) \in 1..Len(s) /\ s[Cardinality(Kept(i, k))] = tokens[k]
  BY <1>1, <1>2, TextOfKept
<1> QED BY <1>3, TextOfKept

-----------------------------------------------------------------------------

(* The segment is the stretch of the text from i to j. *)
SegmentAt(s, i, j) ==
  /\ IsPair(i) /\ i + 1 < j
  /\ s.start = tokens[i].value /\ s.speaker = tokens[i + 1].value
  /\ IsEnd(i, j) /\ \A k \in i + 2..j - 1 : ~IsEnd(i, k)
  /\ s.end = tokens[j].value
  /\ IsText(s.text, i, j)

(* So are all of s, one after the other, before the limit. *)
LaidOut(s, limit) ==
  \E from \in [1..Len(s) -> 1..Len(tokens)] : \A n \in 1..Len(s) : \E j \in 1..Len(tokens) :
    /\ SegmentAt(s[n], from[n], j)
    /\ n < Len(s) => j < from[n + 1]
    /\ n = Len(s) => j < limit

(* A time at i was read for a start. *)
Opens(i) ==
  /\ i \in 1..Len(tokens) /\ i < position /\ tokens[i].kind = "time" /\ opened = tokens[i].value
  /\ i = position - 1 \/ IsPair(position)
  /\ LaidOut(segments, i)

(* The segment that starts at i is read up to j. *)
Reached(i, j) ==
  /\ i \in 1..Len(tokens) /\ IsPair(i)
  /\ opened = tokens[i].value /\ voice = tokens[i + 1].value
  /\ j \in Nat /\ i + 1 < j /\ IsText(text, i, j)
  /\ \A k \in i + 2..j - 1 : ~IsEnd(i, k)
  /\ LaidOut(segments, i)

(* The time at j ends it, unless words follow. *)
Closes(i, j) ==
  /\ Reached(i, j) /\ j \in 1..Len(tokens)
  /\ tokens[j].kind = "time" /\ opened <= closing /\ closing = tokens[j].value
  /\ ~SharesBoundary(j)
  /\ \/ j = position - 1
     \/ j < position - 1 /\ tokens[j + 1].kind = "time" /\ IsPair(position)

Traced ==
  /\ mode = "seek_start" => LaidOut(segments, position)
  /\ mode = "expect_speaker" => \E i : Opens(i)
  /\ mode = "read_text" => \E i : Reached(i, position)
  /\ mode = "after_end" => \E i, j : Closes(i, j)
  /\ mode \notin Parsing => LaidOut(segments, Len(tokens) + 1)
  /\ mode \in Parsing /\ 1 < position => ~SharesBoundary(position - 1)

(* What is said of the text alone stays true. *)
LEMMA TextStays ==
  ASSUME transcript' = transcript
  PROVE  /\ tokens' = tokens
         /\ \A i : (IsPair(i)' <=> IsPair(i)) /\ (SharesBoundary(i)' <=> SharesBoundary(i))
         /\ \A i, j : IsEnd(i, j)' <=> IsEnd(i, j)
         /\ \A s, i, j : IsText(s, i, j)' <=> IsText(s, i, j)
         /\ \A s, limit : LaidOut(s, limit)' <=> LaidOut(s, limit)
         /\ \A c, i, j : GeneratedAt(c, i, j)' <=> GeneratedAt(c, i, j)
<1>1. tokens' = tokens
  BY DEF tokens
<1>2. \A i : (IsPair(i)' <=> IsPair(i)) /\ (SharesBoundary(i)' <=> SharesBoundary(i))
  BY <1>1 DEF IsPair, SharesBoundary
<1>3. \A i, j : IsEnd(i, j)' <=> IsEnd(i, j)
  BY <1>1, <1>2 DEF IsEnd
<1>4. \A k : Dropped(k)' <=> Dropped(k)
  BY <1>2 DEF Dropped
<1>5. \A i, k : Kept(i, k)' = Kept(i, k)
  BY <1>4 DEF Kept
<1>6. \A s, i, j : IsText(s, i, j)' <=> IsText(s, i, j)
  BY <1>1, <1>4, <1>5 DEF IsText, Kept
<1>7. \A s, i, j : SegmentAt(s, i, j)' <=> SegmentAt(s, i, j)
  BY <1>1, <1>2, <1>3, <1>6 DEF SegmentAt
<1>8. \A s, limit : LaidOut(s, limit)' <=> LaidOut(s, limit)
  BY <1>1, <1>7 DEF LaidOut
<1>9. \A c, i, j : GeneratedAt(c, i, j)' <=> GeneratedAt(c, i, j)
  BY <1>1, <1>2, <1>3, <1>6 DEF GeneratedAt
<1> QED BY <1>1, <1>2, <1>3, <1>6, <1>8, <1>9

LEMMA LaidOutLater ==
  ASSUME ParserTypeOK, NEW s, NEW a \in Int, NEW b \in Int, a <= b, LaidOut(s, a)
  PROVE  LaidOut(s, b)
<1>1. Len(tokens) \in Nat
  BY TokensAreTyped
<1>2. PICK from \in [1..Len(s) -> 1..Len(tokens)] :
        \A n \in 1..Len(s) : \E j \in 1..Len(tokens) :
          /\ SegmentAt(s[n], from[n], j)
          /\ n < Len(s) => j < from[n + 1]
          /\ n = Len(s) => j < a
  BY DEF LaidOut
<1>3. \A n \in 1..Len(s) : \E j \in 1..Len(tokens) :
        /\ SegmentAt(s[n], from[n], j)
        /\ n < Len(s) => j < from[n + 1]
        /\ n = Len(s) => j < b
  BY <1>1, <1>2
<1> QED BY <1>3 DEF LaidOut

LEMMA LaidOutToEnd ==
  ASSUME ParserTypeOK, NEW s, NEW a, LaidOut(s, a) PROVE LaidOut(s, Len(tokens) + 1)
<1>1. Len(tokens) \in Nat
  BY TokensAreTyped
<1>2. PICK from \in [1..Len(s) -> 1..Len(tokens)] :
        \A n \in 1..Len(s) : \E j \in 1..Len(tokens) :
          SegmentAt(s[n], from[n], j) /\ (n < Len(s) => j < from[n + 1])
  BY DEF LaidOut
<1>3. \A j \in 1..Len(tokens) : j < Len(tokens) + 1
  BY <1>1
<1> QED BY <1>2, <1>3 DEF LaidOut

(* The next stretch. *)
LEMMA OneMoreLaidOut ==
  ASSUME ParserTypeOK, NEW s \in Seq(Segment), NEW said \in Segment, NEW i \in 1..Len(tokens),
         NEW j \in 1..Len(tokens), LaidOut(s, i), SegmentAt(said, i, j), NEW limit, j < limit
  PROVE  LaidOut(Append(s, said), limit)
<1> DEFINE more == Append(s, said)
<1>1. /\ Len(s) \in Nat /\ Len(more) = Len(s) + 1 /\ more[Len(s) + 1] = said
      /\ \A n \in 1..Len(s) : more[n] = s[n]
  OBVIOUS
<1>2. PICK from \in [1..Len(s) -> 1..Len(tokens)] :
        \A n \in 1..Len(s) : \E k \in 1..Len(tokens) :
          /\ SegmentAt(s[n], from[n], k)
          /\ n < Len(s) => k < from[n + 1]
          /\ n = Len(s) => k < i
  BY DEF LaidOut
<1> HIDE DEF more
<1> DEFINE next == [n \in 1..Len(more) |-> IF n <= Len(s) THEN from[n] ELSE i]
<1>3. next \in [1..Len(more) -> 1..Len(tokens)]
  BY <1>1, <1>2
<1>4. next[Len(s) + 1] = i /\ \A n \in 1..Len(s) : next[n] = from[n]
  BY <1>1
<1> HIDE DEF next
<1>5. ASSUME NEW n \in 1..Len(more)
      PROVE  \E k \in 1..Len(tokens) :
               /\ SegmentAt(more[n], next[n], k)
               /\ n < Len(more) => k < next[n + 1]
               /\ n = Len(more) => k < limit
  <2>1. CASE n = Len(s) + 1
    BY <1>1, <1>4, <2>1
  <2>2. CASE n \in 1..Len(s)
    <3>1. PICK k \in 1..Len(tokens) : /\ SegmentAt(s[n], from[n], k)
                                      /\ n < Len(s) => k < from[n + 1]
                                      /\ n = Len(s) => k < i
      BY <1>2, <2>2
    <3>2. more[n] = s[n] /\ next[n] = from[n]
      BY <1>1, <1>4, <2>2
    <3>3. n < Len(s) => next[n + 1] = from[n + 1]
      BY <1>1, <1>4, <2>2
    <3>4. n < Len(s) \/ n = Len(s)
      BY <1>1, <2>2
    <3>5. k < next[n + 1]
      BY <1>4, <3>1, <3>3, <3>4
    <3>6. n # Len(more)
      BY <1>1, <2>2
    <3> QED BY <3>1, <3>2, <3>5, <3>6
  <2> QED BY <1>1, <2>1, <2>2
<1>6. LaidOut(more, limit)
  BY <1>3, <1>5 DEF LaidOut
<1> QED BY <1>6 DEF more

(* The segment that is read is emitted as a stretch that ends before the next token. *)
LEMMA EmittedIsLaidOut ==
  ASSUME ParserTypeOK, Traced, mode = "after_end",
         position <= Len(tokens) => tokens[position].kind # "words"
  PROVE  LaidOut(Emitted, position)
<1>1. PICK i, j : Closes(i, j)
  BY DEF Traced
<1>2. /\ i \in 1..Len(tokens) /\ j \in 1..Len(tokens) /\ Len(tokens) \in Nat /\ position \in Nat
      /\ i + 1 < j /\ j < position /\ LaidOut(segments, i)
  BY <1>1, TokensAreTyped DEF Closes, Reached, ParserTypeOK
<1>3. j < Len(tokens) => tokens[j + 1].kind # "words"
  BY <1>1, <1>2 DEF Closes, IsPair
<1>4. IsEnd(i, j)
  BY <1>1, <1>3 DEF Closes, Reached, IsEnd
<1>5. CASE text = <<>>
  <2>1. LaidOut(segments, position)
    BY <1>2, LaidOutLater
  <2> QED BY <1>5, <2>1 DEF Emitted
<1>6. CASE text # <<>>
  <2>1. PICK said : said = [start |-> opened, end |-> closing, speaker |-> voice, text |-> text]
    OBVIOUS
  <2>2. said \in Segment /\ segments \in Seq(Segment)
    BY <2>1 DEF ParserTypeOK, Segment
  <2>3. SegmentAt(said, i, j)
    BY <1>1, <1>4, <2>1 DEF Closes, Reached, SegmentAt
  <2>4. LaidOut(Append(segments, said), position)
    BY <1>2, <2>2, <2>3, OneMoreLaidOut
  <2> QED BY <1>6, <2>1, <2>4 DEF Emitted
<1> QED BY <1>5, <1>6

-----------------------------------------------------------------------------
(* Each handler keeps the trace. *)

LEMMA ReadingOn ==
  ASSUME ParserTypeOK, Traced, NEW m, m \in Parsing, Reads(m), UNCHANGED transcript
  PROVE  /\ tokens' = tokens /\ position \in 1..Len(tokens) /\ position' = position + 1
         /\ Len(tokens) \in Nat /\ token \in Token /\ token = tokens[position] /\ mode = m
         /\ ~SharesBoundary(position)
         /\ mode' \in Parsing /\ 1 < position' => ~SharesBoundary(position - 1)'
         /\ 1 < position => ~Dropped(position)
<1>1. /\ position \in 1..Len(tokens) /\ position' = position + 1 /\ token \in Token
      /\ Len(tokens) \in Nat /\ mode = m
  BY TokenIsRead, TokensAreTyped
<1>2. ~SharesBoundary(position)
  BY DEF Reads
<1>3. position' - 1 = position
  BY <1>1
<1>4. ~SharesBoundary(position - 1)'
  <2>1. tokens' = tokens
    BY TextStays
  <2> QED BY <1>2, <1>3, <2>1 DEF SharesBoundary, IsPair
<1>5. 1 < position => ~SharesBoundary(position - 1)
  BY <1>1 DEF Traced
<1> QED BY <1>1, <1>2, <1>4, <1>5, TextStays DEF token, Dropped

LEMMA SeekIsTraced ==
  ASSUME ParserTypeOK, Traced, NEW m, m \in Parsing, Reads(m), UNCHANGED transcript, Seek,
         LaidOut(segments', position)
  PROVE  Traced'
<1>1. /\ tokens' = tokens /\ position \in 1..Len(tokens) /\ position' = position + 1
      /\ Len(tokens) \in Nat /\ token = tokens[position]
      /\ mode' \in Parsing /\ 1 < position' => ~SharesBoundary(position - 1)'
  BY ReadingOn
<1>2. CASE token.kind = "time"
  <2>1. mode' = "expect_speaker" /\ opened' = token.value
    BY <1>2 DEF Seek
  <2>2. PICK k : k = position
    OBVIOUS
  <2>3. LaidOut(segments, k)'
    BY <1>1, <2>2, TextStays
  <2>4. Opens(k)'
    BY <1>1, <1>2, <2>1, <2>2, <2>3 DEF Opens
  <2> QED BY <1>1, <2>1, <2>4 DEF Traced, Parsing
<1>3. CASE token.kind # "time"
  <2>1. mode' = "seek_start"
    BY <1>3 DEF Seek
  <2>2. LaidOut(segments', position + 1)
    BY <1>1, LaidOutLater
  <2>3. LaidOut(segments, position)'
    BY <1>1, <2>2, TextStays
  <2> QED BY <1>1, <2>1, <2>3 DEF Traced, Parsing
<1> QED BY <1>2, <1>3

LEMMA DropIsTraced ==
  ASSUME ParserTypeOK, Traced, DropEmptyPrefix PROVE Traced'
<1>1. /\ position' = position + 2 /\ position \in Nat \ {0} /\ mode \in Parsing
      /\ SharesBoundary(position)
      /\ UNCHANGED <<transcript, mode, opened, voice, text, closing, segments>>
  BY DEF DropEmptyPrefix, ParserTypeOK
<1>2. tokens' = tokens /\ Len(tokens) \in Nat
  BY <1>1, TextStays, TokensAreTyped
<1>3. IsPair(position) /\ IsPair(position + 2)
  BY <1>1 DEF SharesBoundary
<1>4. IsPair(position)'
  BY <1>1, <1>2, <1>3 DEF IsPair
<1>5. Dropped(position) /\ Dropped(position + 1)
  BY <1>1 DEF Dropped
<1>6. \A i : ~IsEnd(i, position) /\ ~IsEnd(i, position + 1)
  BY <1>1, <1>3 DEF IsEnd, IsPair
<1>7. ~SharesBoundary(position - 1)'
  <2>1. position' - 1 = position + 1
    BY <1>1
  <2>2. tokens[position + 1].kind = "speaker"
    BY <1>3 DEF IsPair
  <2> QED BY <1>2, <2>1, <2>2 DEF SharesBoundary, IsPair
<1>8. \A s, limit : LaidOut(s, limit)' <=> LaidOut(s, limit)
  BY <1>1, TextStays
<1>9. CASE mode = "seek_start"
  <2>1. LaidOut(segments, position + 2)
    BY <1>1, <1>9, LaidOutLater DEF Traced
  <2>2. LaidOut(segments, position)'
    BY <1>1, <1>8, <2>1
  <2> QED BY <1>1, <1>7, <1>9, <2>2 DEF Traced, Parsing
<1>10. CASE mode = "expect_speaker"
  <2>1. PICK i : Opens(i)
    BY <1>10 DEF Traced
  <2>2. Opens(i)'
    BY <1>1, <1>2, <1>4, <1>8, <2>1 DEF Opens
  <2> QED BY <1>1, <1>7, <1>10, <2>2 DEF Traced, Parsing
<1>11. CASE mode = "read_text"
  <2>1. PICK i : Reached(i, position)
    BY <1>11 DEF Traced
  <2>2. i \in Nat /\ i + 1 < position /\ IsText(text, i, position)
    BY <1>2, <2>1 DEF Reached
  <2>3. IsText(text, i, position + 1)
    BY <1>1, <1>5, <2>2, TextSkips
  <2>4. IsText(text, i, position + 1 + 1)
    BY <1>1, <1>5, <2>2, <2>3, TextSkips
  <2>5. \A k \in i + 2..position + 1 : ~IsEnd(i, k)
    BY <1>1, <1>6, <2>1, <2>2 DEF Reached
  <2>6. position + 1 + 1 = position' /\ position' - 1 = position + 1
    BY <1>1
  <2>7. IsText(text, i, position)' /\ (\A k \in i + 2..position - 1 : ~IsEnd(i, k))'
    BY <1>1, <2>4, <2>5, <2>6, TextStays
  <2>8. Reached(i, position)'
    BY <1>1, <1>2, <1>8, <2>1, <2>2, <2>7, TextStays DEF Reached
  <2> QED BY <1>1, <1>7, <1>11, <2>8 DEF Traced, Parsing
<1>12. CASE mode = "after_end"
  <2>1. PICK i, j : Closes(i, j)
    BY <1>12 DEF Traced
  <2>2. Reached(i, j)'
    BY <1>1, <1>2, <1>8, <2>1, TextStays DEF Closes, Reached
  <2>3. j \in 1..Len(tokens) /\ j < position
    BY <1>1, <2>1 DEF Closes
  <2>4. j < position' - 1 /\ tokens[j + 1].kind = "time"
    BY <1>1, <1>2, <1>3, <2>1, <2>3 DEF Closes, IsPair
  <2>5. Closes(i, j)'
    BY <1>1, <1>2, <1>4, <2>1, <2>2, <2>4, TextStays DEF Closes
  <2> QED BY <1>1, <1>7, <1>12, <2>5 DEF Traced, Parsing
<1> QED BY <1>1, <1>9, <1>10, <1>11, <1>12 DEF Parsing

LEMMA SpeakerIsTraced ==
  ASSUME ParserTypeOK, Traced, ExpectSpeaker PROVE Traced'
<1>1. mode = "expect_speaker" /\ Reads("expect_speaker") /\ UNCHANGED <<transcript, opened, segments>>
  BY DEF ExpectSpeaker, Reads
<1>2. /\ tokens' = tokens /\ position \in 1..Len(tokens) /\ position' = position + 1
      /\ Len(tokens) \in Nat /\ token = tokens[position]
      /\ mode' \in Parsing /\ 1 < position' => ~SharesBoundary(position - 1)'
  BY <1>1, ReadingOn DEF Parsing
<1>3. PICK i : Opens(i)
  BY <1>1 DEF Traced
<1>4. i \in 1..Len(tokens) /\ i < position /\ LaidOut(segments, i)
  BY <1>3 DEF Opens
<1>5. CASE token.kind = "speaker"
  <2>1. mode' = "read_text" /\ voice' = token.value /\ text' = <<>>
    BY <1>5 DEF ExpectSpeaker
  <2>2. i = position - 1
    BY <1>2, <1>3, <1>5 DEF Opens, IsPair
  <2>3. IsPair(i) /\ position' = i + 2
    BY <1>2, <1>3, <1>4, <1>5, <2>2 DEF Opens, IsPair
  <2>4. IsText(<<>>, i, i + 2)
    BY <1>4, TextBegins
  <2>5. IsText(text, i, position)' /\ (\A k \in i + 2..position - 1 : ~IsEnd(i, k))'
    BY <1>1, <1>4, <2>1, <2>3, <2>4, TextStays
  <2>6. LaidOut(segments, i)' /\ IsPair(i)'
    BY <1>1, <1>4, <2>3, TextStays
  <2>7. Reached(i, position)'
    BY <1>1, <1>2, <1>3, <1>4, <2>1, <2>2, <2>3, <2>5, <2>6 DEF Opens, Reached
  <2> QED BY <1>2, <2>1, <2>7 DEF Traced, Parsing
<1>6. CASE token.kind # "speaker"
  <2>1. mode' = "seek_start"
    BY <1>6 DEF ExpectSpeaker
  <2>2. LaidOut(segments, position + 1)
    BY <1>2, <1>4, LaidOutLater
  <2>3. LaidOut(segments, position)'
    BY <1>1, <1>2, <2>2, TextStays
  <2> QED BY <1>2, <2>1, <2>3 DEF Traced, Parsing
<1> QED BY <1>5, <1>6

LEMMA TextIsTraced ==
  ASSUME ParserTypeOK, Traced, ReadText PROVE Traced'
<1>1. mode = "read_text" /\ Reads("read_text") /\ UNCHANGED <<transcript, opened, voice, segments>>
  BY DEF ReadText, Reads
<1>2. /\ tokens' = tokens /\ position \in 1..Len(tokens) /\ position' = position + 1
      /\ Len(tokens) \in Nat /\ token \in Token /\ token = tokens[position]
      /\ ~SharesBoundary(position)
      /\ mode' \in Parsing /\ 1 < position' => ~SharesBoundary(position - 1)'
      /\ 1 < position => ~Dropped(position)
  BY <1>1, ReadingOn DEF Parsing
<1>3. PICK i : Reached(i, position)
  BY <1>1 DEF Traced
<1>4. /\ i \in 1..Len(tokens) /\ i \in Nat /\ i + 1 < position /\ IsText(text, i, position)
      /\ opened = tokens[i].value /\ opened \in Nat
  BY <1>2, <1>3 DEF Reached, ParserTypeOK
<1>5. CASE token.kind = "time" /\ token.value >= opened
  <2>1. mode' = "after_end" /\ closing' = token.value /\ text' = text
    BY <1>5 DEF ReadText
  <2>2. PICK j : j = position
    OBVIOUS
  <2>3. Reached(i, j)'
    BY <1>1, <1>2, <1>3, <2>1, <2>2, TextStays DEF Reached
  <2>4. opened <= token.value
    BY <1>2, <1>4, <1>5 DEF Token
  <2>5. Closes(i, j)'
    BY <1>1, <1>2, <1>5, <2>1, <2>2, <2>3, <2>4, TextStays DEF Closes
  <2> QED BY <1>2, <2>1, <2>5 DEF Traced, Parsing
<1>6. CASE ~(token.kind = "time" /\ token.value >= opened)
  <2>1. mode' = mode /\ text' = Append(text, token)
    BY <1>6 DEF ReadText
  <2>2. IsText(Append(text, token), i, position + 1)
    BY <1>2, <1>4, TextGrows DEF ParserTypeOK
  <2>3. ~IsEnd(i, position)
    BY <1>2, <1>4, <1>6 DEF IsEnd, Token
  <2>4. \A k \in i + 2..position : ~IsEnd(i, k)
    BY <1>2, <1>3, <1>4, <2>3 DEF Reached
  <2>5. IsText(text, i, position)' /\ (\A k \in i + 2..position - 1 : ~IsEnd(i, k))'
    BY <1>1, <1>2, <2>1, <2>2, <2>4, TextStays
  <2>6. Reached(i, position)'
    BY <1>1, <1>2, <1>3, <1>4, <2>5, TextStays DEF Reached
  <2> QED BY <1>1, <1>2, <2>1, <2>6 DEF Traced, Parsing
<1> QED BY <1>5, <1>6

LEMMA EndIsTraced ==
  ASSUME ParserTypeOK, Traced, AfterEnd PROVE Traced'
<1>1. mode = "after_end" /\ Reads("after_end") /\ UNCHANGED <<transcript, voice, closing>>
  BY DEF AfterEnd, Reads
<1>2. /\ tokens' = tokens /\ position \in 1..Len(tokens) /\ position' = position + 1
      /\ Len(tokens) \in Nat /\ token \in Token /\ token = tokens[position]
      /\ mode' \in Parsing /\ 1 < position' => ~SharesBoundary(position - 1)'
      /\ 1 < position => ~Dropped(position)
  BY <1>1, ReadingOn DEF Parsing
<1>3. CASE token.kind = "words"
  <2>1. /\ mode' = "read_text" /\ text' = text \o <<Time(closing), token>>
        /\ UNCHANGED <<opened, segments>>
    BY <1>3 DEF AfterEnd
  <2>2. PICK i, j : Closes(i, j)
    BY <1>1 DEF Traced
  <2>3. /\ Reached(i, j) /\ j \in 1..Len(tokens) /\ i \in Nat /\ j \in Nat /\ i + 1 < j
        /\ IsText(text, i, j) /\ tokens[j].kind = "time" /\ tokens[j].value = closing
    BY <1>2, <2>2 DEF Closes, Reached
  <2>4. j = position - 1
    BY <1>2, <1>3, <2>2 DEF Closes, IsPair
  <2>5. ~Dropped(j)
    <3>1. ~SharesBoundary(j)
      BY <2>2 DEF Closes
    <3>2. ~SharesBoundary(j - 1)
      BY <2>3 DEF SharesBoundary, IsPair
    <3> QED BY <3>1, <3>2 DEF Dropped
  <2>6. ~Dropped(position)
    BY <1>2, <2>3, <2>4
  <2>7. Time(closing) = tokens[j] /\ Time(closing) \in Token
    BY <2>3, TokensAreTyped DEF Time
  <2>8. IsText(Append(text, Time(closing)), i, position)
    <3>1. IsText(Append(text, Time(closing)), i, j + 1)
      BY <2>3, <2>5, <2>7, TextGrows DEF ParserTypeOK
    <3>2. j + 1 = position
      BY <1>2, <2>3, <2>4
    <3> QED BY <3>1, <3>2
  <2>9. Append(text, Time(closing)) \in Seq(Token)
    BY <2>7 DEF ParserTypeOK
  <2>10. IsText(Append(Append(text, Time(closing)), token), i, position + 1)
    <3>1. PICK longer : longer = Append(text, Time(closing))
      OBVIOUS
    <3>2. longer \in Seq(Token) /\ IsText(longer, i, position)
      BY <2>8, <2>9, <3>1
    <3>3. position \in Nat /\ i \in Nat /\ i + 1 < position
      BY <1>2, <2>3, <2>4
    <3>4. IsText(Append(longer, token), i, position + 1)
      BY <1>2, <2>6, <3>2, <3>3, TextGrows
    <3> QED BY <3>1, <3>4
  <2>11. text' = Append(Append(text, Time(closing)), token)
    <3>1. text \in Seq(Token)
      BY DEF ParserTypeOK
    <3> QED BY <1>2, <2>1, <2>7, <3>1
  <2>12. ~IsEnd(i, j) /\ ~IsEnd(i, position)
    BY <1>2, <1>3, <2>3, <2>4 DEF IsEnd
  <2>13. \A k \in i + 2..position : ~IsEnd(i, k)
    BY <1>2, <2>3, <2>4, <2>12 DEF Reached
  <2>14. IsText(text, i, position)' /\ (\A k \in i + 2..position - 1 : ~IsEnd(i, k))'
    BY <1>1, <1>2, <2>10, <2>11, <2>13, TextStays
  <2>15. Reached(i, position)'
    BY <1>1, <1>2, <2>1, <2>3, <2>4, <2>14, TextStays DEF Reached
  <2> QED BY <1>2, <2>1, <2>15 DEF Traced, Parsing
<1>4. CASE token.kind # "words"
  <2>1. Seek /\ segments' = Emitted
    BY <1>4 DEF AfterEnd
  <2>2. LaidOut(Emitted, position)
    BY <1>1, <1>2, <1>4, EmittedIsLaidOut
  <2> QED BY <1>1, <2>1, <2>2, SeekIsTraced DEF Parsing
<1> QED BY <1>3, <1>4

LEMMA CloseIsTraced ==
  ASSUME ParserTypeOK, Traced, CloseParser PROVE Traced'
<1>1. /\ mode \in Parsing /\ position > Len(tokens) /\ mode' = "closed" /\ UNCHANGED transcript
      /\ segments' = IF mode = "after_end" THEN Emitted ELSE segments
  BY DEF CloseParser
<1>2. tokens' = tokens /\ Len(tokens) \in Nat /\ position \in Nat
  BY <1>1, TextStays, TokensAreTyped DEF ParserTypeOK
<1>3. \E limit : LaidOut(segments', limit)
  <2>1. CASE mode = "after_end"
    BY <1>1, <1>2, <2>1, EmittedIsLaidOut
  <2>2. CASE mode # "after_end"
    BY <1>1, <2>2 DEF Traced, Opens, Reached, Parsing
  <2> QED BY <2>1, <2>2
<1>4. LaidOut(segments', Len(tokens) + 1)
  BY <1>3, LaidOutToEnd
<1>5. LaidOut(segments, Len(tokens) + 1)'
  BY <1>1, <1>2, <1>4, TextStays
<1> QED BY <1>1, <1>5 DEF Traced, Parsing

LEMMA TraceIsKept ==
  ASSUME ParserTypeOK, Traced, ParserNext PROVE Traced'
<1>1. CASE SeekStart
  <2>1. Reads("seek_start") /\ Seek /\ mode = "seek_start" /\ UNCHANGED <<transcript, segments>>
    BY <1>1 DEF SeekStart, Reads
  <2>2. LaidOut(segments', position)
    BY <2>1 DEF Traced
  <2> QED BY <2>1, <2>2, SeekIsTraced DEF Parsing
<1>2. CASE TakeForSilence \/ AskForHalves \/ Refuse \/ AcceptSegments
  <2>1. mode = "closed" /\ mode' \in Verdicts /\ UNCHANGED <<transcript, segments>>
    BY <1>2 DEF TakeForSilence, AskForHalves, Refuse, AcceptSegments, Judge, Verdicts
  <2>2. tokens' = tokens /\ LaidOut(segments, Len(tokens) + 1)'
    BY <2>1, TextStays DEF Traced, Parsing
  <2> QED BY <2>1, <2>2 DEF Traced, Parsing, Verdicts
<1> QED BY <1>1, <1>2, DropIsTraced, SpeakerIsTraced, TextIsTraced, EndIsTraced, CloseIsTraced
        DEF ParserNext, Parse

-----------------------------------------------------------------------------
(* From segments to cues. *)

(* The times of a segment of the chunk are moved, and its end is cut at the end of the chunk. *)
LEMMA PlacedIsGenerated ==
  ASSUME NEW s \in Segment, ~OutOfChunk(s)
  PROVE  /\ Offset <= Placed(s).start /\ Placed(s).start < Placed(s).end
         /\ Placed(s).end <= Offset + Length
         /\ \A i, j : SegmentAt(s, i, j) => GeneratedAt(Placed(s), i, j)
<1>1. s.start \in Nat /\ s.end \in Nat
  BY DEF Segment
<1>2. /\ Placed(s).start = s.start + Offset
      /\ Placed(s).end = Offset + (IF s.end < Length THEN s.end ELSE Length)
      /\ Placed(s).speaker = <<Offset, s.speaker>> /\ Placed(s).text = s.text
  BY DEF Placed
<1>3. s.start < s.end /\ s.start < Length
  BY <1>1, ChunkAssumption DEF OutOfChunk
<1>4. s.start + Offset = Offset + s.start
  BY <1>1, ChunkAssumption
<1>5. \A i, j : SegmentAt(s, i, j) => GeneratedAt(Placed(s), i, j)
  BY <1>2, <1>4 DEF SegmentAt, GeneratedAt
<1>6. /\ Offset <= Placed(s).start /\ Placed(s).start < Placed(s).end
      /\ Placed(s).end <= Offset + Length
  BY <1>1, <1>2, <1>3, ChunkAssumption
<1> QED BY <1>5, <1>6

LEMMA AcceptedAreGenerated ==
  ASSUME ParserTypeOK, Traced, AcceptSegments
  PROVE  /\ \A n \in 1..Len(cues') :
              /\ Offset <= cues'[n].start /\ cues'[n].start < cues'[n].end
              /\ cues'[n].end <= Offset + Length
         /\ \E from \in [1..Len(cues') -> 1..Len(tokens)] : \A n \in 1..Len(cues') :
              \E j \in 1..Len(tokens) :
                GeneratedAt(cues'[n], from[n], j) /\ (n < Len(cues') => j < from[n + 1])
<1>1. InChunk /\ cues' = [i \in 1..Len(segments) |-> Placed(segments[i])] /\ mode = "closed"
  BY DEF AcceptSegments, Judge
<1>2. Len(cues') = Len(segments) /\ Len(segments) \in Nat
  BY <1>1 DEF ParserTypeOK
<1>3. \A n \in 1..Len(segments) : segments[n] \in Segment /\ ~OutOfChunk(segments[n])
  BY <1>1 DEF InChunk, ParserTypeOK
<1>4. \A n \in 1..Len(segments) : cues'[n] = Placed(segments[n])
  BY <1>1
<1>5. \A n \in 1..Len(segments) :
        /\ Offset <= cues'[n].start /\ cues'[n].start < cues'[n].end
        /\ cues'[n].end <= Offset + Length
        /\ \A i, j : SegmentAt(segments[n], i, j) => GeneratedAt(cues'[n], i, j)
  BY <1>3, <1>4, PlacedIsGenerated
<1>6. PICK from \in [1..Len(segments) -> 1..Len(tokens)] :
        \A n \in 1..Len(segments) : \E j \in 1..Len(tokens) :
          SegmentAt(segments[n], from[n], j) /\ (n < Len(segments) => j < from[n + 1])
  BY <1>1 DEF Traced, LaidOut, Parsing
<1>7. \A n \in 1..Len(segments) : \E j \in 1..Len(tokens) :
        GeneratedAt(cues'[n], from[n], j) /\ (n < Len(segments) => j < from[n + 1])
  BY <1>5, <1>6
<1> QED BY <1>2, <1>5, <1>6, <1>7

LEMMA CuesStayGenerated ==
  ASSUME ParserTypeOK, Traced, CuesAreGenerated, [ParserNext]_parserVars PROVE CuesAreGenerated'
<1>1. transcript' = transcript
  BY DEF ParserNext, Parse, DropEmptyPrefix, SeekStart, ExpectSpeaker, ReadText, AfterEnd, CloseParser,
         TakeForSilence, AskForHalves, Refuse, AcceptSegments, Judge, parserVars
<1>2. tokens' = tokens /\ \A c, i, j : GeneratedAt(c, i, j)' <=> GeneratedAt(c, i, j)
  BY <1>1, TextStays
<1>3. ASSUME NEW c, c = cues',
             /\ \A n \in 1..Len(c) :
                  Offset <= c[n].start /\ c[n].start < c[n].end /\ c[n].end <= Offset + Length
             /\ \E from \in [1..Len(c) -> 1..Len(tokens)] : \A n \in 1..Len(c) :
                  \E j \in 1..Len(tokens) :
                    GeneratedAt(c[n], from[n], j) /\ (n < Len(c) => j < from[n + 1])
      PROVE  CuesAreGenerated'
  BY <1>2, <1>3 DEF CuesAreGenerated
<1>4. CASE AcceptSegments
  BY <1>3, <1>4, AcceptedAreGenerated
<1>5. CASE ~AcceptSegments
  <2>1. cues' = cues
    BY <1>5 DEF ParserNext, Parse, DropEmptyPrefix, SeekStart, ExpectSpeaker, ReadText, AfterEnd,
                CloseParser, TakeForSilence, AskForHalves, Refuse, parserVars
  <2> QED BY <1>3, <2>1 DEF CuesAreGenerated
<1> QED BY <1>4, <1>5

(***************************************************************************)
(* Whatever is generated, and however long it is, the accepted cues are    *)
(* disjoint stretches of it in order, each with its start, its speaker,    *)
(* all that was said up to its end, and that end; within their chunk.      *)
(***************************************************************************)
THEOREM CuesAreAlwaysGenerated == ParserSpec => []CuesAreGenerated
<1>1. ParserInit => Traced /\ CuesAreGenerated
  <2> SUFFICES ASSUME ParserInit PROVE Traced /\ CuesAreGenerated
    OBVIOUS
  <2>1. cues = <<>> /\ segments = <<>> /\ mode = "seek_start" /\ position = 1
    BY DEF ParserInit
  <2>2. \A f, limit : f = [n \in {} |-> n] => f \in [1..Len(<<>>) -> limit]
    OBVIOUS
  <2>3. LaidOut(segments, 1)
    BY <2>1, <2>2 DEF LaidOut
  <2>4. CuesAreGenerated
    BY <2>1, <2>2 DEF CuesAreGenerated
  <2> QED BY <2>1, <2>3, <2>4 DEF Traced, Parsing
<1>2. ParserTypeOK /\ Traced /\ CuesAreGenerated /\ [ParserNext]_parserVars => (Traced /\ CuesAreGenerated)'
  <2> SUFFICES ASSUME ParserTypeOK, Traced, CuesAreGenerated, [ParserNext]_parserVars
               PROVE  (Traced /\ CuesAreGenerated)'
    OBVIOUS
  <2>1. CASE ParserNext
    BY <2>1, TraceIsKept, CuesStayGenerated
  <2>2. CASE UNCHANGED parserVars
    <3>1. UNCHANGED <<transcript, position, mode, opened, voice, text, closing, segments>>
      BY <2>2 DEF parserVars, parser
    <3>2. tokens' = tokens
      BY <3>1, TextStays
    <3>3. Traced'
      BY <3>1, <3>2, TextStays DEF Traced, Opens, Reached, Closes
    <3> QED BY <3>3, CuesStayGenerated
  <2> QED BY <2>1, <2>2
<1> QED BY <1>1, <1>2, ParserTypes, PTL DEF ParserSpec

(* A chunk that is taken for silence has no words. *)
THEOREM WordsAreNeverSilence == ParserSpec => []WordsAreNotSilence
<1>1. ParserInit => WordsAreNotSilence
  BY DEF ParserInit, WordsAreNotSilence
<1>2. ParserTypeOK /\ WordsAreNotSilence /\ [ParserNext]_parserVars => WordsAreNotSilence'
  <2> SUFFICES ASSUME ParserTypeOK, WordsAreNotSilence, [ParserNext]_parserVars, mode' = "silent"
               PROVE  WordsAreNotSilence'
    BY DEF WordsAreNotSilence
  <2>1. CASE TakeForSilence
    <3>1. \A i \in 1..Len(tokens) : tokens[i].kind # "words"
      <4>1. tokens = <<>> \/ EmptySegments
        BY <2>1 DEF TakeForSilence, Speechless, NoSpeech
      <4>2. EmptySegments => \A i \in 1..Len(tokens) : tokens[i].kind \in {"speaker", "time"}
        BY Zenon DEF EmptySegments
      <4> QED BY <4>1, <4>2
    <3> QED BY <2>1, <3>1 DEF TakeForSilence, Judge, WordsAreNotSilence, tokens
  <2>2. CASE UNCHANGED parserVars
    BY <2>2 DEF parserVars, parser, WordsAreNotSilence, tokens
  <2>3. CASE Parse
    <3>1. mode \in Parsing
      BY <2>3 DEF Parse, DropEmptyPrefix, SeekStart, ExpectSpeaker, ReadText, AfterEnd, CloseParser, Reads,
                  Parsing
    <3>2. mode' = mode \/ mode' \in Parsing \/ mode' = "closed"
      BY <2>3 DEF Parse, DropEmptyPrefix, SeekStart, ExpectSpeaker, ReadText, AfterEnd, CloseParser, Seek,
                  Parsing
    <3> QED BY <3>1, <3>2 DEF Parsing
  <2>4. CASE AskForHalves \/ Refuse \/ AcceptSegments
    BY <2>4 DEF AskForHalves, Refuse, AcceptSegments, Judge
  <2> QED BY <2>1, <2>2, <2>3, <2>4 DEF ParserNext
<1> QED BY <1>1, <1>2, ParserTypes, PTL DEF ParserSpec
=============================================================================
