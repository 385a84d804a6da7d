------------------------------- MODULE CueMerge -------------------------------
(***************************************************************************)
(* MergeRepeatedCues: before the subtitles are written, identical cues of  *)
(* one speaker that overlap become one, and so do sound annotations, like  *)
(* [music], that come in cycles or with hardly a pause.                    *)
(*                                                                         *)
(* A cue has a set of texts, of which the merge of a cycle makes more than *)
(* one; their order in the text, and speaker markers in it, are left out.  *)
(* Times are whole milliseconds, or a coarser unit.                        *)
(***************************************************************************)
EXTENDS Naturals, Sequences, FiniteSets

CONSTANTS
  Sources,     \* the cues of a file, in the order of the model
  Speakers,
  Texts, Notes,   \* the annotations are some of the texts
  Pause,       \* between the annotations of a run: a quarter of a second at most
  Overlap,     \* by rounding: a millisecond at most
  MaxWidth,    \* of a cycle (8)
  Repetitions  \* a cycle has at least (3)

RawCue == [start : Nat, end : Nat, speaker : Speakers, texts : SUBSET Texts]

(* A cue that was read takes time, and has one text. *)
IsRead(c) == c.start < c.end /\ c.texts # {} /\ \A t, u \in c.texts : t = u

ASSUME NotesAssumption == Notes \subseteq Texts
ASSUME SourcesAssumption ==
  \A s \in Sources : s \in Seq(RawCue) /\ \A k \in 1..Len(s) : IsRead(s[k])
ASSUME TolerancesAssumption ==
  Pause \in Nat /\ Overlap \in 0..1 /\ MaxWidth \in Nat /\ Repetitions \in Nat \ {0}

VARIABLES
  ordered,   \* the cues by their start
  next,      \* the loop's position in them
  merged     \* the cues to write

mergeVars == <<ordered, next, merged>>

MergeTypeOK ==
  /\ ordered \in Seq(RawCue)
  /\ next \in 1..Len(ordered) + 1
  /\ merged \in Seq(RawCue)

(* sort.SliceStable by the start *)
Rank(s, k) ==
  Cardinality({i \in 1..Len(s) : s[i].start < s[k].start \/ (s[i].start = s[k].start /\ i <= k)})

InTime(s) == [n \in 1..Len(s) |-> s[CHOOSE k \in 1..Len(s) : Rank(s, k) = n]]

MergeInit ==
  /\ \E s \in Sources : ordered = InTime(s)
  /\ next = 1 /\ merged = <<>>

-----------------------------------------------------------------------------

IsNote(c) == \E t \in Notes : c.texts = {t}

SameCue(c, d) == c.speaker = d.speaker /\ c.texts = d.texts

(* The annotations from i to j - 1 follow each other, and repeat the first w of them. *)
IsCycle(i, j, w) ==
  /\ (j - i) % w = 0 /\ j - i >= Repetitions * w
  /\ \A k \in i..j - 1 :
       /\ IsNote(ordered[k]) /\ SameCue(ordered[k], ordered[i + ((k - i) % w)])
       /\ k > i => /\ ordered[k - 1].end <= ordered[k].start + Overlap
                   /\ ordered[k].start <= ordered[k - 1].end + Pause

Cycles(i) ==
  {c \in [end : i + 1..Len(ordered) + 1, width : 1..MaxWidth] : IsCycle(i, c.end, c.width)}

(* The longest cycle, and the narrowest of these. *)
IsBest(c, cycles) ==
  \A d \in cycles : d.end < c.end \/ (d.end = c.end /\ c.width <= d.width)

CollapseCycle ==
  \E c \in Cycles(next) :
    /\ IsBest(c, Cycles(next))
    /\ merged' = Append(merged,
         [ordered[next] EXCEPT !.end = ordered[c.end - 1].end,
            !.texts = UNION {ordered[k].texts : k \in next..next + c.width - 1}])
    /\ next' = c.end
    /\ UNCHANGED ordered

last == merged[Len(merged)]

(* Mutant: a spoken cue continues one that ends when it starts. *)
ContinuesTouching(c) ==
  /\ merged # <<>> /\ SameCue(last, c)
  /\ \/ c.start <= last.end
     \/ IsNote(c) /\ c.start <= last.end + Pause

(* The cue goes on with the one before it. *)
Continues(c) ==
  /\ merged # <<>> /\ SameCue(last, c)
  /\ \/ c.start < last.end
     \/ IsNote(c) /\ c.start <= last.end + Pause

ReadsCue == next <= Len(ordered) /\ Cycles(next) = {} /\ next' = next + 1 /\ UNCHANGED ordered

(* Mutant: the cue ends with the one that was read last. *)
ProlongAlways ==
  /\ ReadsCue /\ Continues(ordered[next])
  /\ merged' = [merged EXCEPT ![Len(merged)].end = ordered[next].end]

Prolong ==
  /\ ReadsCue /\ Continues(ordered[next])
  /\ merged' = IF last.end < ordered[next].end
               THEN [merged EXCEPT ![Len(merged)].end = ordered[next].end] ELSE merged

Keep ==
  /\ ReadsCue /\ ~Continues(ordered[next])
  /\ merged' = Append(merged, ordered[next])

MergeNext == CollapseCycle \/ Prolong \/ Keep

MergeSpec == MergeInit /\ [][MergeNext]_mergeVars

-----------------------------------------------------------------------------
(* Properties. *)

(* The cue to write stands for the one that was read: a spoken one keeps its speaker. *)
Covers(m, c) ==
  /\ c.texts \subseteq m.texts /\ m.start <= c.start /\ c.end <= m.end
  /\ c.texts \cap Notes = {} => c.speaker = m.speaker

(***************************************************************************)
(* README.md, lines 67-69: only identical cues and cycles are merged. So   *)
(* every cue that was read is in one to write, for all of its time.        *)
(***************************************************************************)
NoCueIsDropped ==
  \A k \in 1..next - 1 : \E n \in 1..Len(merged) : Covers(merged[n], ordered[k])

(***************************************************************************)
(* dedupe.go, lines 46-47: cycles must have same-speaker cues. So an       *)
(* annotation, too, is in a cue of its own speaker.                        *)
(***************************************************************************)
SpeakersAreKept ==
  \A k \in 1..next - 1 : \E n \in 1..Len(merged) :
    Covers(merged[n], ordered[k]) /\ merged[n].speaker = ordered[k].speaker

Parts(m) == {k \in 1..next - 1 : Covers(m, ordered[k])}

(* No instant inside of it is the end of one cue and the start of the next. *)
IsOverlapping(m) ==
  \A t \in m.start + 1..m.end - 1 :
    \E k \in Parts(m) : ordered[k].start < t /\ t < ordered[k].end

(* It is not silent for longer than a pause. *)
IsContinuous(m) ==
  \A t \in m.start..m.end - 1 :
    \E k \in Parts(m) : ordered[k].start <= t /\ t < ordered[k].end + Pause

IsRepeated(m) ==
  \A t \in m.texts : Cardinality({k \in Parts(m) : t \in ordered[k].texts}) >= Repetitions

(***************************************************************************)
(* README.md, lines 67-69: spoken cues are merged only if they overlap,    *)
(* annotations only without a gap, and different ones only if each of them *)
(* is repeated. So repetitions at distinct times are preserved.            *)
(***************************************************************************)
MergesAreJustified ==
  \A n \in 1..Len(merged) :
    LET m == merged[n]
    IN IF m.texts \cap Notes = {} THEN IsOverlapping(m)
       ELSE IsContinuous(m) /\ (IsNote(m) \/ IsRepeated(m))
=============================================================================
