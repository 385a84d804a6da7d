--------------------------- MODULE SubtitlesProofs ---------------------------
(***************************************************************************)
(* Theorems about the merge of the cues, for any cues and tolerances, and  *)
(* about the way of the speech from the model's text to the subtitles.     *)
(***************************************************************************)
EXTENDS Subtitles, TranscriptParserProofs, FiniteSetTheorems

-----------------------------------------------------------------------------
(* Counting and climbing. *)

LEMMA NaturalsAreOrdered ==
  \E R : IsWellFoundedOn(R, Nat) /\ \A x, y \in Nat : <<x, y>> \in R <=> x < y
<1>1. \A x, y \in Nat : <<x, y>> \in OpToRel(<, Nat) <=> x < y
  BY DEF OpToRel
<1> QED BY <1>1, NatLessThanWellFounded, Zenon

(* A set of naturals has a least one. *)
LEMMA Least ==
  ASSUME NEW T, T \subseteq Nat, T # {}
  PROVE  \E x \in T : \A y \in T : x <= y
<1>1. PICK R : IsWellFoundedOn(R, Nat) /\ \A x, y \in Nat : <<x, y>> \in R <=> x < y
  BY NaturalsAreOrdered
<1>2. IsWellFoundedOn(R, Nat)
  BY <1>1
<1>3. \E x \in T : \A y \in T : ~ (<<y, x>> \in R)
  BY <1>2, WFMin
<1>4. PICK x \in T : \A y \in T : ~ (<<y, x>> \in R)
  BY <1>3
<1>5. \A y \in T : x <= y
  <2> TAKE y \in T
  <2>1. x \in Nat /\ y \in Nat
    OBVIOUS
  <2>2. ~(y < x)
    BY <1>1, <1>4, <2>1, Zenon
  <2> QED BY <2>1, <2>2
<1> QED BY <1>5

(* What is true of the first number and handed on by each is true of all of them. *)
LEMMA Climb ==
  ASSUME NEW S, NEW a \in Nat, NEW b \in Nat, a \in S, a <= b,
         \A k \in a..b - 1 : k \in S => k + 1 \in S
  PROVE  a..b \subseteq S
<1> SUFFICES ASSUME (a..b) \ S # {} PROVE FALSE
  OBVIOUS
<1>1. (a..b) \ S \subseteq Nat
  OBVIOUS
<1>2. PICK x \in (a..b) \ S : \A y \in (a..b) \ S : x <= y
  BY <1>1, Least
<1>3. x # a
  BY <1>2
<1>4. x - 1 \in a..b - 1 /\ x - 1 \in S
  BY <1>2, <1>3
<1> QED BY <1>2, <1>4

LEMMA IntervalIsFinite ==
  ASSUME NEW n \in Nat PROVE IsFiniteSet(1..n) /\ Cardinality(1..n) = n
<1>1. 1 \in Int /\ n \in Int
  OBVIOUS
<1>2. IsFiniteSet(1..n)
  BY <1>1, FS_Interval
<1>3. Cardinality(1..n) = IF 1 > n THEN 0 ELSE n - 1 + 1
  BY <1>1, FS_Interval
<1> QED BY <1>2, <1>3

-----------------------------------------------------------------------------
(* The sort. *)

(* A cue, whatever its speakers and its texts are taken from. *)
CueOf(V, T) == [start : Nat, end : Nat, speaker : V, texts : SUBSET T]

LEMMA CuesAreTyped ==
  ASSUME NEW V, NEW T, NEW s \in Seq(CueOf(V, T))
  PROVE  /\ Len(s) \in Nat
         /\ \A k \in 1..Len(s) :
              /\ s[k] \in CueOf(V, T) /\ s[k].start \in Nat /\ s[k].end \in Nat
              /\ s[k].texts \subseteq T
<1>1. \A k \in 1..Len(s) : s[k] \in CueOf(V, T)
  OBVIOUS
<1> QED BY <1>1 DEF CueOf

(* The cues that come no later than the k-th one. *)
Before(s, k) ==
  {i \in 1..Len(s) : s[i].start < s[k].start \/ (s[i].start = s[k].start /\ i <= k)}

LEMMA RanksAreApart ==
  ASSUME NEW V, NEW T, NEW s \in Seq(CueOf(V, T)), NEW j \in 1..Len(s), NEW k \in 1..Len(s)
  PROVE  /\ Rank(s, k) \in 1..Len(s)
         /\ Rank(s, j) <= Rank(s, k) => j \in Before(s, k)
         /\ Rank(s, j) = Rank(s, k) => j = k
<1> USE CuesAreTyped
<1> DEFINE N == 1..Len(s)
<1>1. IsFiniteSet(N) /\ Cardinality(N) = Len(s)
  BY IntervalIsFinite, CuesAreTyped
<1>2. \A i \in N : /\ IsFiniteSet(Before(s, i)) /\ Rank(s, i) = Cardinality(Before(s, i))
                   /\ Cardinality(Before(s, i)) \in Nat /\ Cardinality(Before(s, i)) <= Len(s)
  <2> TAKE i \in N
  <2>1. Before(s, i) \in SUBSET N
    BY DEF Before
  <2> QED BY <1>1, <2>1, FS_Subset, FS_CardinalityType DEF Rank, Before
<1>3. \A i, m \in N : i \notin Before(s, m) =>
        Before(s, m) \subseteq Before(s, i) /\ i \in Before(s, i) /\ m \in Before(s, m)
  BY DEF Before
<1>4. \A i, m \in N : i \notin Before(s, m) => Rank(s, m) < Rank(s, i)
  <2> TAKE i, m \in N
  <2> HAVE i \notin Before(s, m)
  <2>1. Before(s, m) \in SUBSET Before(s, i) /\ Before(s, m) # Before(s, i)
    BY <1>3
  <2>2. Cardinality(Before(s, m)) <= Cardinality(Before(s, i))
        /\ Cardinality(Before(s, m)) # Cardinality(Before(s, i))
    BY <1>2, <2>1, FS_Subset
  <2> QED BY <1>2, <2>2
<1>5. Rank(s, k) # 0
  <2>1. k \in Before(s, k)
    BY DEF Before
  <2> QED BY <1>2, <2>1, FS_EmptySet
<1>6. Rank(s, k) \in N /\ Rank(s, j) \in Nat
  BY <1>2, <1>5
<1>7. j \in Before(s, k) /\ k \in Before(s, j) => j = k
  BY DEF Before
<1> QED BY <1>4, <1>6, <1>7

Sorted(o) == \A j, k \in 1..Len(o) : j <= k => o[j].start <= o[k].start

(* The same cues, by their start. *)
Sorts(o, s) ==
  /\ Len(o) = Len(s) /\ Sorted(o)
  /\ \A n \in 1..Len(o) : \E k \in 1..Len(s) : o[n] = s[k]
  /\ \A k \in 1..Len(s) : \E n \in 1..Len(o) : o[n] = s[k]

LEMMA InTimeSorts ==
  ASSUME NEW V, NEW T, NEW s \in Seq(CueOf(V, T))
  PROVE  InTime(s) \in Seq(CueOf(V, T)) /\ Sorts(InTime(s), s)
<1> DEFINE N == 1..Len(s)
           rank == [k \in N |-> Rank(s, k)]
           place(n) == CHOOSE k \in N : Rank(s, k) = n
<1>1. IsFiniteSet(N) /\ Len(s) \in Nat
  BY FS_Interval
<1>2. \A k \in N : rank[k] = Rank(s, k) /\ rank[k] \in N
  BY RanksAreApart
<1>3. rank \in [N -> N]
  BY <1>2
<1>4. rank \in Injection(N, N)
  BY <1>2, <1>3, RanksAreApart DEF Injection, IsInjective
<1>5. rank \in Surjection(N, N)
  BY <1>1, <1>4, FS_Injection
<1>6. \A n \in N : \E k \in N : Rank(s, k) = n
  BY <1>2, <1>5 DEF Surjection
<1>7. \A n \in N : place(n) \in N /\ Rank(s, place(n)) = n
  BY <1>6
<1> HIDE DEF place
<1>8. \A n \in N : InTime(s)[n] = s[place(n)]
  BY DEF InTime, place
<1>9. InTime(s) \in Seq(CueOf(V, T)) /\ Len(InTime(s)) = Len(s)
  <2>1. InTime(s) = [n \in N |-> s[place(n)]]
    BY DEF InTime, place
  <2>2. \A n \in N : s[place(n)] \in CueOf(V, T)
    BY <1>7, CuesAreTyped
  <2> QED BY <1>1, <2>1, <2>2
<1>10. \A k \in N : place(Rank(s, k)) = k /\ Rank(s, k) \in N
  BY <1>2, <1>7, RanksAreApart
<1>11. \A m, n \in N : m <= n => s[place(m)].start <= s[place(n)].start
  <2> TAKE m, n \in N
  <2> HAVE m <= n
  <2>1. place(m) \in Before(s, place(n))
    BY <1>7, RanksAreApart
  <2>2. s[place(m)].start < s[place(n)].start \/ s[place(m)].start = s[place(n)].start
    BY <2>1 DEF Before
  <2>3. s[place(m)].start \in Nat /\ s[place(n)].start \in Nat
    BY <1>7, CuesAreTyped
  <2> QED BY <2>2, <2>3
<1>a. \A n \in N : \E k \in N : InTime(s)[n] = s[k]
  BY <1>7, <1>8
<1>b. \A k \in N : \E n \in N : InTime(s)[n] = s[k]
  BY <1>8, <1>10
<1>c. \A m, n \in N : m <= n => InTime(s)[m].start <= InTime(s)[n].start
  BY <1>8, <1>11
<1>d. Sorted(InTime(s))
  BY <1>9, <1>c, Zenon DEF Sorted
<1> QED BY <1>9, <1>a, <1>b, <1>d, Zenon DEF Sorts

-----------------------------------------------------------------------------
(***************************************************************************)
(* The merge, with its state as parameters: o are the cues by their start, *)
(* the first p - 1 of them have been read, and ms are the cues to write.   *)
(***************************************************************************)

PartsOf(m, o, p) == {k \in 1..p - 1 : Covers(m, o[k])}

Overlapping(m, o, p) ==
  \A t \in m.start + 1..m.end - 1 :
    \E k \in PartsOf(m, o, p) : o[k].start < t /\ t < o[k].end

Continuous(m, o, p) ==
  \A t \in m.start..m.end - 1 :
    \E k \in PartsOf(m, o, p) : o[k].start <= t /\ t < o[k].end + Pause

Repeated(m, o, p) ==
  \A t \in m.texts : Cardinality({k \in PartsOf(m, o, p) : t \in o[k].texts}) >= Repetitions

(* One of the cues that it stands for ends when it does: the pause after it starts there. *)
Ends(m, o, p) == \E k \in PartsOf(m, o, p) : o[k].end = m.end

Justified(m, o, p) ==
  IF m.texts \cap Notes = {} THEN Overlapping(m, o, p)
  ELSE Continuous(m, o, p) /\ Ends(m, o, p) /\ (IsNote(m) \/ Repeated(m, o, p))

(***************************************************************************)
(* The inductive invariant. A cue to write starts before all that are      *)
(* still to be read: so it can stand for the next of them.                 *)
(***************************************************************************)
Sound(V, T, o, p, ms) ==
  /\ o \in Seq(CueOf(V, T)) /\ ms \in Seq(CueOf(V, T)) /\ p \in 1..Len(o) + 1
  /\ Sorted(o) /\ \A k \in 1..Len(o) : IsRead(o[k])
  /\ \A n \in 1..Len(ms), k \in p..Len(o) : ms[n].start <= o[k].start
  /\ \A k \in 1..p - 1 : \E n \in 1..Len(ms) : Covers(ms[n], o[k])
  /\ \A n \in 1..Len(ms) : Justified(ms[n], o, p)

LEMMA SoundIsTyped ==
  ASSUME NEW V, NEW T, NEW o, NEW p, NEW ms, Sound(V, T, o, p, ms)
  PROVE  /\ Len(o) \in Nat /\ Len(ms) \in Nat /\ p \in Nat \ {0} /\ p <= Len(o) + 1
         /\ \A k \in 1..Len(o) :
              o[k] \in CueOf(V, T) /\ o[k].start \in Nat /\ o[k].end \in Nat
              /\ o[k].start < o[k].end
         /\ \A n \in 1..Len(ms) :
              ms[n] \in CueOf(V, T) /\ ms[n].start \in Nat /\ ms[n].end \in Nat
<1>1. \A k \in 1..Len(o) : o[k] \in CueOf(V, T) /\ o[k].start < o[k].end
  BY DEF Sound, IsRead
<1>2. \A n \in 1..Len(ms) : ms[n] \in CueOf(V, T)
  BY DEF Sound
<1>3. \A c \in CueOf(V, T) : c.start \in Nat /\ c.end \in Nat
  BY DEF CueOf
<1>4. Len(o) \in Nat /\ Len(ms) \in Nat /\ p \in Nat \ {0} /\ p <= Len(o) + 1
  BY DEF Sound
<1> QED BY <1>1, <1>2, <1>3, <1>4, Zenon

LEMMA PartsGrow ==
  ASSUME NEW m, NEW n, NEW o, NEW p \in Nat, NEW q \in Nat, p <= q,
         \A k \in 1..p - 1 : Covers(m, o[k]) => Covers(n, o[k])
  PROVE  /\ PartsOf(m, o, p) \subseteq PartsOf(n, o, q)
         /\ n.texts = m.texts /\ Repeated(m, o, p) => Repeated(n, o, q)
<1>1. PartsOf(m, o, p) \subseteq PartsOf(n, o, q)
  BY DEF PartsOf
<1>2. ASSUME n.texts = m.texts, Repeated(m, o, p), NEW t \in n.texts
      PROVE  Cardinality({k \in PartsOf(n, o, q) : t \in o[k].texts}) >= Repetitions
  <2> DEFINE A == {k \in PartsOf(m, o, p) : t \in o[k].texts}
             B == {k \in PartsOf(n, o, q) : t \in o[k].texts}
  <2>1. A \subseteq B
    BY <1>1
  <2>2. B \subseteq 1..q
    BY DEF PartsOf
  <2>3. IsFiniteSet(B)
    BY <2>2, IntervalIsFinite, FS_Subset
  <2>4. Cardinality(A) \in Nat /\ Cardinality(B) \in Nat /\ Cardinality(A) <= Cardinality(B)
    BY <2>1, <2>3, FS_Subset, FS_CardinalityType
  <2>5. Cardinality(A) >= Repetitions
    BY <1>2 DEF Repeated
  <2> HIDE DEF A, B
  <2>6. Cardinality(B) >= Repetitions
    BY <2>4, <2>5, TolerancesAssumption
  <2> QED BY <2>6 DEF B
<1> QED BY <1>1, <1>2 DEF Repeated

LEMMA JustifiedStays ==
  ASSUME NEW m, NEW o, NEW p \in Nat, NEW q \in Nat, p <= q, Justified(m, o, p)
  PROVE  Justified(m, o, q)
<1>1. PartsOf(m, o, p) \subseteq PartsOf(m, o, q)
  BY PartsGrow
<1>2. Repeated(m, o, p) => Repeated(m, o, q)
  BY PartsGrow
<1>3. Overlapping(m, o, p) => Overlapping(m, o, q)
  BY <1>1 DEF Overlapping
<1>4. Continuous(m, o, p) => Continuous(m, o, q)
  BY <1>1 DEF Continuous
<1>5. Ends(m, o, p) => Ends(m, o, q)
  BY <1>1 DEF Ends
<1> QED BY <1>2, <1>3, <1>4, <1>5 DEF Justified

(* One more cue to write, that stands for the next ones. *)
LEMMA OneMoreIsSound ==
  ASSUME NEW V, NEW T, NEW o, NEW p, NEW ms, Sound(V, T, o, p, ms),
         NEW q \in p + 1..Len(o) + 1, NEW m \in CueOf(V, T), Justified(m, o, q),
         p \in 1..Len(o), \A k \in p..q - 1 : Covers(m, o[k])
  PROVE  Sound(V, T, o, q, Append(ms, m))
<1> USE SoundIsTyped
<1> DEFINE ns == Append(ms, m)
<1>1. /\ ns \in Seq(CueOf(V, T)) /\ Len(ns) = Len(ms) + 1 /\ ns[Len(ms) + 1] = m
      /\ \A n \in 1..Len(ms) : ns[n] = ms[n]
  BY DEF Sound
<1> HIDE DEF ns
<1>2. \A n \in 1..Len(ns) : n \in 1..Len(ms) \/ n = Len(ms) + 1
  BY <1>1
<1>3. m.start \in Nat /\ m.start <= o[p].start
  BY DEF Covers, CueOf
<1>4. \A n \in 1..Len(ns), k \in q..Len(o) : ns[n].start <= o[k].start
  <2> TAKE n \in 1..Len(ns), k \in q..Len(o)
  <2>1. k \in p..Len(o) /\ k \in 1..Len(o) /\ p <= k
    OBVIOUS
  <2>2. o[p].start <= o[k].start
    BY <2>1 DEF Sound, Sorted
  <2>3. CASE n \in 1..Len(ms)
    BY <1>1, <2>1, <2>3 DEF Sound
  <2>4. CASE n = Len(ms) + 1
    BY <1>1, <1>3, <2>1, <2>2, <2>4
  <2> QED BY <1>2, <2>3, <2>4
<1>5. \A k \in 1..q - 1 : \E n \in 1..Len(ns) : Covers(ns[n], o[k])
  <2> TAKE k \in 1..q - 1
  <2>1. CASE k \in 1..p - 1
    <3>1. PICK n \in 1..Len(ms) : Covers(ms[n], o[k])
      BY <2>1 DEF Sound
    <3> QED BY <1>1, <3>1
  <2>2. CASE k \in p..q - 1
    BY <1>1, <2>2
  <2> QED BY <2>1, <2>2
<1>6. \A n \in 1..Len(ns) : Justified(ns[n], o, q)
  <2>1. \A n \in 1..Len(ms) : Justified(ms[n], o, q)
    <3> TAKE n \in 1..Len(ms)
    <3>1. Justified(ms[n], o, p)
      BY DEF Sound
    <3>2. p \in Nat /\ q \in Nat /\ p <= q
      OBVIOUS
    <3> QED BY <3>1, <3>2, JustifiedStays
  <2> QED BY <1>1, <1>2, <2>1
<1>7. q \in 1..Len(o) + 1
  OBVIOUS
<1> QED BY <1>1, <1>4, <1>5, <1>6, <1>7 DEF Sound, ns

(* The last cue to write stands for the next one, too. *)
LEMMA LongerIsSound ==
  ASSUME NEW V, NEW T, NEW o, NEW p, NEW ms, Sound(V, T, o, p, ms), ms # <<>>, p \in 1..Len(o),
         NEW m \in CueOf(V, T), m.start = ms[Len(ms)].start, Justified(m, o, p + 1),
         \A k \in 1..p - 1 : Covers(ms[Len(ms)], o[k]) => Covers(m, o[k]), Covers(m, o[p]),
         NEW ns, ns = [ms EXCEPT ![Len(ms)] = m]
  PROVE  Sound(V, T, o, p + 1, ns)
<1> USE SoundIsTyped
<1>1. /\ ns \in Seq(CueOf(V, T)) /\ Len(ns) = Len(ms) /\ ns[Len(ms)] = m /\ Len(ms) \in 1..Len(ms)
      /\ \A n \in 1..Len(ms) : n # Len(ms) => ns[n] = ms[n]
  BY DEF Sound
<1>2. \A n \in 1..Len(ns), k \in p + 1..Len(o) : ns[n].start <= o[k].start
  <2> TAKE n \in 1..Len(ns), k \in p + 1..Len(o)
  <2>1. k \in p..Len(o)
    OBVIOUS
  <2>a. n \in 1..Len(ms)
    BY <1>1
  <2>2. ms[n].start <= o[k].start
    BY <2>1, <2>a DEF Sound
  <2>3. ns[n].start = ms[n].start
    BY <1>1, <2>a
  <2> QED BY <2>2, <2>3
<1>3. \A k \in 1..p : \E n \in 1..Len(ns) : Covers(ns[n], o[k])
  <2> TAKE k \in 1..p
  <2>1. CASE k = p
    BY <1>1, <2>1
  <2>2. CASE k \in 1..p - 1
    <3>1. PICK n \in 1..Len(ms) : Covers(ms[n], o[k])
      BY <2>2 DEF Sound
    <3> QED BY <1>1, <2>2, <3>1
  <2> QED BY <2>1, <2>2
<1>4. \A n \in 1..Len(ns) : Justified(ns[n], o, p + 1)
  <2> TAKE n \in 1..Len(ns)
  <2>1. CASE n = Len(ms)
    BY <1>1, <2>1
  <2>2. CASE n # Len(ms)
    <3>1. Justified(ms[n], o, p)
      BY <1>1 DEF Sound
    <3>2. p \in Nat /\ p + 1 \in Nat /\ p <= p + 1
      OBVIOUS
    <3> QED BY <1>1, <2>2, <3>1, <3>2, JustifiedStays
  <2> QED BY <2>1, <2>2
<1>5. p + 1 \in 1..Len(o) + 1 /\ (p + 1) - 1 = p
  OBVIOUS
<1>6. \A k \in 1..(p + 1) - 1 : \E n \in 1..Len(ns) : Covers(ns[n], o[k])
  BY <1>3, <1>5
<1>7. o \in Seq(CueOf(V, T)) /\ Sorted(o) /\ \A k \in 1..Len(o) : IsRead(o[k])
  BY DEF Sound
<1>8. ns \in Seq(CueOf(V, T)) /\ p + 1 \in 1..Len(o) + 1
  BY <1>1, <1>5
<1> QED BY <1>2, <1>4, <1>6, <1>7, <1>8, Zenon DEF Sound

-----------------------------------------------------------------------------
(* One cue. *)

LEMMA CueIsJustified ==
  ASSUME NEW V, NEW T, NEW o, NEW p, NEW ms, Sound(V, T, o, p, ms), p \in 1..Len(o)
  PROVE  /\ o[p] \in CueOf(V, T) /\ Covers(o[p], o[p]) /\ Justified(o[p], o, p + 1)
<1> USE SoundIsTyped
<1>1. o[p] \in CueOf(V, T) /\ Covers(o[p], o[p])
  BY DEF Covers
<1>2. p \in PartsOf(o[p], o, p + 1)
  BY <1>1 DEF PartsOf
<1>3. Overlapping(o[p], o, p + 1)
  <2> SUFFICES ASSUME NEW t \in o[p].start + 1..o[p].end - 1
               PROVE  o[p].start < t /\ t < o[p].end
    BY <1>2 DEF Overlapping
  <2> QED OBVIOUS
<1>4. Continuous(o[p], o, p + 1)
  <2> SUFFICES ASSUME NEW t \in o[p].start..o[p].end - 1
               PROVE  o[p].start <= t /\ t < o[p].end + Pause
    BY <1>2 DEF Continuous
  <2> QED BY TolerancesAssumption
<1>5. Ends(o[p], o, p + 1)
  BY <1>2 DEF Ends
<1>6. o[p].texts \cap Notes # {} => IsNote(o[p])
  <2> SUFFICES ASSUME NEW t \in Notes, t \in o[p].texts PROVE o[p].texts = {t}
    BY DEF IsNote
  <2>1. \A u \in o[p].texts : u = t
    BY DEF Sound, IsRead
  <2> QED BY <2>1
<1> QED BY <1>1, <1>3, <1>4, <1>5, <1>6 DEF Justified

LEMMA KeptIsSound ==
  ASSUME NEW V, NEW T, NEW o, NEW p, NEW ms, Sound(V, T, o, p, ms), p \in 1..Len(o)
  PROVE  Sound(V, T, o, p + 1, Append(ms, o[p]))
<1>1. p + 1 \in p + 1..Len(o) + 1 /\ \A k \in p..(p + 1) - 1 : k = p
  BY SoundIsTyped
<1>2. o[p] \in CueOf(V, T) /\ Covers(o[p], o[p]) /\ Justified(o[p], o, p + 1)
  BY CueIsJustified
<1>3. \A k \in p..(p + 1) - 1 : Covers(o[p], o[k])
  BY <1>1, <1>2
<1> QED BY <1>1, <1>2, <1>3, OneMoreIsSound

(* A cue m to write that the next one continues, and n, that lasts for both. *)
LEMMA ProlongedIsJustified ==
  ASSUME NEW V, NEW T, NEW o, NEW p, NEW ms, Sound(V, T, o, p, ms), p \in 1..Len(o),
         NEW m, m \in CueOf(V, T), Justified(m, o, p), m.start <= o[p].start,
         SameCue(m, o[p]),
         o[p].start < m.end \/ (IsNote(o[p]) /\ o[p].start <= m.end + Pause),
         NEW n, n.start = m.start, n.texts = m.texts, n.speaker = m.speaker,
         n.end = IF m.end < o[p].end THEN o[p].end ELSE m.end
  PROVE  /\ \A k \in 1..p - 1 : Covers(m, o[k]) => Covers(n, o[k])
         /\ Covers(n, o[p]) /\ Justified(n, o, p + 1)
<1> USE SoundIsTyped
<1>a. m.start \in Nat /\ m.end \in Nat /\ n.end \in Nat /\ m.end <= n.end /\ o[p].end <= n.end
  BY DEF CueOf
<1>b. p \in Nat /\ p + 1 \in Nat /\ p <= p + 1 /\ Pause \in Nat
  BY TolerancesAssumption
<1>1. \A k \in 1..p - 1 : Covers(m, o[k]) => Covers(n, o[k])
  <2> TAKE k \in 1..p - 1
  <2>1. o[k].end \in Nat
    OBVIOUS
  <2>2. o[k].end <= m.end => o[k].end <= n.end
    BY <1>a, <2>1
  <2> QED BY <2>2, Zenon DEF Covers
<1>2. Covers(n, o[p])
  BY <1>a DEF Covers, SameCue
<1>3. p \in PartsOf(n, o, p + 1)
  BY <1>2 DEF PartsOf
<1>4. PartsOf(m, o, p) \subseteq PartsOf(n, o, p + 1)
  BY <1>1, <1>b, PartsGrow
<1>5. CASE m.texts \cap Notes = {}
  <2>1. ~IsNote(o[p])
    BY <1>5 DEF IsNote, SameCue
  <2>2. o[p].start < m.end
    BY <2>1
  <2>3. ASSUME NEW t \in n.start + 1..n.end - 1
        PROVE  \E k \in PartsOf(n, o, p + 1) : o[k].start < t /\ t < o[k].end
    <3>1. CASE t < m.end
      <4>1. t \in m.start + 1..m.end - 1
        BY <1>a, <3>1
      <4> QED BY <1>4, <1>5, <4>1 DEF Justified, Overlapping
    <3>2. CASE t >= m.end
      <4>1. o[p].start < t /\ t < o[p].end
        BY <1>a, <2>2, <3>2
      <4> QED BY <1>3, <4>1
    <3> QED BY <1>a, <3>1, <3>2
  <2>4. Overlapping(n, o, p + 1)
    BY <2>3 DEF Overlapping
  <2> QED BY <1>1, <1>2, <1>5, <2>4 DEF Justified
<1>6. CASE m.texts \cap Notes # {}
  <2>1. Continuous(m, o, p) /\ Ends(m, o, p)
    BY <1>6 DEF Justified
  <2>2. PICK h \in PartsOf(m, o, p) : o[h].end = m.end
    BY <2>1 DEF Ends
  <2>3. h \in PartsOf(n, o, p + 1) /\ o[h].start <= m.end /\ h \in 1..Len(o)
    <3>1. h \in PartsOf(n, o, p + 1)
      BY <1>4, <2>2
    <3>2. h \in 1..p - 1
      BY <2>2 DEF PartsOf
    <3>3. h \in 1..Len(o)
      BY <3>2
    <3>4. o[h].start \in Nat /\ o[h].end \in Nat /\ o[h].start < o[h].end
      BY <3>3
    <3> QED BY <2>2, <3>1, <3>3, <3>4
  <2>4. o[p].start <= m.end + Pause
    BY <1>a, <1>b
  <2>5. ASSUME NEW t \in n.start..n.end - 1
        PROVE  \E k \in PartsOf(n, o, p + 1) : o[k].start <= t /\ t < o[k].end + Pause
    <3>1. CASE t < m.end
      <4>1. t \in m.start..m.end - 1
        BY <1>a, <3>1
      <4> QED BY <1>4, <2>1, <4>1 DEF Continuous
    <3>2. CASE t >= m.end /\ t < o[p].start
      <4>1. o[h].start <= t /\ t < o[h].end + Pause
        <5>1. t \in Nat /\ o[h].start \in Nat /\ o[p].start \in Nat
          BY <1>a, <2>3
        <5>2. o[h].start <= t
          BY <1>a, <2>3, <3>2, <5>1
        <5>3. t < m.end + Pause
          BY <1>a, <1>b, <2>4, <3>2, <5>1
        <5> QED BY <2>2, <5>2, <5>3
      <4> QED BY <2>3, <4>1
    <3>3. CASE t >= m.end /\ t >= o[p].start
      <4>1. n.end = o[p].end
        BY <1>a, <3>3
      <4>2. t < o[p].end + Pause
        BY <1>a, <1>b, <4>1
      <4> QED BY <1>3, <3>3, <4>2
    <3> QED BY <1>a, <3>1, <3>2, <3>3
  <2>6. Continuous(n, o, p + 1)
    BY <2>5 DEF Continuous
  <2>7. Ends(n, o, p + 1)
    <3>1. CASE m.end < o[p].end
      BY <1>3, <3>1 DEF Ends
    <3>2. CASE ~(m.end < o[p].end)
      BY <2>2, <2>3, <3>2 DEF Ends
    <3> QED BY <3>1, <3>2
  <2>8. IsNote(n)
    <3>1. o[p].texts = m.texts
      BY DEF SameCue
    <3>2. PICK t \in Notes : t \in o[p].texts
      BY <1>6, <3>1
    <3>3. o[p].texts = {t}
      BY <3>2 DEF Sound, IsRead
    <3> QED BY <3>1, <3>2, <3>3 DEF IsNote
  <2> QED BY <1>1, <1>2, <1>6, <2>6, <2>7, <2>8 DEF Justified
<1> QED BY <1>5, <1>6

-----------------------------------------------------------------------------
(* A cycle. *)

LEMMA PlaceInCycle ==
  ASSUME NEW w \in Nat \ {0}, NEW a \in Nat
  PROVE  /\ a % w \in 0..w - 1
         /\ \A r \in Nat : a < w => (a + r * w) % w = a
OBVIOUS

LEMMA RoundsFit ==
  ASSUME NEW w \in Nat \ {0}, NEW n \in Nat
  PROVE  /\ \A r \in Nat : r < n => r * w \in Nat /\ r * w + w <= n * w
         /\ \A r, s \in Nat : r * w = s * w => r = s
         /\ n \in Nat \ {0} => n * w >= w
         /\ n * w \in Nat
<1>1. \A r \in Nat : r < n => r * w \in Nat /\ r * w + w <= n * w
  OBVIOUS
<1>2. \A r, s \in Nat : r * w = s * w => r = s
  OBVIOUS
<1> QED BY <1>1, <1>2

(***************************************************************************)
(* Its cues end in order, because an overlap is shorter than any cue, and  *)
(* each of them has the texts of one of the first round.                   *)
(***************************************************************************)
LEMMA CycleIsRead ==
  ASSUME NEW V, NEW T, Sound(V, T, ordered, next, merged),
         NEW e \in next + 1..Len(ordered) + 1, NEW w \in 1..MaxWidth, IsCycle(next, e, w)
  PROVE  /\ next \in 1..Len(ordered) /\ w \in Nat \ {0}
         /\ next + w <= e /\ next + Repetitions * w <= e
         /\ \A k \in next..e - 1 :
              /\ k \in 1..Len(ordered) /\ IsNote(ordered[k])
              /\ ordered[k].end <= ordered[e - 1].end
              /\ \E j \in next..next + w - 1 : ordered[j].texts = ordered[k].texts
<1>0. /\ Len(ordered) \in Nat /\ next \in Nat \ {0}
      /\ \A k \in 1..Len(ordered) :
           /\ ordered[k].start \in Nat /\ ordered[k].end \in Nat
           /\ ordered[k].start < ordered[k].end
  BY SoundIsTyped
<1>1. /\ Len(ordered) \in Nat /\ e \in Nat /\ next \in 1..Len(ordered) /\ next < e
      /\ e <= Len(ordered) + 1 /\ w \in Nat \ {0} /\ MaxWidth \in Nat
  BY <1>0, TolerancesAssumption
<1>2. e - next >= Repetitions * w
  BY DEF IsCycle
<1>3. Repetitions \in Nat \ {0} /\ Repetitions * w \in Nat /\ Repetitions * w >= w
  BY <1>1, TolerancesAssumption, RoundsFit
<1>4. next + w <= e /\ next + Repetitions * w <= e
  <2>1. PICK n \in Nat : n = Repetitions * w
    BY <1>3
  <2>2. e - next >= n /\ n >= w /\ e \in Nat /\ next \in Nat
    BY <1>1, <1>2, <1>3, <2>1
  <2>3. next + w <= e /\ next + n <= e
    BY <1>1, <2>1, <2>2
  <2> QED BY <2>1, <2>3
<1>5. \A k \in next..e - 1 :
        /\ k \in 1..Len(ordered) /\ IsNote(ordered[k])
        /\ SameCue(ordered[k], ordered[next + ((k - next) % w)])
        /\ k > next => /\ ordered[k - 1].end <= ordered[k].start + Overlap
                       /\ ordered[k].start <= ordered[k - 1].end + Pause
  BY <1>1 DEF IsCycle
<1>6. \A k \in next..e - 2 : ordered[k].end <= ordered[k + 1].end
  <2> TAKE k \in next..e - 2
  <2>1. k + 1 \in next..e - 1 /\ k + 1 > next /\ (k + 1) - 1 = k /\ k \in 1..Len(ordered)
    BY <1>1
  <2>2. ordered[k].end <= ordered[k + 1].start + Overlap
    BY <1>5, <2>1
  <2>3. k + 1 \in 1..Len(ordered)
    BY <1>5, <2>1
  <2>4. /\ ordered[k].end \in Nat /\ ordered[k + 1].start \in Nat /\ ordered[k + 1].end \in Nat
        /\ ordered[k + 1].start < ordered[k + 1].end
    BY <1>0, <2>1, <2>3
  <2>5. PICK a \in Nat, b \in Nat, c \in Nat :
          a = ordered[k].end /\ b = ordered[k + 1].start /\ c = ordered[k + 1].end
    BY <2>4
  <2>6. a <= b + Overlap /\ b < c /\ Overlap \in 0..1
    BY <2>2, <2>4, <2>5, TolerancesAssumption
  <2>7. a <= c
    BY <2>6
  <2> QED BY <2>5, <2>7
<1>7. \A k \in next..e - 1 : ordered[k].end <= ordered[e - 1].end
  <2> TAKE k \in next..e - 1
  <2> DEFINE S == {j \in k..e - 1 : ordered[k].end <= ordered[j].end}
  <2>1. k \in Nat /\ e - 1 \in Nat /\ k <= e - 1 /\ k \in S
    BY <1>0, <1>1, <1>5
  <2>2. ASSUME NEW j \in k..(e - 1) - 1, j \in S PROVE j + 1 \in S
    <3>1. j \in next..e - 2 /\ j + 1 \in next..e - 1 /\ j + 1 \in k..e - 1 /\ j \in next..e - 1
      BY <1>1
    <3>2. ordered[k].end <= ordered[j].end /\ ordered[j].end <= ordered[j + 1].end
      BY <1>6, <2>2, <3>1
    <3>3. ordered[k].end \in Nat /\ ordered[j].end \in Nat /\ ordered[j + 1].end \in Nat
      BY <1>0, <1>5, <3>1
    <3>4. ordered[k].end <= ordered[j + 1].end
      BY <3>2, <3>3
    <3> QED BY <3>1, <3>4
  <2> HIDE DEF S
  <2>3. k..e - 1 \subseteq S
    BY <2>1, <2>2, Climb
  <2>4. e - 1 \in S
    BY <2>1, <2>3
  <2> QED BY <2>4 DEF S
<1>8. \A k \in next..e - 1 : \E j \in next..next + w - 1 : ordered[j].texts = ordered[k].texts
  <2> TAKE k \in next..e - 1
  <2>1. k - next \in Nat
    BY <1>1
  <2>2. (k - next) % w \in 0..w - 1
    BY <1>1, <2>1, PlaceInCycle
  <2>3. next + ((k - next) % w) \in next..next + w - 1
    BY <1>1, <2>2
  <2>4. ordered[k].texts = ordered[next + ((k - next) % w)].texts
    BY <1>5 DEF SameCue
  <2> QED BY <2>3, <2>4
<1> QED BY <1>1, <1>4, <1>5, <1>7, <1>8

(* The cue to write for all of them. *)
CycleCue(e, w) ==
  [ordered[next] EXCEPT !.end = ordered[e - 1].end,
     !.texts = UNION {ordered[k].texts : k \in next..next + w - 1}]

LEMMA CycleIsTyped ==
  ASSUME NEW V, NEW T, Sound(V, T, ordered, next, merged),
         NEW e \in next + 1..Len(ordered) + 1, NEW w \in 1..MaxWidth, IsCycle(next, e, w),
         NEW m, m = CycleCue(e, w)
  PROVE  /\ m \in CueOf(V, T) /\ m.start = ordered[next].start /\ m.end = ordered[e - 1].end
         /\ m.texts = UNION {ordered[k].texts : k \in next..next + w - 1}
         /\ \A k \in next..e - 1 : Covers(m, ordered[k]) /\ k \in PartsOf(m, ordered, e)
<1> USE SoundIsTyped, CycleIsRead
<1> DEFINE all == UNION {ordered[k].texts : k \in next..next + w - 1}
<1>1. PICK c \in CueOf(V, T) : c = ordered[next]
  BY CycleIsRead, SoundIsTyped
<1>2. \A k \in next..next + w - 1 : k \in next..e - 1 /\ k \in 1..Len(ordered)
  OBVIOUS
<1>3. all \subseteq T
  <2>1. \A k \in next..next + w - 1 : ordered[k].texts \subseteq T
    BY <1>2 DEF CueOf
  <2> QED BY <2>1
<1>4. ordered[e - 1].end \in Nat
  <2>1. e - 1 \in next..e - 1
    OBVIOUS
  <2> QED BY <2>1
<1>5. m = [c EXCEPT !.end = ordered[e - 1].end, !.texts = all]
  BY <1>1 DEF CycleCue
<1> HIDE DEF all
<1>6. /\ m \in CueOf(V, T) /\ m.start = ordered[next].start /\ m.end = ordered[e - 1].end
      /\ m.texts = all
  <2>1. c = [start |-> c.start, end |-> c.end, speaker |-> c.speaker, texts |-> c.texts]
        /\ c.start \in Nat /\ c.speaker \in V
    BY DEF CueOf
  <2>2. m = [start |-> c.start, end |-> ordered[e - 1].end, speaker |-> c.speaker, texts |-> all]
    BY <1>5, <2>1
  <2>3. m \in CueOf(V, T)
    BY <1>3, <1>4, <2>1, <2>2 DEF CueOf
  <2> QED BY <1>1, <2>2, <2>3
<1>7. ASSUME NEW k \in next..e - 1
      PROVE  Covers(m, ordered[k]) /\ k \in PartsOf(m, ordered, e)
  <2>1. k \in 1..Len(ordered) /\ next <= k /\ k \in 1..e - 1
    OBVIOUS
  <2>2. m.start <= ordered[k].start
    BY <1>6, <2>1 DEF Sound, Sorted
  <2>3. ordered[k].end <= m.end
    BY <1>6
  <2>4. ordered[k].texts \subseteq m.texts
    <3>1. PICK j \in next..next + w - 1 : ordered[j].texts = ordered[k].texts
      BY CycleIsRead
    <3> QED BY <1>6, <3>1 DEF all
  <2>5. ordered[k].texts \cap Notes # {}
    BY DEF IsNote
  <2> QED BY <2>1, <2>2, <2>3, <2>4, <2>5 DEF Covers, PartsOf
<1> QED BY <1>6, <1>7 DEF all

(* No cue of it starts later than a pause after the one before. *)
LEMMA CycleIsContinuous ==
  ASSUME NEW V, NEW T, Sound(V, T, ordered, next, merged),
         NEW e \in next + 1..Len(ordered) + 1, NEW w \in 1..MaxWidth, IsCycle(next, e, w),
         NEW m, m = CycleCue(e, w)
  PROVE  Continuous(m, ordered, e) /\ Ends(m, ordered, e)
<1>1. /\ m.start = ordered[next].start /\ m.end = ordered[e - 1].end
      /\ \A k \in next..e - 1 : k \in PartsOf(m, ordered, e)
  BY CycleIsTyped
<1>2. /\ next \in 1..Len(ordered) /\ next \in Nat /\ e - 1 \in Nat /\ next <= e - 1
      /\ e - 1 \in next..e - 1 /\ next \in next..e - 1
  BY CycleIsRead, SoundIsTyped
<1>3. \A k \in next..e - 1 : ordered[k].start \in Nat /\ ordered[k].end \in Nat
  BY CycleIsRead, SoundIsTyped
<1>4. \A k \in next..(e - 1) - 1 : ordered[k + 1].start <= ordered[k].end + Pause
  <2> TAKE k \in next..(e - 1) - 1
  <2>1. k + 1 \in next..e - 1 /\ k + 1 > next /\ (k + 1) - 1 = k
    BY <1>2
  <2> QED BY <2>1 DEF IsCycle
<1>5. ASSUME NEW t \in m.start..m.end - 1,
             ~ \E k \in PartsOf(m, ordered, e) :
                 ordered[k].start <= t /\ t < ordered[k].end + Pause
      PROVE  FALSE
  <2> DEFINE S == {k \in next..e - 1 : ordered[k].start <= t}
  <2>1. t \in Nat /\ m.start <= t /\ t < m.end /\ Pause \in Nat
    BY <1>1, <1>2, <1>3, TolerancesAssumption
  <2>2. next \in S
    BY <1>1, <1>2, <2>1
  <2>3. \A k \in S : ordered[k].end + Pause <= t
    <3> TAKE k \in S
    <3>1. ~ (t < ordered[k].end + Pause)
      BY <1>1, <1>5
    <3>2. ordered[k].end \in Nat
      BY <1>3
    <3> QED BY <2>1, <3>1, <3>2
  <2>4. ASSUME NEW k \in next..(e - 1) - 1, k \in S PROVE k + 1 \in S
    <3>1. ordered[k].end + Pause <= t /\ ordered[k + 1].start <= ordered[k].end + Pause
      BY <1>4, <2>3, <2>4
    <3>2. k \in next..e - 1 /\ k + 1 \in next..e - 1
      BY <1>2
    <3>3. ordered[k].end \in Nat /\ ordered[k + 1].start \in Nat
      BY <1>3, <3>2
    <3>4. ordered[k + 1].start <= t
      <4>1. PICK x \in Nat, y \in Nat : x = ordered[k].end /\ y = ordered[k + 1].start
        BY <3>3
      <4>2. x + Pause <= t /\ y <= x + Pause
        BY <3>1, <4>1
      <4>3. y <= t
        BY <2>1, <4>2
      <4> QED BY <4>1, <4>3
    <3> QED BY <3>2, <3>4, Zenon
  <2> HIDE DEF S
  <2>5. next..e - 1 \subseteq S
    BY <1>2, <2>2, <2>4, Climb
  <2>6. ordered[e - 1].end + Pause <= t
    BY <1>2, <2>3, <2>5
  <2>7. ordered[e - 1].end \in Nat
    BY <1>2, <1>3
  <2> QED BY <1>1, <2>1, <2>6, <2>7
<1>6. Continuous(m, ordered, e)
  BY <1>5 DEF Continuous
<1>7. Ends(m, ordered, e)
  BY <1>1, <1>2 DEF Ends
<1> QED BY <1>6, <1>7

(* Each text of the first round is in every round. *)
LEMMA CycleIsRepeated ==
  ASSUME NEW V, NEW T, Sound(V, T, ordered, next, merged),
         NEW e \in next + 1..Len(ordered) + 1, NEW w \in 1..MaxWidth, IsCycle(next, e, w),
         NEW m, m = CycleCue(e, w)
  PROVE  Repeated(m, ordered, e)
<1> SUFFICES ASSUME NEW t \in m.texts
             PROVE  Cardinality({k \in PartsOf(m, ordered, e) : t \in ordered[k].texts})
                      >= Repetitions
  BY DEF Repeated
<1> DEFINE R == {k \in PartsOf(m, ordered, e) : t \in ordered[k].texts}
<1>1. PICK j \in next..next + w - 1 : t \in ordered[j].texts
  BY CycleIsTyped
<1>2. /\ next \in Nat \ {0} /\ w \in Nat \ {0} /\ e \in Nat /\ Repetitions \in Nat \ {0}
      /\ next + Repetitions * w <= e
  BY CycleIsRead, SoundIsTyped, TolerancesAssumption
<1> DEFINE a == j - next
<1>3. a \in Nat /\ a < w /\ j = next + a
  BY <1>2
<1> HIDE DEF a
<1> DEFINE f == [r \in 1..Repetitions |-> next + (a + (r - 1) * w)]
<1>4. ASSUME NEW r \in 1..Repetitions
      PROVE  /\ f[r] \in next..e - 1 /\ (f[r] - next) % w = a
             /\ f[r] = next + (a + (r - 1) * w) /\ (r - 1) * w \in Nat
  <2>1. r - 1 \in Nat /\ r - 1 < Repetitions
    BY <1>2
  <2>2. PICK x \in Nat : x = (r - 1) * w
    BY <1>2, <2>1, RoundsFit
  <2>3. PICK y \in Nat : y = Repetitions * w
    BY <1>2, RoundsFit
  <2>4. x + w <= y
    BY <1>2, <2>1, <2>2, <2>3, RoundsFit
  <2>5. f[r] = next + (a + x)
    BY <2>2
  <2>6. next + (a + x) \in next..e - 1 /\ (next + (a + x)) - next = a + x
    BY <1>2, <1>3, <2>3, <2>4
  <2>7. (a + x) % w = a
    BY <1>2, <1>3, <2>1, <2>2, PlaceInCycle
  <2> QED BY <2>2, <2>5, <2>6, <2>7
<1>5. \A r \in 1..Repetitions : f[r] \in R
  <2> TAKE r \in 1..Repetitions
  <2>1. PICK k \in next..e - 1 : k = f[r] /\ (k - next) % w = a
    BY <1>4
  <2>2. SameCue(ordered[k], ordered[next + ((k - next) % w)])
    BY DEF IsCycle
  <2>3. t \in ordered[k].texts
    BY <1>1, <1>3, <2>1, <2>2 DEF SameCue
  <2>4. k \in PartsOf(m, ordered, e)
    BY CycleIsTyped
  <2> QED BY <2>1, <2>3, <2>4
<1>6. \A r, s \in 1..Repetitions : f[r] = f[s] => r = s
  <2> TAKE r, s \in 1..Repetitions
  <2> HAVE f[r] = f[s]
  <2>1. PICK x \in Nat, y \in Nat : x = (r - 1) * w /\ y = (s - 1) * w
    BY <1>4
  <2>2. next + (a + x) = next + (a + y)
    BY <2>1, <1>4
  <2>3. x = y
    BY <1>2, <1>3, <2>2
  <2>4. r - 1 \in Nat /\ s - 1 \in Nat
    BY <1>2
  <2>5. r - 1 = s - 1
    BY <1>2, <2>1, <2>3, <2>4, RoundsFit
  <2> QED BY <1>2, <2>5
<1> HIDE DEF f
<1>7. f \in [1..Repetitions -> R]
  BY <1>5 DEF f
<1> HIDE DEF R
<1>8. f \in Injection(1..Repetitions, R)
  BY <1>6, <1>7 DEF Injection, IsInjective
<1>9. IsFiniteSet(R)
  <2>1. R \in SUBSET (1..e)
    BY <1>2 DEF R, PartsOf
  <2> QED BY <1>2, <2>1, IntervalIsFinite, FS_Subset
<1>10. Cardinality(1..Repetitions) = Repetitions
  BY <1>2, IntervalIsFinite
<1>11. Cardinality(1..Repetitions) <= Cardinality(R) /\ Cardinality(R) \in Nat
  BY <1>8, <1>9, FS_Injection, FS_CardinalityType
<1>12. Cardinality(R) >= Repetitions
  BY <1>2, <1>10, <1>11
<1> QED BY <1>12 DEF R

LEMMA CycleIsSound ==
  ASSUME NEW V, NEW T, Sound(V, T, ordered, next, merged),
         NEW e \in next + 1..Len(ordered) + 1, NEW w \in 1..MaxWidth, IsCycle(next, e, w)
  PROVE  Sound(V, T, ordered, e, Append(merged, CycleCue(e, w)))
<1>1. PICK m : m = CycleCue(e, w)
  OBVIOUS
<1>2. m \in CueOf(V, T) /\ \A k \in next..e - 1 : Covers(m, ordered[k])
  BY <1>1, CycleIsTyped
<1>3. Continuous(m, ordered, e) /\ Ends(m, ordered, e)
  BY <1>1, CycleIsContinuous
<1>4. Repeated(m, ordered, e)
  BY <1>1, CycleIsRepeated
<1>5. next \in 1..Len(ordered) /\ next \in next..e - 1
  BY CycleIsRead, SoundIsTyped
<1>6. m.texts \cap Notes # {}
  <2>1. IsNote(ordered[next])
    BY <1>5, CycleIsRead
  <2>2. ordered[next].texts \subseteq m.texts
    BY <1>2, <1>5 DEF Covers
  <2> QED BY <2>1, <2>2 DEF IsNote
<1>7. Justified(m, ordered, e)
  BY <1>3, <1>4, <1>6 DEF Justified
<1> QED BY <1>1, <1>2, <1>5, <1>7, OneMoreIsSound

-----------------------------------------------------------------------------
(* The steps of the merge. *)

LEMMA SortedIsSound ==
  ASSUME NEW V, NEW T, NEW s \in Seq(CueOf(V, T)), \A k \in 1..Len(s) : IsRead(s[k])
  PROVE  Sound(V, T, InTime(s), 1, <<>>)
<1>1. PICK o : o = InTime(s)
  OBVIOUS
<1>2. o \in Seq(CueOf(V, T)) /\ Sorts(o, s) /\ Len(o) \in Nat
  BY <1>1, InTimeSorts
<1>3. Sorted(o) /\ \A n \in 1..Len(o) : IsRead(o[n])
  BY <1>2, Zenon DEF Sorts
<1>4. <<>> \in Seq(CueOf(V, T)) /\ 1 \in 1..Len(o) + 1 /\ 1..Len(<<>>) = {} /\ 1..1 - 1 = {}
  BY <1>2
<1>5. Sound(V, T, o, 1, <<>>)
  BY <1>2, <1>3, <1>4, Zenon DEF Sound
<1> QED BY <1>1, <1>5

LEMMA MergeStepIsSound ==
  ASSUME NEW V, NEW T, Sound(V, T, ordered, next, merged), MergeNext
  PROVE  ordered' = ordered /\ Sound(V, T, ordered', next', merged')
<1>1. CASE CollapseCycle
  <2>1. PICK c \in Cycles(next) :
          /\ merged' = Append(merged, CycleCue(c.end, c.width))
          /\ next' = c.end /\ ordered' = ordered
    BY <1>1 DEF CollapseCycle, CycleCue
  <2>2. /\ c.end \in next + 1..Len(ordered) + 1 /\ c.width \in 1..MaxWidth
        /\ IsCycle(next, c.end, c.width)
    BY DEF Cycles
  <2> QED BY <2>1, <2>2, CycleIsSound
<1>2. CASE Prolong
  <2>1. /\ next \in 1..Len(ordered) /\ merged # <<>> /\ SameCue(last, ordered[next])
        /\ next' = next + 1 /\ ordered' = ordered
        /\ ordered[next].start < last.end
           \/ (IsNote(ordered[next]) /\ ordered[next].start <= last.end + Pause)
        /\ merged' = IF last.end < ordered[next].end
                     THEN [merged EXCEPT ![Len(merged)].end = ordered[next].end] ELSE merged
    BY <1>2, SoundIsTyped DEF Prolong, ReadsCue, Continues
  <2>2. Len(merged) \in 1..Len(merged) /\ last \in CueOf(V, T)
    BY <2>1, SoundIsTyped DEF last, Sound
  <2>3. PICK m \in CueOf(V, T) : m = last
    BY <2>2
  <2>4. Justified(m, ordered, next) /\ m.start <= ordered[next].start
    <3>1. Justified(merged[Len(merged)], ordered, next)
      BY <2>2 DEF Sound
    <3>2. next \in next..Len(ordered)
      BY <2>1
    <3>3. merged[Len(merged)].start <= ordered[next].start
      BY <2>2, <3>2 DEF Sound
    <3> QED BY <2>3, <3>1, <3>3 DEF last
  <2>5. PICK n : n = [start |-> m.start, speaker |-> m.speaker, texts |-> m.texts,
                      end |-> IF m.end < ordered[next].end THEN ordered[next].end ELSE m.end]
    OBVIOUS
  <2>6. /\ n.start = m.start /\ n.texts = m.texts /\ n.speaker = m.speaker
        /\ n.end = IF m.end < ordered[next].end THEN ordered[next].end ELSE m.end
    BY <2>5
  <2>7. n \in CueOf(V, T)
    <3>1. ordered[next].end \in Nat /\ m.end \in Nat
      BY <2>1, SoundIsTyped DEF CueOf
    <3> QED BY <2>5, <3>1 DEF CueOf
  <2>8. /\ \A k \in 1..next - 1 : Covers(m, ordered[k]) => Covers(n, ordered[k])
        /\ Covers(n, ordered[next]) /\ Justified(n, ordered, next + 1)
    BY <2>1, <2>3, <2>4, <2>6, ProlongedIsJustified
  <2>9. merged' = [merged EXCEPT ![Len(merged)] = n]
    <3>1. m = [start |-> m.start, end |-> m.end, speaker |-> m.speaker, texts |-> m.texts]
      BY DEF CueOf
    <3>2. merged[Len(merged)] = m
      BY <2>3 DEF last
    <3>3. CASE last.end < ordered[next].end
      <4>1. n = [m EXCEPT !.end = ordered[next].end]
        BY <2>3, <2>5, <3>1, <3>3
      <4>2. merged' = [merged EXCEPT ![Len(merged)].end = ordered[next].end]
        BY <2>1, <3>3
      <4> QED BY <3>2, <4>1, <4>2
    <3>4. CASE ~(last.end < ordered[next].end)
      <4>1. n = m /\ merged' = merged
        BY <2>1, <2>3, <2>5, <3>1, <3>4
      <4>2. merged \in Seq(CueOf(V, T))
        BY DEF Sound
      <4> QED BY <2>2, <3>2, <4>1, <4>2
    <3> QED BY <3>3, <3>4
  <2>10. n.start = merged[Len(merged)].start
    BY <2>3, <2>6 DEF last
  <2>11. \A k \in 1..next - 1 : Covers(merged[Len(merged)], ordered[k]) => Covers(n, ordered[k])
    BY <2>3, <2>8 DEF last
  <2> QED BY <2>1, <2>7, <2>8, <2>9, <2>10, <2>11, LongerIsSound
<1>3. CASE Keep
  <2>1. /\ next \in 1..Len(ordered) /\ next' = next + 1 /\ ordered' = ordered
        /\ merged' = Append(merged, ordered[next])
    BY <1>3, SoundIsTyped DEF Keep, ReadsCue
  <2> QED BY <2>1, KeptIsSound
<1> QED BY <1>1, <1>2, <1>3 DEF MergeNext

LEMMA SoundKeepsPromises ==
  ASSUME NEW V, NEW T, Sound(V, T, ordered, next, merged)
  PROVE  NoCueIsDropped /\ MergesAreJustified
<1>1. NoCueIsDropped
  BY DEF Sound, NoCueIsDropped
<1>2. \A m : Parts(m) = PartsOf(m, ordered, next)
  BY DEF Parts, PartsOf
<1>3. MergesAreJustified
  <2> SUFFICES ASSUME NEW n \in 1..Len(merged), NEW m, m = merged[n]
               PROVE  IF m.texts \cap Notes = {} THEN IsOverlapping(m)
                      ELSE IsContinuous(m) /\ (IsNote(m) \/ IsRepeated(m))
    BY DEF MergesAreJustified
  <2>1. Justified(m, ordered, next)
    BY DEF Sound
  <2>2. Overlapping(m, ordered, next) => IsOverlapping(m)
    BY <1>2 DEF Overlapping, IsOverlapping
  <2>3. Continuous(m, ordered, next) => IsContinuous(m)
    BY <1>2 DEF Continuous, IsContinuous
  <2>4. Repeated(m, ordered, next) => IsRepeated(m)
    BY <1>2 DEF Repeated, IsRepeated
  <2> QED BY <2>1, <2>2, <2>3, <2>4 DEF Justified
<1> QED BY <1>1, <1>3

LEMMA MergeStaysSound ==
  /\ MergeInit => Sound(Speakers, Texts, ordered, next, merged)
  /\ Sound(Speakers, Texts, ordered, next, merged) /\ [MergeNext]_mergeVars
       => Sound(Speakers, Texts, ordered, next, merged)'
<1>1. MergeInit => Sound(Speakers, Texts, ordered, next, merged)
  <2> SUFFICES ASSUME MergeInit PROVE Sound(Speakers, Texts, ordered, next, merged)
    OBVIOUS
  <2>1. PICK s \in Sources : ordered = InTime(s)
    BY DEF MergeInit
  <2>2. s \in Seq(CueOf(Speakers, Texts)) /\ \A k \in 1..Len(s) : IsRead(s[k])
    BY SourcesAssumption DEF RawCue, CueOf
  <2> QED BY <2>1, <2>2, SortedIsSound DEF MergeInit
<1>2. ASSUME Sound(Speakers, Texts, ordered, next, merged), [MergeNext]_mergeVars
      PROVE  Sound(Speakers, Texts, ordered, next, merged)'
  <2>1. CASE MergeNext
    BY <1>2, <2>1, MergeStepIsSound
  <2>2. CASE UNCHANGED mergeVars
    BY <1>2, <2>2 DEF mergeVars
  <2> QED BY <1>2, <2>1, <2>2
<1> QED BY <1>1, <1>2

(* The cues to merge and those to write are well typed. *)
THEOREM MergeTypes == MergeSpec => []MergeTypeOK
<1>1. Sound(Speakers, Texts, ordered, next, merged) => MergeTypeOK
  BY DEF Sound, MergeTypeOK, RawCue, CueOf
<1> QED BY <1>1, MergeStaysSound, PTL DEF MergeSpec

(***************************************************************************)
(* MergeRepeatedCues drops no cue: each one that was read is in one to     *)
(* write, for all of its time, whatever was prolonged or collapsed since.  *)
(***************************************************************************)
THEOREM EveryCueIsKept == MergeSpec => []NoCueIsDropped
<1>1. Sound(Speakers, Texts, ordered, next, merged) => NoCueIsDropped
  BY SoundKeepsPromises
<1> QED BY <1>1, MergeStaysSound, PTL DEF MergeSpec

(***************************************************************************)
(* MergeRepeatedCues joins spoken cues only while they overlap, and notes  *)
(* only without a longer pause; what has several notes has each of them    *)
(* as often as a cycle must repeat.                                        *)
(***************************************************************************)
THEOREM EveryMergeIsJustified == MergeSpec => []MergesAreJustified
<1>1. Sound(Speakers, Texts, ordered, next, merged) => MergesAreJustified
  BY SoundKeepsPromises
<1> QED BY <1>1, MergeStaysSound, PTL DEF MergeSpec

-----------------------------------------------------------------------------
(* From the text of the model to the subtitles. *)

(* cleanCueText leaves words as they are. *)
LEMMA WordsAreClean == ASSUME NEW t, t.kind # "speaker" PROVE Cleaned(<<t>>) = <<t>>
<1> DEFINE s == <<t>>
           Steps(kept) == kept = [n \in 0..Len(s) |->
                  IF n = 0 THEN <<>>
                  ELSE IF s[n].kind = "speaker" THEN kept[n - 1] ELSE Append(kept[n - 1], s[n])]
           all == [n \in 0..1 |-> IF n = 0 THEN <<>> ELSE <<t>>]
           kept == CHOOSE f : Steps(f)
<1>1. Len(s) = 1 /\ s[1] = t
  OBVIOUS
<1>2. Steps(all)
  <2>1. \A n \in 0..1 : all[n] = IF n = 0 THEN <<>>
                  ELSE IF s[n].kind = "speaker" THEN all[n - 1] ELSE Append(all[n - 1], s[n])
    OBVIOUS
  <2> HIDE DEF s
  <2> QED BY <1>1, <2>1
<1>3. Steps(kept)
  <2> HIDE DEF Steps
  <2> QED BY <1>2
<1>4. kept[0] = <<>> /\ kept[1] = Append(kept[0], t)
  <2> HIDE DEF kept, s
  <2>1. \A n \in 0..1 : kept[n] = IF n = 0 THEN <<>>
                  ELSE IF s[n].kind = "speaker" THEN kept[n - 1] ELSE Append(kept[n - 1], s[n])
    BY <1>1, <1>3
  <2>2. kept[0] = <<>>
    BY <2>1
  <2>3. 1 \in 0..1 /\ 1 # 0 /\ 1 - 1 = 0
    OBVIOUS
  <2>4. kept[1] = Append(kept[0], t)
    BY <1>1, <2>1, <2>3, Zenon
  <2> QED BY <2>2, <2>4, Zenon
<1>5. Cleaned(s) = kept[Len(s)]
  BY DEF Cleaned
<1>6. kept[1] = <<t>>
  <2> HIDE DEF kept
  <2> QED BY <1>4
<1> HIDE DEF kept
<1> QED BY <1>1, <1>5, <1>6

(* What the texts of the cues are taken from. *)
AllTexts == {Cleaned(s) : s \in Seq(Token)}

(* offsetSegments places every segment. *)
Accepted == mode = "accepted" => cues = [i \in 1..Len(segments) |-> Placed(segments[i])]

(* How far the subtitles are. *)
Merging ==
  /\ Sound(Nat \X Nat, AllTexts, ordered, next, merged)
  /\ ordered # <<>> =>
       /\ mode = "accepted"
       /\ \A n \in 1..Len(cues) : \E k \in 1..Len(ordered) : ordered[k] = RawOf(cues[n])

LEMMA StepParses ==
  ASSUME [SubtitlesNext]_<<parserVars, mergeVars>> PROVE [ParserNext]_parserVars
<1>1. WriteSubtitles => UNCHANGED parserVars
  BY DEF WriteSubtitles
<1> QED BY <1>1 DEF SubtitlesNext

LEMMA VerdictIsFinal ==
  ASSUME mode = "accepted" PROVE ~ParserNext
<1>1. ~Parse
  BY DEF Parse, DropEmptyPrefix, SeekStart, ExpectSpeaker, ReadText, AfterEnd, CloseParser, Reads, Parsing
<1>2. ~(TakeForSilence \/ AskForHalves \/ Refuse \/ AcceptSegments)
  BY DEF TakeForSilence, AskForHalves, Refuse, AcceptSegments, Judge
<1> QED BY <1>1, <1>2 DEF ParserNext

LEMMA AcceptedStays ==
  ASSUME Accepted, [ParserNext]_parserVars PROVE Accepted'
<1>1. CASE AcceptSegments
  <2>1. UNCHANGED segments /\ cues' = [i \in 1..Len(segments) |-> Placed(segments[i])]
    BY <1>1 DEF AcceptSegments, Judge
  <2> QED BY <2>1 DEF Accepted, Placed
<1>2. CASE UNCHANGED parserVars
  BY <1>2 DEF parserVars, parser, Accepted, Placed
<1>3. CASE Parse
  <2>1. mode' = mode \/ mode' \in Parsing \/ mode' = "closed"
    BY <1>3 DEF Parse, DropEmptyPrefix, SeekStart, ExpectSpeaker, ReadText, AfterEnd, CloseParser, Seek,
                Parsing
  <2>2. mode # "accepted"
    BY <1>3, VerdictIsFinal DEF ParserNext
  <2> QED BY <2>1, <2>2 DEF Accepted, Parsing
<1>4. CASE TakeForSilence \/ AskForHalves \/ Refuse
  BY <1>4 DEF TakeForSilence, AskForHalves, Refuse, Judge, Accepted
<1> QED BY <1>1, <1>2, <1>3, <1>4 DEF ParserNext

(* What writeSubtitles gives to the merge. *)
LEMMA RawCuesAreRead ==
  ASSUME ParserTypeOK, CuesAreGenerated, NEW s, s = [n \in 1..Len(cues) |-> RawOf(cues[n])]
  PROVE  /\ s \in Seq(CueOf(Nat \X Nat, AllTexts)) /\ Len(s) = Len(cues)
         /\ \A n \in 1..Len(s) : IsRead(s[n]) /\ s[n] = RawOf(cues[n])
<1>1. cues \in Seq(Cue) /\ Len(cues) \in Nat
  BY DEF ParserTypeOK
<1>2. \A n \in 1..Len(cues) : cues[n] \in Cue
  BY <1>1
<1>3. ASSUME NEW c \in Cue PROVE RawOf(c) \in CueOf(Nat \X Nat, AllTexts)
  <2>1. c.start \in Nat /\ c.end \in Nat /\ c.speaker \in Nat \X Nat /\ c.text \in Seq(Token)
    BY DEF Cue
  <2>2. Cleaned(c.text) \in AllTexts
    BY <2>1 DEF AllTexts
  <2> QED BY <2>1, <2>2 DEF RawOf, CueOf
<1>4. ASSUME NEW c, c.start < c.end PROVE IsRead(RawOf(c))
  BY <1>4 DEF RawOf, IsRead
<1>5. \A n \in 1..Len(cues) : cues[n].start < cues[n].end
  BY DEF CuesAreGenerated
<1>6. s \in Seq(CueOf(Nat \X Nat, AllTexts)) /\ Len(s) = Len(cues)
  <2>1. \A n \in 1..Len(cues) : RawOf(cues[n]) \in CueOf(Nat \X Nat, AllTexts)
    BY <1>2, <1>3
  <2> QED BY <1>1, <2>1
<1>7. \A n \in 1..Len(cues) : IsRead(RawOf(cues[n])) /\ s[n] = RawOf(cues[n])
  BY <1>4, <1>5
<1> QED BY <1>6, <1>7

LEMMA MergingStays ==
  ASSUME ParserTypeOK, CuesAreGenerated, Merging, [SubtitlesNext]_<<parserVars, mergeVars>>
  PROVE  Merging'
<1>1. CASE ParserNext /\ UNCHANGED mergeVars
  <2>1. ordered = <<>>
    BY <1>1, VerdictIsFinal DEF Merging
  <2>2. ordered' = <<>> /\ Sound(Nat \X Nat, AllTexts, ordered', next', merged')
    BY <1>1, <2>1 DEF Merging, mergeVars
  <2> QED BY <2>2 DEF Merging
<1>2. CASE WriteSubtitles
  <2>1. PICK s : s = [n \in 1..Len(cues) |-> RawOf(cues[n])]
    OBVIOUS
  <2>2. /\ s \in Seq(CueOf(Nat \X Nat, AllTexts)) /\ Len(s) = Len(cues)
        /\ \A n \in 1..Len(s) : IsRead(s[n]) /\ s[n] = RawOf(cues[n])
    BY <2>1, RawCuesAreRead
  <2>3. /\ mode' = "accepted" /\ cues' = cues
        /\ ordered' = InTime(s) /\ next' = 1 /\ merged' = <<>>
    BY <1>2, <2>1 DEF WriteSubtitles, MergeIdle, parserVars, parser
  <2>4. Sound(Nat \X Nat, AllTexts, ordered', next', merged')
    BY <2>2, <2>3, SortedIsSound
  <2>5. \A n \in 1..Len(cues') : \E k \in 1..Len(ordered') : ordered'[k] = RawOf(cues'[n])
    <3>1. \A n \in 1..Len(s) : \E k \in 1..Len(ordered') : ordered'[k] = s[n]
      <4>1. Sorts(InTime(s), s)
        BY <2>2, InTimeSorts
      <4>2. \A n \in 1..Len(s) : \E k \in 1..Len(InTime(s)) : InTime(s)[k] = s[n]
        BY <4>1 DEF Sorts
      <4> QED BY <2>3, <4>2
    <3>2. \A n \in 1..Len(cues') : n \in 1..Len(s) /\ s[n] = RawOf(cues'[n])
      BY <2>2, <2>3
    <3> QED BY <3>1, <3>2
  <2> QED BY <2>3, <2>4, <2>5 DEF Merging, RawOf
<1>3. CASE MergeNext /\ UNCHANGED parserVars
  <2>1. ordered' = ordered /\ Sound(Nat \X Nat, AllTexts, ordered', next', merged')
    BY <1>3, MergeStepIsSound DEF Merging
  <2>2. mode' = mode /\ cues' = cues
    BY <1>3 DEF parserVars, parser
  <2> QED BY <2>1, <2>2 DEF Merging, RawOf
<1>4. CASE UNCHANGED <<parserVars, mergeVars>>
  BY <1>4 DEF Merging, RawOf, parserVars, parser, mergeVars
<1> QED BY <1>1, <1>2, <1>3, <1>4 DEF SubtitlesNext

(* Words are no annotation, and the cue to write that covers them has their speaker. *)
LEMMA SpeechIsCovered ==
  ASSUME ParserTypeOK, Accepted, OrderlyIsParsed, Merging, Written, Orderly, NEW i \in Spoken
  PROVE  Shown(i)
<1>1. mode = "accepted" /\ ordered # <<>> /\ next > Len(ordered)
  BY DEF Written
<1>2. PICK n \in 1..Len(segments) : segments[n] = SaidAt(i)
  BY <1>1 DEF OrderlyIsParsed, Parsing
<1>3. cues = [j \in 1..Len(segments) |-> Placed(segments[j])]
  BY <1>1 DEF Accepted
<1>4. n \in 1..Len(cues) /\ cues[n] = Placed(SaidAt(i))
  BY <1>2, <1>3 DEF ParserTypeOK
<1>5. PICK k \in 1..Len(ordered) : ordered[k] = RawOf(Placed(SaidAt(i)))
  BY <1>1, <1>4 DEF Merging
<1>6. k \in 1..next - 1
  BY <1>1, SoundIsTyped DEF Merging
<1>7. PICK l \in 1..Len(merged) : Covers(merged[l], ordered[k])
  BY <1>6 DEF Merging, Sound
<1>8. PICK t : t = tokens[i + 2] /\ t.kind = "words"
  BY DEF Spoken
<1>9. Cleaned(<<t>>) = <<t>>
  BY <1>8, WordsAreClean
<1>10. PICK p : p = Placed(SaidAt(i))
  OBVIOUS
<1>11. p.text = <<t>>
  BY <1>8, <1>10 DEF Placed, SaidAt
<1>12. /\ ordered[k].start = p.start /\ ordered[k].end = p.end
       /\ ordered[k].speaker = p.speaker /\ ordered[k].texts = {<<t>>}
  BY <1>5, <1>9, <1>10, <1>11 DEF RawOf
<1>13. <<t>> \notin Notes
  <2>1. <<t>>[1] = t
    OBVIOUS
  <2>2. ~IsAnnotation(<<t>>)
    BY <1>8, <2>1 DEF IsAnnotation
  <2> QED BY <2>2, NotesAreAnnotations
<1>14. ordered[k].texts \cap Notes = {}
  BY <1>12, <1>13
<1>15. /\ merged[l].speaker = p.speaker /\ p.text \in merged[l].texts
       /\ merged[l].start <= p.start /\ p.end <= merged[l].end
  BY <1>7, <1>11, <1>12, <1>14 DEF Covers
<1> QED BY <1>10, <1>15 DEF Shown

LEMMA MergingBegins == SubtitlesInit => ParserInit /\ Accepted /\ Merging
<1> SUFFICES ASSUME SubtitlesInit PROVE Accepted /\ Merging
  BY DEF SubtitlesInit
<1>1. ordered = <<>> /\ next = 1 /\ merged = <<>> /\ mode = "seek_start"
  BY DEF SubtitlesInit, MergeIdle, ParserInit
<1>2. <<>> \in Seq(CueOf(Nat \X Nat, AllTexts)) /\ 1 \in 1..Len(<<>>) + 1
      /\ 1..Len(<<>>) = {} /\ 1..1 - 1 = {}
  OBVIOUS
<1>3. Sound(Nat \X Nat, AllTexts, <<>>, 1, <<>>)
  BY <1>2, Zenon DEF Sound, Sorted
<1> QED BY <1>1, <1>3 DEF Accepted, Merging

(* The parser goes its way alone. *)
LEMMA SubtitlesParse == SubtitlesSpec => ParserSpec
<1>1. SubtitlesInit => ParserInit
  BY DEF SubtitlesInit
<1>2. [SubtitlesNext]_<<parserVars, mergeVars>> => [ParserNext]_parserVars
  BY StepParses
<1> QED BY <1>1, <1>2, PTL DEF SubtitlesSpec, ParserSpec

LEMMA MergingIsInvariant == SubtitlesSpec => [](Accepted /\ Merging)
<1>1. Accepted /\ [SubtitlesNext]_<<parserVars, mergeVars>> => Accepted'
  BY StepParses, AcceptedStays
<1>2. ParserTypeOK /\ CuesAreGenerated /\ Merging /\ [SubtitlesNext]_<<parserVars, mergeVars>>
        => Merging'
  BY MergingStays
<1> QED BY <1>1, <1>2, MergingBegins, SubtitlesParse, ParserTypes, CuesAreAlwaysGenerated, PTL
      DEF SubtitlesSpec

(***************************************************************************)
(* What holds of the merge alone holds of the cues that writeSubtitles     *)
(* gives to it: offsetSegments accepts only cues that take time.           *)
(***************************************************************************)
THEOREM SubtitlesKeepEveryCue == SubtitlesSpec => [](NoCueIsDropped /\ MergesAreJustified)
<1>1. Merging => NoCueIsDropped /\ MergesAreJustified
  BY SoundKeepsPromises DEF Merging
<1> QED BY <1>1, MergingIsInvariant, PTL

(***************************************************************************)
(* From end to end: a text with words is never taken for silence, and if   *)
(* it obeys the grammar, with no segment that ends before it starts, the   *)
(* subtitles show all words, for the time that the model gave them and for *)
(* their own speaker.                                                      *)
(***************************************************************************)
THEOREM SpeechIsAlwaysShown == SubtitlesSpec => []SpeechIsShown
<1>1. ParserTypeOK /\ Accepted /\ OrderlyIsParsed /\ WordsAreNotSilence /\ Merging => SpeechIsShown
  <2>1. WordsAreNotSilence => (mode = "silent" => \A i \in 1..Len(tokens) : tokens[i].kind # "words")
    BY DEF WordsAreNotSilence
  <2> QED BY <2>1, SpeechIsCovered DEF SpeechIsShown
<1> QED BY <1>1, MergingIsInvariant, SubtitlesParse, ParserTypes, OrderlyIsAlwaysParsed,
      WordsAreNeverSilence, PTL
=============================================================================
