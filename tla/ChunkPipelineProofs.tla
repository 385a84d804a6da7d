-------------------------- MODULE ChunkPipelineProofs --------------------------
(***************************************************************************)
(* Theorems about the chunk pipeline, for any number of processes and any  *)
(* audios, settings and answers.                                           *)
(***************************************************************************)
EXTENDS ChunkPipeline, SequenceTheorems, TLAPS

(* What the model has answered of a leaf is complete. *)
Whole(a) == ~a.truncated /\ ~a.error /\ (a.segments = "clean" \/ ~a.words)

Own(leaves, v) ==
  \A i \in 1..Len(leaves) : leaves[i].version = v /\ Whole(leaves[i].answer)

Good(leaves, from, to, v) == Tiles(leaves, from, to) /\ Own(leaves, v)

(* The lengths that can still be halved 4 - depth times. *)
Unit(depth) ==
  IF depth = 0 THEN 16 ELSE IF depth = 1 THEN 8 ELSE IF depth = 2 THEN 4 ELSE IF depth = 3 THEN 2 ELSE 1

Aligned(f) == f.length > 0 /\ f.length % Unit(f.depth) = 0

(* A call that waits has the leaves of its first halves, and the next call is for the half after them. *)
Nested(s, v) ==
  /\ \A i \in 1..Len(s) : Aligned(s[i])
  /\ \A i \in 1..Len(s) - 1 :
       /\ s[i].depth < 4 /\ s[i].halves < 2
       /\ Good(s[i].leaves, s[i].start, s[i].start + s[i].halves * Half(s[i]), v)
       /\ s[i + 1].start = s[i].start + s[i].halves * Half(s[i])
       /\ s[i + 1].length = Half(s[i]) /\ s[i + 1].depth = s[i].depth + 1

Calling == {"chunk", "asking", "formatted", "saving"}

(* The last call has nothing yet, or all of its leaves. *)
TopSound(f, place, v) ==
  IF place = "saving" THEN Good(f.leaves, f.start, f.start + f.length, v)
                      ELSE f.halves = 0 /\ f.leaves = <<>>

Reached(p) == IF start[p] <= TotalOf(p) THEN start[p] ELSE TotalOf(p)

LoopSound(p) ==
  /\ start[p] % 16 = 0
  /\ Good(all[p], 0, Reached(p), version[p])
  /\ at[p] = "completed" => start[p] >= TotalOf(p)

CallsSound(p) ==
  at[p] \in Calling =>
    /\ start[p] < TotalOf(p)
    /\ stack[p] # <<>>
    /\ stack[p][1].start = start[p] /\ stack[p][1].length = NextLength(p)
    /\ Nested(stack[p], version[p])
    /\ TopSound(Top(p), at[p], version[p])

CheckpointsSound ==
  \A c \in saved : Good(c.leaves, c.start, c.start + c.length, c.version)

Sound ==
  /\ TypeOK /\ CheckpointsSound
  /\ \A p \in Processes : LoopSound(p) /\ CallsSound(p)

-----------------------------------------------------------------------------
(* Leaves. *)

LEMMA NoLeaves == ASSUME NEW from, NEW v PROVE Good(<<>>, from, from, v)
  BY DEF Good, Tiles, Own

LEMMA OneLeaf ==
  ASSUME NEW leaf \in Leaf, leaf.start < leaf.end, Whole(leaf.answer)
  PROVE  Good(<<leaf>>, leaf.start, leaf.end, leaf.version)
  BY DEF Good, Tiles, Own

LEMMA Concatenated ==
  ASSUME NEW x \in Nat, NEW y \in Nat, NEW z \in Nat, NEW v,
         NEW a \in Seq(Leaf), NEW b \in Seq(Leaf),
         Good(a, x, y, v), Good(b, y, z, v)
  PROVE  a \o b \in Seq(Leaf) /\ Good(a \o b, x, z, v)
<1> DEFINE c == a \o b
<1>1. /\ c \in Seq(Leaf) /\ Len(c) = Len(a) + Len(b)
      /\ \A i \in 1..Len(a) + Len(b) : c[i] = IF i <= Len(a) THEN a[i] ELSE b[i - Len(a)]
  BY ConcatProperties
<1>2. Len(a) \in Nat /\ Len(b) \in Nat /\ (a = <<>> <=> Len(a) = 0) /\ (b = <<>> <=> Len(b) = 0)
  BY EmptySeq, LenProperties
<1> HIDE DEF c
<1>3. ASSUME NEW i \in 1..Len(c)
      PROVE  \/ i \in 1..Len(a) /\ c[i] = a[i]
             \/ i - Len(a) \in 1..Len(b) /\ c[i] = b[i - Len(a)]
  <2>1. CASE i <= Len(a)
    BY <2>1, <1>1, <1>2
  <2>2. CASE i > Len(a)
    BY <2>2, <1>1, <1>2
  <2> QED BY <2>1, <2>2, <1>2
<1>4. Own(c, v) /\ \A i \in 1..Len(c) : c[i].start < c[i].end
  <2>1. /\ \A j \in 1..Len(a) : a[j].start < a[j].end /\ a[j].version = v /\ Whole(a[j].answer)
        /\ \A j \in 1..Len(b) : b[j].start < b[j].end /\ b[j].version = v /\ Whole(b[j].answer)
    BY DEF Good, Tiles, Own
  <2>2. \A i \in 1..Len(c) : c[i].start < c[i].end /\ c[i].version = v /\ Whole(c[i].answer)
    BY <1>3, <2>1
  <2> QED BY <2>2 DEF Own
<1>5. \A i \in 1..Len(c) - 1 : c[i].end = c[i + 1].start
  <2> SUFFICES ASSUME NEW i \in 1..Len(c) - 1 PROVE c[i].end = c[i + 1].start
    OBVIOUS
  <2>1. CASE i < Len(a)
    <3>1. c[i] = a[i] /\ c[i + 1] = a[i + 1] /\ i \in 1..Len(a) - 1
      BY <2>1, <1>1, <1>2
    <3> QED BY <3>1 DEF Good, Tiles
  <2>2. CASE i = Len(a)
    <3>1. i \in 1..Len(c) /\ i + 1 \in 1..Len(c) /\ (i + 1) - Len(a) = 1 /\ i <= Len(a) /\ ~(i + 1 <= Len(a))
      BY <2>2, <1>1, <1>2
    <3>2. c[i] = a[Len(a)] /\ c[i + 1] = b[1]
      BY <3>1, <2>2, <1>1
    <3>3. a # <<>> /\ b # <<>>
      BY <3>1, <2>2, <1>1, <1>2
    <3> QED BY <3>2, <3>3 DEF Good, Tiles
  <2>3. CASE i > Len(a)
    <3>1. c[i] = b[i - Len(a)] /\ c[i + 1] = b[(i - Len(a)) + 1] /\ i - Len(a) \in 1..Len(b) - 1
      BY <2>3, <1>1, <1>2
    <3> QED BY <3>1 DEF Good, Tiles
  <2> QED BY <2>1, <2>2, <2>3, <1>2
<1>6. c = <<>> => x = z
  <2>1. c = <<>> => a = <<>> /\ b = <<>>
    BY <1>1, <1>2
  <2> QED BY <2>1 DEF Good, Tiles
<1>7. c # <<>> => c[1].start = x /\ c[Len(c)].end = z
  <2> SUFFICES ASSUME c # <<>> PROVE c[1].start = x /\ c[Len(c)].end = z
    OBVIOUS
  <2>1. Len(c) > 0
    BY <1>1, EmptySeq
  <2>2. CASE a = <<>>
    <3>1. c[1] = b[1] /\ c[Len(c)] = b[Len(b)] /\ b # <<>> /\ x = y
      BY <2>1, <2>2, <1>1, <1>2 DEF Good, Tiles
    <3> QED BY <3>1 DEF Good, Tiles
  <2>3. CASE b = <<>>
    <3>1. c[1] = a[1] /\ c[Len(c)] = a[Len(a)] /\ a # <<>> /\ y = z
      BY <2>1, <2>3, <1>1, <1>2 DEF Good, Tiles
    <3> QED BY <3>1 DEF Good, Tiles
  <2>4. CASE a # <<>> /\ b # <<>>
    <3>1. Len(a) > 0 /\ Len(b) > 0 /\ Len(c) = Len(a) + Len(b)
      BY <2>4, <1>1, EmptySeq
    <3>2. c[1] = a[1]
      <4>1. 1 \in 1..Len(a) + Len(b) /\ 1 <= Len(a)
        BY <3>1, <1>2
      <4> QED BY <4>1, <1>1
    <3>3. c[Len(c)] = b[Len(b)]
      <4>1. /\ Len(c) \in 1..Len(a) + Len(b) /\ ~(Len(c) <= Len(a))
            /\ Len(c) - Len(a) = Len(b)
        BY <3>1, <1>2
      <4> QED BY <4>1, <1>1
    <3> QED BY <3>2, <3>3, <2>4 DEF Good, Tiles
  <2> QED BY <2>2, <2>3, <2>4
<1> QED BY <1>1, <1>3, <1>4, <1>5, <1>6, <1>7 DEF Good, Tiles, c
-----------------------------------------------------------------------------
(* Calls. *)

LEMMA Halved ==
  ASSUME NEW f \in Frame, Aligned(f), f.depth < 4
  PROVE  /\ Half(f) \in Nat /\ Half(f) > 0 /\ f.length = Half(f) + Half(f)
         /\ f.depth + 1 \in 0..4 /\ Half(f) % Unit(f.depth + 1) = 0
<1>1. f.length \in Nat /\ f.depth \in 0..4
  BY DEF Frame
<1>2. f.depth = 0 \/ f.depth = 1 \/ f.depth = 2 \/ f.depth = 3
  BY <1>1
<1>3. f.length > 0 /\ f.length % 2 = 0
  BY <1>1, <1>2 DEF Aligned, Unit
<1>4. Half(f) \in Nat /\ Half(f) > 0 /\ f.length = Half(f) + Half(f)
  BY <1>1, <1>3 DEF Half
<1>5. CASE f.depth = 0
  <2>1. f.length % 16 = 0
    BY <1>5 DEF Aligned, Unit
  <2>2. Half(f) % 8 = 0
    BY <2>1, <1>1, <1>4
  <2> QED BY <2>2, <1>4, <1>5 DEF Unit
<1>6. CASE f.depth = 1
  <2>1. f.length % 8 = 0
    BY <1>6 DEF Aligned, Unit
  <2>2. Half(f) % 4 = 0
    BY <2>1, <1>1, <1>4
  <2> QED BY <2>2, <1>4, <1>6 DEF Unit
<1>7. CASE f.depth = 2
  <2>1. f.length % 4 = 0
    BY <1>7 DEF Aligned, Unit
  <2>2. Half(f) % 2 = 0
    BY <2>1, <1>1, <1>4
  <2> QED BY <2>2, <1>4, <1>7 DEF Unit
<1>8. CASE f.depth = 3
  <2>1. Half(f) % 1 = 0
    BY <1>4
  <2> QED BY <2>1, <1>4, <1>8 DEF Unit
<1> QED BY <1>2, <1>5, <1>6, <1>7, <1>8

LEMMA CallSound ==
  ASSUME NEW f \in Frame, Aligned(f), f.depth < 4, NEW from \in Nat
  PROVE  LET g == Call(from, Half(f), f.depth + 1) IN g \in Frame /\ Aligned(g)
  BY Halved, EmptySeq DEF Call, Frame, Aligned

(* The calls up to the k-th, with another frame for it. *)
Replace(s, k, g) == Append(SubSeq(s, 1, k - 1), g)

LEMMA Replaced ==
  ASSUME NEW s \in Seq(Frame), NEW k \in 1..Len(s), NEW g \in Frame
  PROVE  LET r == Replace(s, k, g)
         IN /\ r \in Seq(Frame) /\ Len(r) = k /\ r # <<>> /\ r[k] = g
            /\ \A i \in 1..k - 1 : r[i] = s[i]
<1> DEFINE b == SubSeq(s, 1, k - 1)
<1>1. k \in Nat /\ k > 0 /\ \A i \in 1..k - 1 : s[i] \in Frame
  BY LenProperties, ElementOfSeq
<1>2. b \in Seq(Frame) /\ Len(b) = k - 1 /\ \A i \in 1..k - 1 : b[i] = s[i]
  <2>1. /\ b \in Seq(Frame) /\ Len(b) = (IF 1 <= k - 1 THEN (k - 1) - 1 + 1 ELSE 0)
        /\ \A i \in 1..(k - 1) - 1 + 1 : b[i] = s[1 + i - 1]
    BY <1>1, SubSeqProperties
  <2> QED BY <1>1, <2>1
<1> HIDE DEF b
<1>3. LET r == Append(b, g)
      IN /\ r \in Seq(Frame) /\ Len(r) = k /\ r # <<>> /\ r[k] = g
         /\ \A i \in 1..k - 1 : r[i] = s[i]
  BY <1>1, <1>2, AppendProperties
<1> QED BY <1>3 DEF b, Replace

LEMMA ReplacedNested ==
  ASSUME NEW s \in Seq(Frame), NEW k \in 1..Len(s), NEW g \in Frame, NEW v, Nested(s, v),
         g.start = s[k].start, g.length = s[k].length, g.depth = s[k].depth
  PROVE  Nested(Replace(s, k, g), v)
<1> DEFINE r == Replace(s, k, g)
<1>1. /\ r \in Seq(Frame) /\ Len(r) = k /\ r[k] = g
      /\ \A i \in 1..k - 1 : r[i] = s[i]
  BY Replaced
<1>2. k \in Nat /\ Len(s) \in Nat /\ k <= Len(s) /\ k >= 1
  BY LenProperties
<1> HIDE DEF r
<1>3. ASSUME NEW i \in 1..Len(r) PROVE Aligned(r[i])
  <2>1. Aligned(s[i])
    BY <1>1, <1>2 DEF Nested
  <2> QED BY <2>1, <1>1, <1>2 DEF Aligned
<1>4. ASSUME NEW i \in 1..Len(r) - 1
      PROVE  /\ r[i] = s[i]
             /\ r[i + 1].start = s[i + 1].start /\ r[i + 1].length = s[i + 1].length
             /\ r[i + 1].depth = s[i + 1].depth
             /\ i \in 1..Len(s) - 1
  <2>1. CASE i + 1 = k
    BY <2>1, <1>1, <1>2
  <2>2. CASE i + 1 < k
    BY <2>2, <1>1, <1>2
  <2> QED BY <2>1, <2>2, <1>1, <1>2
<1>5. Nested(r, v)
  BY <1>3, <1>4 DEF Nested
<1> QED BY <1>5 DEF r

LEMMA Pushed ==
  ASSUME NEW s \in Seq(Frame), s # <<>>, NEW v, Nested(s, v),
         NEW f, f = s[Len(s)], f.depth < 4, f.halves < 2,
         Good(f.leaves, f.start, f.start + f.halves * Half(f), v)
  PROVE  LET g == Call(f.start + f.halves * Half(f), Half(f), f.depth + 1)
             r == Append(s, g)
         IN /\ r \in Seq(Frame) /\ r # <<>> /\ r[1] = s[1] /\ r[Len(r)] = g
            /\ Nested(r, v)
<1> DEFINE n == Len(s)
           from == f.start + f.halves * Half(f)
           g == Call(from, Half(f), f.depth + 1)
           r == Append(s, g)
<1>1. n \in Nat /\ n > 0
  BY EmptySeq
<1>2. f \in Frame /\ Aligned(f)
  BY <1>1, ElementOfSeq DEF Nested
<1>3. from \in Nat
  <2>1. f.start \in Nat /\ (f.halves = 0 \/ f.halves = 1) /\ Half(f) \in Nat
    BY <1>2, Halved DEF Frame
  <2> QED BY <2>1
<1>4. g \in Frame /\ Aligned(g)
  BY <1>2, <1>3, CallSound
<1>5. g.start = from /\ g.length = Half(f) /\ g.depth = f.depth + 1
  BY DEF Call
<1> HIDE DEF g, from
<1>6. /\ r \in Seq(Frame) /\ r # <<>> /\ Len(r) = n + 1 /\ r[n + 1] = g
      /\ \A i \in 1..n : r[i] = s[i]
  BY <1>4, AppendProperties
<1> HIDE DEF r
<1>7. Nested(r, v)
  <2>1. ASSUME NEW i \in 1..Len(r) PROVE Aligned(r[i])
    <3>1. CASE i = n + 1
      BY <3>1, <1>4, <1>6
    <3>2. CASE i <= n
      BY <3>2, <1>1, <1>6 DEF Nested
    <3> QED BY <3>1, <3>2, <1>1, <1>6
  <2>2. ASSUME NEW i \in 1..Len(r) - 1
        PROVE  /\ r[i].depth < 4 /\ r[i].halves < 2
               /\ Good(r[i].leaves, r[i].start, r[i].start + r[i].halves * Half(r[i]), v)
               /\ r[i + 1].start = r[i].start + r[i].halves * Half(r[i])
               /\ r[i + 1].length = Half(r[i]) /\ r[i + 1].depth = r[i].depth + 1
    <3>1. CASE i = n
      <4>1. r[i] = f /\ r[i + 1] = g
        BY <3>1, <1>1, <1>6
      <4> QED BY <4>1, <1>5 DEF from
    <3>2. CASE i < n
      <4>1. r[i] = s[i] /\ r[i + 1] = s[i + 1] /\ i \in 1..Len(s) - 1
        BY <3>2, <1>1, <1>6
      <4> QED BY <4>1 DEF Nested
    <3> QED BY <3>1, <3>2, <1>1, <1>6
  <2> QED BY <2>1, <2>2 DEF Nested
<1>8. r[1] = s[1] /\ r[Len(r)] = g
  BY <1>1, <1>6
<1> QED BY <1>6, <1>7, <1>8 DEF r, g, from

-----------------------------------------------------------------------------
(* Steps. *)

Others(p) ==
  \A q \in Processes \ {p} :
    /\ at'[q] = at[q] /\ version'[q] = version[q] /\ start'[q] = start[q]
    /\ all'[q] = all[q] /\ stack'[q] = stack[q]

TypesOfProcesses ==
  /\ at \in [Processes -> Ended \cup {"loop", "chunk", "asking", "formatted", "saving"}]
  /\ version \in [Processes -> Versions]
  /\ start \in [Processes -> Nat]
  /\ all \in [Processes -> Seq(Leaf)]
  /\ stack \in [Processes -> Seq(Frame)]

LEMMA Times ==
  ASSUME TypeOK, NEW p \in Processes
  PROVE  /\ TotalOf(p) \in Nat /\ TotalOf(p) > 0 /\ TotalOf(p) % 16 = 0
         /\ ChunkOf(p) \in Nat /\ ChunkOf(p) > 0 /\ ChunkOf(p) % 16 = 0
         /\ start[p] \in Nat
  BY TimesAssumption DEF TypeOK, TotalOf, ChunkOf, Versions

LEMMA SumOfMultiples ==
  ASSUME NEW a \in Nat, NEW b \in Nat, a % 16 = 0, b % 16 = 0 PROVE (a + b) % 16 = 0
OBVIOUS

LEMMA NextLengths ==
  ASSUME TypeOK, NEW p \in Processes, start[p] < TotalOf(p), start[p] % 16 = 0
  PROVE  NextLength(p) \in Nat /\ NextLength(p) > 0 /\ NextLength(p) % 16 = 0
<1>1. /\ TotalOf(p) \in Nat /\ TotalOf(p) % 16 = 0 /\ start[p] \in Nat
      /\ ChunkOf(p) \in Nat /\ ChunkOf(p) > 0 /\ ChunkOf(p) % 16 = 0
  BY Times
<1>2. (TotalOf(p) - start[p]) % 16 = 0 /\ TotalOf(p) - start[p] \in Nat /\ TotalOf(p) - start[p] > 0
  BY <1>1
<1> QED BY <1>1, <1>2 DEF NextLength

(* The last call, with what is known of it. *)
LEMMA TopKnown ==
  ASSUME Sound, NEW p \in Processes, at[p] \in Calling
  PROVE  /\ Len(stack[p]) \in Nat /\ Len(stack[p]) >= 1 /\ stack[p] \in Seq(Frame)
         /\ Top(p) \in Frame /\ Aligned(Top(p))
         /\ version[p] \in Versions
<1>1. stack[p] \in Seq(Frame) /\ stack[p] # <<>> /\ Nested(stack[p], version[p])
  BY DEF Sound, TypeOK, CallsSound
<1>2. Len(stack[p]) \in Nat /\ Len(stack[p]) >= 1
  BY <1>1, EmptySeq
<1> QED BY <1>1, <1>2, ElementOfSeq DEF Top, Nested, Sound, TypeOK

(* Other processes are not disturbed. *)
LEMMA OthersKeep ==
  ASSUME NEW p \in Processes, Others(p), NEW q \in Processes, q # p, LoopSound(q), CallsSound(q)
  PROVE  LoopSound(q)' /\ CallsSound(q)'
<1>1. /\ at'[q] = at[q] /\ version'[q] = version[q] /\ start'[q] = start[q]
      /\ all'[q] = all[q] /\ stack'[q] = stack[q]
  BY DEF Others
<1>2. TotalOf(q)' = TotalOf(q) /\ ChunkOf(q)' = ChunkOf(q)
  BY <1>1 DEF TotalOf, ChunkOf
<1>3. NextLength(q)' = NextLength(q) /\ Reached(q)' = Reached(q) /\ Top(q)' = Top(q)
  BY <1>1, <1>2 DEF NextLength, Reached, Top
<1> QED BY <1>1, <1>2, <1>3 DEF LoopSound, CallsSound

LEMMA ReturnsToLoop ==
  ASSUME Sound, NEW p \in Processes, NEW leaves \in Seq(Leaf), at[p] \in Calling,
         Good(leaves, Top(p).start, Top(p).start + Top(p).length, version[p]),
         ReturnToLoop(p, leaves), version' = version
  PROVE  TypesOfProcesses' /\ LoopSound(p)' /\ CallsSound(p)' /\ Others(p)
<1>1. TypesOfProcesses /\ TypeOK /\ LoopSound(p) /\ CallsSound(p)
  BY DEF Sound, TypeOK, TypesOfProcesses
<1>2. /\ TotalOf(p) \in Nat /\ ChunkOf(p) \in Nat /\ ChunkOf(p) > 0 /\ ChunkOf(p) % 16 = 0 /\ start[p] \in Nat
      /\ start[p] < TotalOf(p) /\ start[p] % 16 = 0
  BY <1>1, Times DEF CallsSound, LoopSound
<1>3. Top(p).start = start[p] /\ Top(p).length = NextLength(p)
  BY <1>1 DEF ReturnToLoop, CallsSound, Top
<1>4. NextLength(p) \in Nat
  BY <1>1, <1>2, NextLengths
<1>5. all[p] \in Seq(Leaf) /\ Good(all[p], 0, start[p], version[p])
  BY <1>1, <1>2 DEF LoopSound, Reached, TypesOfProcesses
<1>6. all[p] \o leaves \in Seq(Leaf) /\ Good(all[p] \o leaves, 0, start[p] + NextLength(p), version[p])
  BY <1>2, <1>3, <1>4, <1>5, Concatenated
<1>7. /\ at'[p] = "loop" /\ start'[p] = start[p] + ChunkOf(p) /\ all'[p] = all[p] \o leaves
      /\ version'[p] = version[p]
  BY <1>1 DEF ReturnToLoop, TypesOfProcesses
<1>8. Others(p)
  BY <1>1 DEF ReturnToLoop, TypesOfProcesses, Others
<1>9. TypesOfProcesses'
  <2>1. <<>> \in Seq(Frame)
    BY EmptySeq
  <2> QED BY <2>1, <1>1, <1>2, <1>6 DEF ReturnToLoop, TypesOfProcesses
<1>10. Reached(p)' = start[p] + NextLength(p)
  <2>1. TotalOf(p)' = TotalOf(p)
    BY <1>7 DEF TotalOf
  <2> QED BY <2>1, <1>2, <1>7 DEF Reached, NextLength
<1>11. (start[p] + ChunkOf(p)) % 16 = 0
  BY <1>2, SumOfMultiples
<1>12. LoopSound(p)'
  BY <1>6, <1>7, <1>10, <1>11 DEF LoopSound
<1>13. CallsSound(p)'
  BY <1>7 DEF CallsSound, Calling
<1> QED BY <1>8, <1>9, <1>12, <1>13

(* Steps that change only the place and the calls of a process. *)
LEMMA OnlyCalls ==
  ASSUME Sound, NEW p \in Processes, UNCHANGED <<version, start, all>>,
         NEW place \in Ended \cup {"loop"} \cup Calling, NEW s \in Seq(Frame),
         at' = [at EXCEPT ![p] = place], stack' = [stack EXCEPT ![p] = s],
         place = "completed" => start[p] >= TotalOf(p),
         place \in Calling =>
           /\ start[p] < TotalOf(p) /\ s # <<>>
           /\ s[1].start = start[p] /\ s[1].length = NextLength(p)
           /\ Nested(s, version[p]) /\ TopSound(s[Len(s)], place, version[p])
  PROVE  TypesOfProcesses' /\ LoopSound(p)' /\ CallsSound(p)' /\ Others(p)
<1>1. TypesOfProcesses /\ LoopSound(p)
  BY DEF Sound, TypeOK, TypesOfProcesses
<1>2. TypesOfProcesses'
  BY <1>1 DEF TypesOfProcesses, Calling
<1>3. at'[p] = place /\ stack'[p] = s /\ Top(p)' = s[Len(s)]
  BY <1>1 DEF TypesOfProcesses, Top
<1>4. TotalOf(p)' = TotalOf(p) /\ NextLength(p)' = NextLength(p) /\ Reached(p)' = Reached(p)
  BY DEF TotalOf, ChunkOf, NextLength, Reached
<1>5. LoopSound(p)' /\ CallsSound(p)'
  BY <1>1, <1>3, <1>4 DEF LoopSound, CallsSound
<1>6. Others(p)
  BY <1>1 DEF Others, TypesOfProcesses
<1> QED BY <1>2, <1>5, <1>6

(* Another frame for a call that has the same audio: the first call stays the loop's. *)
LEMMA ReplacedFirst ==
  ASSUME NEW s \in Seq(Frame), NEW k \in 1..Len(s), NEW g \in Frame,
         g.start = s[k].start, g.length = s[k].length
  PROVE  LET r == Replace(s, k, g) IN r[1].start = s[1].start /\ r[1].length = s[1].length
<1>1. k \in Nat /\ k >= 1
  BY LenProperties
<1>2. CASE k = 1
  BY <1>2, Replaced
<1>3. CASE k > 1
  BY <1>1, <1>3, Replaced
<1> QED BY <1>1, <1>2, <1>3

LEMMA JoinedFrame ==
  ASSUME NEW e \in Frame, NEW leaves, e.halves = 0 \/ e.halves = 1,
         e.leaves \o leaves \in Seq(Leaf)
  PROVE  LET f == Joined(e, leaves)
         IN /\ f \in Frame /\ f.start = e.start /\ f.length = e.length /\ f.depth = e.depth
            /\ f.halves = e.halves + 1 /\ f.leaves = e.leaves \o leaves /\ Half(f) = Half(e)
<1> DEFINE f == Joined(e, leaves)
<1>1. /\ f.start = e.start /\ f.length = e.length /\ f.depth = e.depth
      /\ f.halves = e.halves + 1 /\ f.leaves = e.leaves \o leaves
  BY DEF Joined, Frame
<1>2. ASSUME NEW y \in Seq(Leaf), NEW h \in 0..2
      PROVE  [e EXCEPT !.leaves = y, !.halves = h] \in Frame
  BY DEF Frame
<1>3. f = [e EXCEPT !.leaves = e.leaves \o leaves, !.halves = e.halves + 1]
  BY DEF Joined, Frame
<1>4. e.halves + 1 \in 0..2
  OBVIOUS
<1>5. f \in Frame
  BY <1>2, <1>3, <1>4
<1> HIDE DEF f
<1> QED BY <1>1, <1>5 DEF f, Half

LEMMA ReturnsToSplit ==
  ASSUME Sound, NEW p \in Processes, NEW leaves \in Seq(Leaf), at[p] \in Calling,
         Good(leaves, Top(p).start, Top(p).start + Top(p).length, version[p]),
         ReturnToSplit(p, leaves), version' = version
  PROVE  TypesOfProcesses' /\ LoopSound(p)' /\ CallsSound(p)' /\ Others(p)
<1>0. PICK n : n = Len(stack[p]) - 1
  OBVIOUS
<1> DEFINE e == stack[p][n]
           f == Joined(e, leaves)
           r == Replace(stack[p], n, f)
           v == version[p]
<1>1. /\ n \in 1..Len(stack[p]) /\ n \in 1..Len(stack[p]) - 1 /\ stack[p] \in Seq(Frame)
      /\ n \in Nat
  BY <1>0, TopKnown DEF ReturnToSplit
<1>2. /\ e \in Frame /\ Aligned(e) /\ e.depth < 4 /\ e.halves < 2
      /\ Good(e.leaves, e.start, e.start + e.halves * Half(e), v)
      /\ Top(p).start = e.start + e.halves * Half(e) /\ Top(p).length = Half(e)
  <2>1. Nested(stack[p], v)
    BY DEF Sound, CallsSound
  <2>2. stack[p][n + 1] = Top(p)
    BY <1>0, <1>1, TopKnown DEF Top
  <2> QED BY <2>1, <2>2, <1>1, ElementOfSeq DEF Nested
<1>3. /\ e.start \in Nat /\ e.leaves \in Seq(Leaf) /\ (e.halves = 0 \/ e.halves = 1)
      /\ e.length = Half(e) + Half(e) /\ Half(e) \in Nat
  BY <1>2, Halved DEF Frame
<1>4. /\ e.leaves \o leaves \in Seq(Leaf)
      /\ Good(e.leaves \o leaves, e.start, e.start + e.halves * Half(e) + Half(e), v)
  <2>1. e.start + e.halves * Half(e) \in Nat /\ e.start + e.halves * Half(e) + Half(e) \in Nat
    BY <1>3
  <2> QED BY <2>1, <1>2, <1>3, Concatenated
<1>5. /\ f \in Frame /\ f.start = e.start /\ f.length = e.length /\ f.depth = e.depth
      /\ f.halves = e.halves + 1 /\ f.leaves = e.leaves \o leaves /\ Half(f) = Half(e)
  BY <1>2, <1>3, <1>4, JoinedFrame
<1>6. /\ r \in Seq(Frame) /\ r # <<>> /\ Len(r) = n /\ r[n] = f /\ Nested(r, v)
      /\ r[1].start = stack[p][1].start /\ r[1].length = stack[p][1].length
  <2>1. Nested(stack[p], v)
    BY DEF Sound, CallsSound
  <2> HIDE DEF f
  <2>2. r \in Seq(Frame) /\ r # <<>> /\ Len(r) = n /\ r[n] = f
    <3> HIDE DEF r
    <3>1. r = Replace(stack[p], n, f)
      BY DEF r
    <3>2. stack[p] \in Seq(Frame) /\ n \in 1..Len(stack[p]) /\ f \in Frame
      BY <1>1, <1>5
    <3> QED BY <3>1, <3>2, Replaced
  <2>3. Nested(r, v)
    BY <2>1, <1>1, <1>5, ReplacedNested
  <2>4. r[1].start = stack[p][1].start /\ r[1].length = stack[p][1].length
    BY <1>1, <1>5, ReplacedFirst
  <2> QED BY <2>2, <2>3, <2>4
<1>7. /\ start[p] < TotalOf(p) /\ stack[p][1].start = start[p] /\ stack[p][1].length = NextLength(p)
  BY DEF Sound, CallsSound
<1>8. /\ Len(stack[p]) - 1 = n /\ Append(SubSeq(stack[p], 1, n - 1), f) = r
      /\ UNCHANGED <<version, start, all>>
  BY <1>0 DEF Replace, ReturnToSplit
<1>9. CASE f.halves = 1
  <2> DEFINE g == Call(f.start + Half(f), Half(f), f.depth + 1)
             s == Append(r, g)
  <2>1. at' = [at EXCEPT ![p] = "chunk"] /\ stack' = [stack EXCEPT ![p] = s]
    BY <1>8, <1>9 DEF ReturnToSplit
  <2>2. f.halves * Half(f) = Half(f) /\ f.depth < 4 /\ f = r[Len(r)]
    <3> HIDE DEF f, r
    <3>1. f.halves = 1 /\ Half(f) \in Nat
      BY <1>3, <1>5, <1>9
    <3>2. f.depth < 4 /\ f = r[Len(r)]
      BY <1>2, <1>5, <1>6
    <3> QED BY <3>1, <3>2
  <2>3. Good(f.leaves, f.start, f.start + f.halves * Half(f), v)
    <3>1. e.start + e.halves * Half(e) + Half(e) = f.start + f.halves * Half(f)
      <4> HIDE DEF f, e
      <4> QED BY <1>3, <1>5, <1>9
    <3> QED BY <3>1, <1>4, <1>5
  <2>4. s \in Seq(Frame) /\ s # <<>> /\ s[1] = r[1] /\ s[Len(s)] = g /\ Nested(s, v)
    <3> HIDE DEF r, f
    <3>1. f.halves < 2
      BY <1>9
    <3> QED BY <1>6, <2>2, <2>3, <3>1, Pushed
  <2>5. TopSound(g, "chunk", v)
    BY DEF TopSound, Call
  <2> HIDE DEF s, g, r, f
  <2> QED BY <1>6, <1>7, <1>8, <2>1, <2>4, <2>5, OnlyCalls DEF Calling
<1>10. CASE f.halves # 1
  <2>1. at' = [at EXCEPT ![p] = "saving"] /\ stack' = [stack EXCEPT ![p] = r]
    BY <1>8, <1>10 DEF ReturnToSplit
  <2>2. TopSound(f, "saving", v)
    <3>1. e.halves = 1
      BY <1>3, <1>5, <1>10
    <3>2. e.start + e.halves * Half(e) + Half(e) = f.start + f.length
      BY <1>3, <1>5, <3>1
    <3> QED BY <3>2, <1>4, <1>5 DEF TopSound
  <2> HIDE DEF r, f
  <2> QED BY <1>6, <1>7, <1>8, <2>1, <2>2, OnlyCalls DEF Calling
<1> QED BY <1>9, <1>10

LEMMA Assembled ==
  ASSUME Sound, NEW p \in Processes, TypesOfProcesses', LoopSound(p)', CallsSound(p)', Others(p),
         saved' \subseteq Checkpoint, CheckpointsSound', runs' \in 0..MaxRuns
  PROVE  Sound'
<1>1. \A q \in Processes : LoopSound(q)' /\ CallsSound(q)'
  BY OthersKeep DEF Sound
<1> QED BY <1>1 DEF Sound, TypeOK, TypesOfProcesses

(* A process that only moves, with its calls as they are. *)
LEMMA Moves ==
  ASSUME Sound, NEW p \in Processes, UNCHANGED <<saved, version, start, all, stack, runs>>,
         NEW place \in Ended \cup {"loop"} \cup Calling, at' = [at EXCEPT ![p] = place],
         place = "completed" => start[p] >= TotalOf(p),
         place \in Calling => at[p] \in Calling \ {"saving"} /\ place # "saving"
  PROVE  Sound'
<1>1. stack[p] \in Seq(Frame) /\ stack' = [stack EXCEPT ![p] = stack[p]]
  BY DEF Sound, TypeOK
<1>2. place \in Calling =>
        /\ start[p] < TotalOf(p) /\ stack[p] # <<>>
        /\ stack[p][1].start = start[p] /\ stack[p][1].length = NextLength(p)
        /\ Nested(stack[p], version[p]) /\ TopSound(stack[p][Len(stack[p])], place, version[p])
  BY DEF Sound, CallsSound, TopSound, Top
<1>3. TypesOfProcesses' /\ LoopSound(p)' /\ CallsSound(p)' /\ Others(p)
  BY <1>1, <1>2, OnlyCalls
<1>4. saved' \subseteq Checkpoint /\ CheckpointsSound' /\ runs' \in 0..MaxRuns
  BY DEF Sound, TypeOK, CheckpointsSound
<1> QED BY <1>3, <1>4, Assembled

LEMMA BeginSound == ASSUME Sound, NEW p \in Processes, Begin(p) PROVE Sound'
<1>1. TypesOfProcesses /\ runs \in 0..MaxRuns /\ saved \subseteq Checkpoint /\ CheckpointsSound
  BY DEF Sound, TypeOK, TypesOfProcesses
<1>2. PICK v \in Versions : version' = [version EXCEPT ![p] = v]
  BY DEF Begin
<1>3. TypesOfProcesses'
  BY <1>1, <1>2, EmptySeq DEF Begin, TypesOfProcesses
<1>4. at'[p] = "loop" /\ start'[p] = 0 /\ all'[p] = <<>> /\ version'[p] = v
  BY <1>1, <1>2 DEF Begin, TypesOfProcesses
<1>5. LoopSound(p)' /\ CallsSound(p)'
  <2>1. TotalOf(p)' \in Nat
    BY <1>4, TimesAssumption DEF TotalOf, Versions
  <2>2. Reached(p)' = 0 /\ Good(<<>>, 0, 0, v)
    BY <2>1, <1>4, NoLeaves DEF Reached
  <2> QED BY <2>2, <1>4 DEF LoopSound, CallsSound, Calling
<1>6. Others(p)
  BY <1>1, <1>2 DEF Begin, Others, TypesOfProcesses
<1>7. runs' \in 0..MaxRuns /\ saved' \subseteq Checkpoint /\ CheckpointsSound'
  BY <1>1, RunsAssumption DEF Begin, CheckpointsSound
<1> QED BY <1>3, <1>5, <1>6, <1>7, Assembled

LEMMA NextChunkSound == ASSUME Sound, NEW p \in Processes, NextChunk(p) PROVE Sound'
<1> DEFINE g == Call(start[p], NextLength(p), 0)
<1>1. start[p] < TotalOf(p) /\ start[p] \in Nat /\ start[p] % 16 = 0
  BY Times DEF NextChunk, Sound, LoopSound
<1>2. NextLength(p) \in Nat /\ NextLength(p) > 0 /\ NextLength(p) % 16 = 0
  BY <1>1, NextLengths DEF Sound
<1>3. /\ g \in Frame /\ Aligned(g) /\ g.start = start[p] /\ g.length = NextLength(p)
      /\ TopSound(g, "chunk", version[p])
  BY <1>1, <1>2, EmptySeq DEF Call, Frame, Aligned, Unit, TopSound
<1>4. at' = [at EXCEPT ![p] = "chunk"] /\ stack' = [stack EXCEPT ![p] = <<g>>]
  BY DEF NextChunk, Go
<1>5. UNCHANGED <<saved, version, start, all, runs>>
  BY DEF NextChunk
<1> HIDE DEF g
<1>6. /\ <<g>> \in Seq(Frame) /\ <<g>> # <<>> /\ <<g>>[1] = g /\ <<g>>[Len(<<g>>)] = g
      /\ Nested(<<g>>, version[p])
  BY <1>3 DEF Nested
<1>7. TypesOfProcesses' /\ LoopSound(p)' /\ CallsSound(p)' /\ Others(p)
  BY <1>1, <1>3, <1>4, <1>5, <1>6, OnlyCalls DEF Calling
<1>8. saved' \subseteq Checkpoint /\ CheckpointsSound' /\ runs' \in 0..MaxRuns
  BY <1>5 DEF Sound, TypeOK, CheckpointsSound
<1> QED BY <1>7, <1>8, Assembled

LEMMA ReturnSound ==
  ASSUME Sound, NEW p \in Processes, NEW leaves \in Seq(Leaf), at[p] \in Calling,
         Good(leaves, Top(p).start, Top(p).start + Top(p).length, version[p]),
         Return(p, leaves), UNCHANGED <<version, runs>>,
         saved' \subseteq Checkpoint, CheckpointsSound'
  PROVE  Sound'
<1>1. TypesOfProcesses' /\ LoopSound(p)' /\ CallsSound(p)' /\ Others(p)
  BY ReturnsToLoop, ReturnsToSplit DEF Return
<1> QED BY <1>1, Assembled DEF Sound, TypeOK

LEMMA ReuseSound == ASSUME Sound, NEW p \in Processes, Reuse(p) PROVE Sound'
<1>1. PICK c \in saved : Fits(p, c) /\ Return(p, c.leaves)
  BY DEF Reuse
<1>2. c.leaves \in Seq(Leaf) /\ Good(c.leaves, c.start, c.start + c.length, c.version)
  BY DEF Sound, TypeOK, CheckpointsSound, Checkpoint
<1>3. c.version = version[p] /\ c.start = Top(p).start /\ c.length = Top(p).length
  BY <1>1 DEF Fits, SameFingerprint
<1>4. at[p] \in Calling /\ UNCHANGED <<saved, version, runs>>
  BY DEF Reuse, Calling
<1>5. saved' \subseteq Checkpoint /\ CheckpointsSound'
  BY <1>4 DEF Sound, TypeOK, CheckpointsSound
<1> QED BY <1>1, <1>2, <1>3, <1>4, <1>5, ReturnSound

LEMMA SaveSound == ASSUME Sound, NEW p \in Processes, Save(p) PROVE Sound'
<1> DEFINE c == [version |-> version[p], start |-> Top(p).start, length |-> Top(p).length,
                 leaves |-> Top(p).leaves]
<1>1. at[p] = "saving" /\ at[p] \in Calling /\ UNCHANGED <<version, runs>> /\ Return(p, Top(p).leaves)
  BY DEF Save, Calling
<1>2. /\ Top(p) \in Frame /\ version[p] \in Versions
      /\ Good(Top(p).leaves, Top(p).start, Top(p).start + Top(p).length, version[p])
  BY <1>1, TopKnown DEF Sound, CallsSound, TopSound
<1>3. c \in Checkpoint /\ Top(p).leaves \in Seq(Leaf)
  BY <1>2 DEF Checkpoint, Frame
<1>4. saved' \subseteq saved \cup {c}
  BY DEF Save
<1>5. saved' \subseteq Checkpoint
  BY <1>3, <1>4 DEF Sound, TypeOK
<1>6. Good(c.leaves, c.start, c.start + c.length, c.version)
  BY <1>2
<1> HIDE DEF c
<1>7. CheckpointsSound'
  BY <1>4, <1>6 DEF Sound, CheckpointsSound
<1> QED BY <1>1, <1>2, <1>3, <1>5, <1>7, ReturnSound

LEMMA AcceptedIsWhole == ASSUME NEW a \in Answer, Accepts(a) PROVE Whole(a)
  BY DEF Answer, Accepts, Silent, Retries, Looping, Unparsed, Whole

LEMMA AcceptSound == ASSUME Sound, NEW p \in Processes, NEW a \in Answers, Accept(p, a) PROVE Sound'
<1> DEFINE f == Top(p)
           leaf == [start |-> f.start, end |-> f.start + f.length, version |-> version[p], answer |-> a]
           g == [f EXCEPT !.leaves = <<leaf>>]
           k == Len(stack[p])
<1>1. /\ at[p] \in Calling /\ k \in 1..Len(stack[p]) /\ stack[p] \in Seq(Frame)
      /\ f \in Frame /\ Aligned(f) /\ version[p] \in Versions /\ stack[p][k] = f
  BY TopKnown DEF Accept, Hears, Calling, Top
<1>2. f.start \in Nat /\ f.length \in Nat /\ f.length > 0
  BY <1>1 DEF Frame, Aligned
<1>3. a \in Answer /\ Whole(a)
  BY AnswersAssumption, AcceptedIsWhole DEF Accept
<1>4. leaf \in Leaf /\ <<leaf>> \in Seq(Leaf)
  BY <1>1, <1>2, <1>3 DEF Leaf
<1>5. Good(<<leaf>>, f.start, f.start + f.length, version[p])
  BY <1>2, <1>3, <1>4, OneLeaf
<1>6. g \in Frame /\ g.start = f.start /\ g.length = f.length /\ g.depth = f.depth /\ g.leaves = <<leaf>>
  <2> HIDE DEF leaf, f
  <2> QED BY <1>1, <1>4 DEF Frame
<1>7. at' = [at EXCEPT ![p] = "saving"] /\ stack' = [stack EXCEPT ![p] = Replace(stack[p], k, g)]
  BY DEF Accept, Callers, Replace
<1>8. UNCHANGED <<saved, version, start, all, runs>>
  BY DEF Accept
<1> HIDE DEF g, leaf, f
<1>9. /\ start[p] < TotalOf(p) /\ Nested(stack[p], version[p])
      /\ stack[p][1].start = start[p] /\ stack[p][1].length = NextLength(p)
  BY <1>1 DEF Sound, CallsSound
<1>10. LET r == Replace(stack[p], k, g)
       IN /\ r \in Seq(Frame) /\ r # <<>> /\ r[Len(r)] = g /\ Nested(r, version[p])
          /\ r[1].start = start[p] /\ r[1].length = NextLength(p)
  <2> DEFINE r == Replace(stack[p], k, g)
  <2>1. /\ k \in 1..Len(stack[p]) /\ stack[p] \in Seq(Frame) /\ g \in Frame
        /\ g.start = stack[p][k].start /\ g.length = stack[p][k].length /\ g.depth = stack[p][k].depth
    BY <1>1, <1>6
  <2> HIDE DEF k
  <2>2. r \in Seq(Frame) /\ r # <<>> /\ Len(r) = k /\ r[k] = g
    BY <2>1, Replaced
  <2>3. Nested(r, version[p])
    BY <2>1, <1>9, ReplacedNested
  <2>4. r[1].start = start[p] /\ r[1].length = NextLength(p)
    BY <2>1, <1>9, ReplacedFirst
  <2> HIDE DEF r
  <2>5. r[Len(r)] = g
    BY <2>2
  <2> QED BY <2>2, <2>3, <2>4, <2>5 DEF r
<1>11. TopSound(g, "saving", version[p])
  BY <1>5, <1>6 DEF TopSound
<1>12. TypesOfProcesses' /\ LoopSound(p)' /\ CallsSound(p)' /\ Others(p)
  BY <1>7, <1>8, <1>9, <1>10, <1>11, OnlyCalls DEF Calling
<1>13. saved' \subseteq Checkpoint /\ CheckpointsSound' /\ runs' \in 0..MaxRuns
  BY <1>8 DEF Sound, TypeOK, CheckpointsSound
<1> QED BY <1>12, <1>13, Assembled

LEMMA SplitSound == ASSUME Sound, NEW p \in Processes, NEW a \in Answers, Split(p, a) PROVE Sound'
<1> DEFINE f == Top(p)
           g == Call(f.start, Half(f), f.depth + 1)
           v == version[p]
<1>1. /\ at[p] \in Calling /\ at[p] # "saving" /\ stack[p] \in Seq(Frame) /\ f \in Frame
      /\ stack[p] # <<>> /\ f = stack[p][Len(stack[p])] /\ Aligned(f) /\ f.depth \in 0..4
  BY TopKnown DEF Split, Hears, Calling, Top, Frame, Sound, CallsSound
<1>2. f.halves = 0 /\ f.leaves = <<>> /\ f.depth < 4
  BY <1>1 DEF Sound, CallsSound, TopSound, Split, MaySplit
<1>3. f.start \in Nat /\ Half(f) \in Nat
  BY <1>1, <1>2, Halved DEF Frame
<1>4. f.start + f.halves * Half(f) = f.start
  BY <1>2, <1>3
<1>5. Good(f.leaves, f.start, f.start + f.halves * Half(f), v)
  BY <1>2, <1>4, NoLeaves
<1>6. at' = [at EXCEPT ![p] = "chunk"] /\ stack' = [stack EXCEPT ![p] = Append(stack[p], g)]
  BY DEF Split, Sound, TypeOK
<1>7. UNCHANGED <<saved, version, start, all, runs>>
  BY DEF Split
<1>8. /\ start[p] < TotalOf(p) /\ Nested(stack[p], v)
      /\ stack[p][1].start = start[p] /\ stack[p][1].length = NextLength(p)
  BY <1>1 DEF Sound, CallsSound
<1>9. LET r == Append(stack[p], g)
      IN /\ r \in Seq(Frame) /\ r # <<>> /\ r[Len(r)] = g /\ Nested(r, v) /\ r[1] = stack[p][1]
  <2> HIDE DEF f
  <2>1. f.halves < 2
    BY <1>2
  <2> QED BY <1>1, <1>2, <1>4, <1>5, <1>8, <2>1, Pushed
<1>10. TopSound(g, "chunk", v)
  BY DEF TopSound, Call
<1> HIDE DEF g, f
<1>11. TypesOfProcesses' /\ LoopSound(p)' /\ CallsSound(p)' /\ Others(p)
  BY <1>6, <1>7, <1>8, <1>9, <1>10, OnlyCalls DEF Calling
<1>12. saved' \subseteq Checkpoint /\ CheckpointsSound' /\ runs' \in 0..MaxRuns
  BY <1>7 DEF Sound, TypeOK, CheckpointsSound
<1> QED BY <1>11, <1>12, Assembled

LEMMA HearSound == ASSUME Sound, NEW p \in Processes, Hear(p) PROVE Sound'
<1>1. PICK a \in Answers : Reformat(p, a) \/ Accept(p, a) \/ Split(p, a) \/ Reject(p, a)
  BY DEF Hear
<1>2. CASE Reformat(p, a)
  BY <1>2, Moves DEF Reformat, Calling
<1>3. CASE Reject(p, a)
  BY <1>3, Moves DEF Reject, Ended, Calling
<1> QED BY <1>1, <1>2, <1>3, AcceptSound, SplitSound

LEMMA Initially == Init => Sound
<1> SUFFICES ASSUME Init PROVE Sound
  OBVIOUS
<1>1. TypeOK /\ CheckpointsSound
  BY RunsAssumption, EmptySeq DEF Init, TypeOK, Ended, CheckpointsSound
<1>2. ASSUME NEW p \in Processes PROVE LoopSound(p) /\ CallsSound(p)
  <2>1. TotalOf(p) \in Nat /\ start[p] = 0 /\ all[p] = <<>> /\ at[p] = "idle"
    BY <1>1, Times DEF Init
  <2>2. Reached(p) = 0 /\ Good(<<>>, 0, 0, version[p])
    BY <2>1, NoLeaves DEF Reached
  <2> QED BY <2>1, <2>2 DEF LoopSound, CallsSound, Calling
<1> QED BY <1>1, <1>2 DEF Sound

(* The inductive invariant: every call, waiting or not, has the leaves it should. *)
THEOREM PipelineIsSound == Spec => []Sound
<1>1. Sound /\ [Next]_vars => Sound'
  <2> SUFFICES ASSUME Sound, [Next]_vars PROVE Sound'
    OBVIOUS
  <2>1. CASE UNCHANGED vars
    BY <2>1 DEF vars, process, Sound, TypeOK, CheckpointsSound, LoopSound, CallsSound, Reached,
                TotalOf, ChunkOf, NextLength, Top
  <2>2. ASSUME NEW p \in Processes, Begin(p) \/ Work(p) \/ Fail(p) PROVE Sound'
    <3>1. CASE Complete(p)
      BY <3>1, Moves DEF Complete, Go, Ended, Calling
    <3>2. CASE Ask(p)
      BY <3>2, Moves DEF Ask, Go, Calling
    <3>3. CASE Fail(p)
      BY <3>3, Moves DEF Fail, Ended, Calling
    <3> QED BY <2>2, <3>1, <3>2, <3>3, BeginSound, NextChunkSound, ReuseSound, HearSound, SaveSound
            DEF Work
  <2> QED BY <2>1, <2>2 DEF Next
<1> QED BY <1>1, Initially, PTL DEF Spec

(* What the code keeps is well typed; the depth of a call is four at most. *)
THEOREM ChunksAreTyped == Spec => []TypeOK
<1>1. Sound => TypeOK
  BY DEF Sound
<1> QED BY <1>1, PipelineIsSound, PTL

(* A run that completes covers its audio exactly once, in order. *)
THEOREM AudioIsAlwaysCovered == Spec => []AudioIsCovered
<1>1. Sound => AudioIsCovered
  <2> SUFFICES ASSUME Sound, NEW p \in Processes, at[p] = "completed"
               PROVE  Tiles(all[p], 0, TotalOf(p))
    BY DEF AudioIsCovered
  <2>1. TotalOf(p) \in Nat /\ start[p] \in Nat /\ start[p] >= TotalOf(p)
    BY Times DEF Sound, LoopSound
  <2>2. Reached(p) = TotalOf(p)
    BY <2>1 DEF Reached
  <2> QED BY <2>2 DEF Sound, LoopSound, Good
<1> QED BY <1>1, PipelineIsSound, PTL

(* Whatever a run collects was made from its audio with its settings. *)
THEOREM NothingForeignIsUsed == Spec => []NothingIsForeign
<1>1. Sound => NothingIsForeign
  BY DEF Sound, LoopSound, Good, Own, NothingIsForeign, LeavesIn
<1> QED BY <1>1, PipelineIsSound, PTL

(* No truncated answer, error or malformed text is in a checkpoint. *)
THEOREM NothingIncompleteIsSaved == Spec => []NothingIsIncomplete
<1>1. Sound => NothingIsIncomplete
  BY DEF Sound, CheckpointsSound, Good, Own, Whole, NothingIsIncomplete, LeavesIn
<1> QED BY <1>1, PipelineIsSound, PTL

-----------------------------------------------------------------------------
(* Reuse. *)

(* Where the chunks of a version can start. *)
Grid(v) == {n * ChunkSeconds[v.settings] : n \in Nat}

LengthFrom(v, from) ==
  IF ChunkSeconds[v.settings] <= Duration[v.audio] - from
    THEN ChunkSeconds[v.settings] ELSE Duration[v.audio] - from

IsSaved(checkpoints, v, from, length) ==
  \E c \in checkpoints : c.version = v /\ c.start = from /\ c.length = length

PassedIsSaved(checkpoints, v, limit) ==
  \A t \in Grid(v) :
    t < limit /\ t < Duration[v.audio] => IsSaved(checkpoints, v, t, LengthFrom(v, t))

(***************************************************************************)
(* Every chunk that the loop of a run has passed has its checkpoint, and   *)
(* the loop of another run for the same version passes the same chunks.    *)
(***************************************************************************)
Reusable ==
  \A p \in Processes :
    start[p] \in Grid(version[p]) /\ PassedIsSaved(saved, version[p], start[p])

(* Chunks of one version that start apart are a chunk apart. *)
LEMMA Grids ==
  ASSUME NEW v \in Versions
  PROVE  /\ Grid(v) \subseteq Nat /\ 0 \in Grid(v)
         /\ \A t \in Grid(v) : t + ChunkSeconds[v.settings] \in Grid(v)
         /\ \A s, t \in Grid(v) : s < t + ChunkSeconds[v.settings] => s <= t
<1> DEFINE C == ChunkSeconds[v.settings]
<1>1. C \in Nat /\ C > 0
  BY TimesAssumption DEF Versions
<1> HIDE DEF C
<1>2. ASSUME NEW n \in Nat PROVE n * C \in Nat /\ n * C + C = (n + 1) * C
  BY <1>1
<1>3. ASSUME NEW n \in Nat, NEW m \in Nat, n * C < m * C + C PROVE n * C <= m * C
  <2>1. SUFFICES ASSUME n >= m + 1 PROVE FALSE
    <3>1. CASE n = m
      BY <3>1, <1>2
    <3>2. CASE n < m
      <4>1. PICK d \in Nat : m = n + d
        <5>1. m - n \in Nat /\ m = n + (m - n)
          BY <3>2
        <5> QED BY <5>1
      <4>2. m * C = n * C + d * C /\ d * C \in Nat
        BY <4>1, <1>1
      <4> QED BY <4>2, <1>2
    <3> QED BY <2>1, <3>1, <3>2
  <2>2. PICK d \in Nat : n = m + 1 + d
    <3>1. n - m - 1 \in Nat /\ n = m + 1 + (n - m - 1)
      BY <2>1
    <3> QED BY <3>1
  <2>3. n * C = m * C + C + d * C /\ d * C \in Nat /\ m * C \in Nat
    BY <2>2, <1>1
  <2> QED BY <2>3, <1>1, <1>3
<1>4. Grid(v) = {n * C : n \in Nat}
  BY DEF Grid, C
<1>5. 0 * C = 0
  BY <1>1
<1>6. \A t \in Grid(v) : t + C \in Grid(v)
  <2> SUFFICES ASSUME NEW n \in Nat PROVE n * C + C \in Grid(v)
    BY <1>4
  <2>1. n + 1 \in Nat /\ n * C + C = (n + 1) * C
    BY <1>2
  <2> QED BY <2>1, <1>4
<1>7. Grid(v) \subseteq Nat /\ 0 \in Grid(v)
  BY <1>2, <1>4, <1>5
<1>8. \A s, t \in Grid(v) : s < t + C => s <= t
  BY <1>3, <1>4
<1> QED BY <1>6, <1>7, <1>8 DEF C

(* Once a chunk of a version has a checkpoint, it always has one. *)
LEMMA SavedStays ==
  ASSUME [Next]_vars, NEW v, NEW from, NEW length, IsSaved(saved, v, from, length)
  PROVE  IsSaved(saved', v, from, length)
<1>1. ASSUME NEW p \in Processes, Save(p) PROVE IsSaved(saved', v, from, length)
  <2>1. PICK c \in saved : c.version = v /\ c.start = from /\ c.length = length
    BY DEF IsSaved
  <2> DEFINE d == [version |-> version[p], start |-> Top(p).start, length |-> Top(p).length,
                   leaves |-> Top(p).leaves]
  <2>2. saved' = {b \in saved : ~Fits(p, b)} \cup {d}
    BY <1>1 DEF Save
  <2>3. d.version = version[p] /\ d.start = Top(p).start /\ d.length = Top(p).length
    OBVIOUS
  <2> HIDE DEF d
  <2>4. CASE Fits(p, c)
    BY <2>1, <2>2, <2>3, <2>4 DEF Fits, SameFingerprint, IsSaved
  <2>5. CASE ~Fits(p, c)
    BY <2>1, <2>2, <2>5 DEF IsSaved
  <2> QED BY <2>4, <2>5
<1>2. ASSUME NEW p \in Processes, Begin(p) \/ Work(p) \/ Fail(p), ~Save(p) PROVE saved' = saved
  BY <1>2 DEF Begin, Work, Fail, NextChunk, Complete, Reuse, Ask, Hear, Reformat, Accept, Split, Reject
<1>3. CASE saved' = saved
  BY <1>3 DEF IsSaved
<1> QED BY <1>1, <1>2, <1>3 DEF Next, vars

Stands(p) == version'[p] = version[p] /\ start'[p] = start[p]
StartsOver(p) == version'[p] \in Versions /\ start'[p] = 0
Advances(p) ==
  /\ version'[p] = version[p] /\ start'[p] = start[p] + ChunkOf(p)
  /\ IsSaved(saved', version[p], start[p], LengthFrom(version[p], start[p]))

(* A loop advances over a chunk that is saved. *)
LEMMA LoopAdvances ==
  ASSUME Sound, NEW p \in Processes, NEW leaves, Return(p, leaves), at[p] \in Calling,
         UNCHANGED version, IsSaved(saved', version[p], Top(p).start, Top(p).length)
  PROVE  \A q \in Processes : Stands(q) \/ Advances(q)
<1>1. CASE ReturnToSplit(p, leaves)
  BY <1>1 DEF ReturnToSplit, Stands
<1>2. CASE ReturnToLoop(p, leaves)
  <2>1. Top(p).start = start[p] /\ Top(p).length = NextLength(p)
    BY <1>2 DEF Sound, CallsSound, ReturnToLoop, Top
  <2>2. NextLength(p) = LengthFrom(version[p], start[p])
    BY DEF NextLength, LengthFrom, ChunkOf, TotalOf
  <2>3. start' = [start EXCEPT ![p] = start[p] + ChunkOf(p)] /\ start \in [Processes -> Nat]
    BY <1>2 DEF ReturnToLoop, Sound, TypeOK
  <2> QED BY <2>1, <2>2, <2>3 DEF Stands, Advances
<1> QED BY <1>1, <1>2 DEF Return

LEMMA LoopSteps ==
  ASSUME Sound, [Next]_vars, NEW q \in Processes
  PROVE  Stands(q) \/ StartsOver(q) \/ Advances(q)
<1>1. CASE UNCHANGED vars
  BY <1>1 DEF vars, process, Stands
<1>2. ASSUME NEW p \in Processes, Begin(p) \/ Work(p) \/ Fail(p)
      PROVE  Stands(q) \/ StartsOver(q) \/ Advances(q)
  <2>1. CASE Begin(p)
    <3>1. PICK v \in Versions : version' = [version EXCEPT ![p] = v]
      BY <2>1 DEF Begin
    <3>2. start' = [start EXCEPT ![p] = 0]
      BY <2>1 DEF Begin
    <3> QED BY <3>1, <3>2 DEF Sound, TypeOK, Stands, StartsOver
  <2>2. CASE NextChunk(p) \/ Complete(p) \/ Ask(p) \/ Hear(p) \/ Fail(p)
    BY <2>2 DEF NextChunk, Complete, Ask, Hear, Reformat, Accept, Split, Reject, Fail, Stands
  <2>3. CASE Reuse(p)
    <3>1. PICK c \in saved : Fits(p, c) /\ Return(p, c.leaves)
      BY <2>3 DEF Reuse
    <3>2. saved' = saved /\ version' = version /\ at[p] \in Calling
      BY <2>3 DEF Reuse, Calling
    <3>3. IsSaved(saved', version[p], Top(p).start, Top(p).length)
      BY <3>1, <3>2 DEF IsSaved, Fits, SameFingerprint
    <3> QED BY <3>1, <3>2, <3>3, LoopAdvances
  <2>4. CASE Save(p)
    <3>1. version' = version /\ at[p] \in Calling /\ Return(p, Top(p).leaves)
      BY <2>4 DEF Save, Calling
    <3>2. IsSaved(saved', version[p], Top(p).start, Top(p).length)
      <4> DEFINE d == [version |-> version[p], start |-> Top(p).start, length |-> Top(p).length,
                       leaves |-> Top(p).leaves]
      <4>1. d \in saved'
        BY <2>4 DEF Save
      <4>2. d.version = version[p] /\ d.start = Top(p).start /\ d.length = Top(p).length
        OBVIOUS
      <4> HIDE DEF d
      <4> QED BY <4>1, <4>2 DEF IsSaved
    <3> QED BY <3>1, <3>2, LoopAdvances
  <2> QED BY <1>2, <2>1, <2>2, <2>3, <2>4 DEF Work
<1> QED BY <1>1, <1>2 DEF Next

LEMMA ReusableStep == Sound /\ Reusable /\ [Next]_vars => Reusable'
<1> SUFFICES ASSUME Sound, Reusable, [Next]_vars, NEW p \in Processes
             PROVE  start'[p] \in Grid(version'[p]) /\ PassedIsSaved(saved', version'[p], start'[p])
  BY DEF Reusable, Grid
<1>1. version[p] \in Versions /\ start[p] \in Nat
  BY DEF Sound, TypeOK
<1>2. start[p] \in Grid(version[p]) /\ PassedIsSaved(saved, version[p], start[p])
  BY DEF Reusable
<1>3. CASE Stands(p)
  <2>1. PassedIsSaved(saved', version'[p], start'[p])
    BY <1>2, <1>3, SavedStays DEF PassedIsSaved, Stands
  <2> QED BY <1>2, <1>3, <2>1 DEF Stands
<1>4. CASE StartsOver(p)
  BY <1>4, Grids DEF StartsOver, PassedIsSaved
<1>5. CASE Advances(p)
  <2>1. start'[p] \in Grid(version[p])
    BY <1>1, <1>2, <1>5, Grids DEF Advances, ChunkOf
  <2>2. ASSUME NEW t \in Grid(version[p]), t < start'[p], t < Duration[version[p].audio]
        PROVE  IsSaved(saved', version[p], t, LengthFrom(version[p], t))
    <3>1. t < start[p] \/ t = start[p]
      BY <1>1, <1>2, <1>5, <2>2, Grids DEF Advances, ChunkOf
    <3>2. CASE t < start[p]
      BY <1>2, <2>2, <3>2, SavedStays DEF PassedIsSaved
    <3>3. CASE t = start[p]
      BY <1>5, <3>3 DEF Advances
    <3> QED BY <3>1, <3>2, <3>3
  <2>3. version'[p] = version[p]
    BY <1>5 DEF Advances
  <2> QED BY <2>1, <2>2, <2>3 DEF PassedIsSaved
<1> QED BY <1>3, <1>4, <1>5, LoopSteps

LEMMA LoopsAreReusable == Spec => []Reusable
<1>1. Init => Reusable
  <2> SUFFICES ASSUME Init, NEW p \in Processes
               PROVE  start[p] \in Grid(version[p]) /\ PassedIsSaved(saved, version[p], start[p])
    BY DEF Reusable
  <2>1. version[p] \in Versions /\ start[p] = 0
    BY DEF Init
  <2> QED BY <2>1, Grids DEF PassedIsSaved
<1> QED BY <1>1, ReusableStep, PipelineIsSound, PTL DEF Spec

(* Only Ask gives a chunk to the model. *)
LEMMA OnlyAskAsks ==
  ASSUME TypeOK, [Next]_vars, NEW p \in Processes, at[p] = "chunk", at'[p] = "asking"
  PROVE  Ask(p)
<1>1. PICK q \in Processes : Begin(q) \/ Work(q) \/ Fail(q)
  BY DEF Next, vars, process
<1>2. ASSUME NEW place, at' = [at EXCEPT ![q] = place] PROVE q = p /\ place = "asking"
  BY <1>2 DEF TypeOK
<1>3. ~Begin(q) /\ ~Fail(q) /\ ~NextChunk(q) /\ ~Complete(q)
  BY <1>2 DEF Begin, Fail, NextChunk, Complete, Go
<1>4. ~Hear(q)
  BY <1>2 DEF Hear, Reformat, Accept, Split, Reject
<1>5. ASSUME NEW leaves PROVE ~Return(q, leaves)
  BY <1>2 DEF Return, ReturnToLoop, ReturnToSplit
<1>6. ~Reuse(q) /\ ~Save(q)
  BY <1>5 DEF Reuse, Save
<1>7. Ask(q)
  BY <1>1, <1>3, <1>4, <1>6 DEF Work
<1> QED BY <1>2, <1>7 DEF Ask, Go

(***************************************************************************)
(* Once a run has completed, no chunk of its audio and settings is given   *)
(* to the model again: all of them have their checkpoints, whichever       *)
(* process saved them, and failures or other runs meanwhile take none away.*)
(***************************************************************************)
THEOREM CompletedStaysReused == Spec => CompletedIsReused
<1>1. Sound /\ Reusable /\ [Next]_vars =>
        \A p, q \in Processes :
          at[q] = "completed" /\ version[p] = version[q] /\ Len(stack[p]) = 1 =>
            ~(at[p] = "chunk" /\ at'[p] = "asking")
  <2> SUFFICES ASSUME Sound, Reusable, [Next]_vars, NEW p \in Processes, NEW q \in Processes,
                      at[q] = "completed", version[p] = version[q], Len(stack[p]) = 1,
                      at[p] = "chunk", at'[p] = "asking"
               PROVE  FALSE
    OBVIOUS
  <2>1. Ask(p)
    BY OnlyAskAsks DEF Sound
  <2>2. start[p] < TotalOf(p) /\ Top(p).start = start[p] /\ Top(p).length = NextLength(p)
    BY DEF Sound, CallsSound, Calling, Top
  <2>3. start[q] >= TotalOf(q) /\ TotalOf(q) = TotalOf(p)
    BY DEF Sound, LoopSound, TotalOf
  <2>4. start[p] < start[q]
    BY <2>2, <2>3, Times DEF Sound
  <2>5. IsSaved(saved, version[p], start[p], LengthFrom(version[p], start[p]))
    BY <2>2, <2>4 DEF Reusable, PassedIsSaved, TotalOf
  <2>6. LengthFrom(version[p], start[p]) = NextLength(p)
    BY DEF LengthFrom, NextLength, ChunkOf, TotalOf
  <2>7. \E c \in saved : Fits(p, c)
    BY <2>2, <2>5, <2>6 DEF IsSaved, Fits, SameFingerprint
  <2> QED BY <2>1, <2>7 DEF Ask
<1> QED BY <1>1, PipelineIsSound, LoopsAreReusable, PTL DEF Spec, CompletedIsReused
=============================================================================
