----------------------------- MODULE TextProofs -----------------------------
(***************************************************************************)
(* Proofs about what happens to one text, for every text, whatever the     *)
(* detectors and the model find:                                           *)
(*    Chunking   the loop advances, no character is cut, and every short   *)
(*               span lies whole in some chunk, for all sizes that satisfy *)
(*               the assumption (8192, 512, 100 and 3 do);                 *)
(*    LongText   a short name is found, once, wherever the chunks end;     *)
(*    Detection  nothing found is lost, and no structural span displaced;  *)
(*    RoundTrip  what is covered is hidden, and what was masked comes back;*)
(*    Fields     no field behind a label is missed, and no value overruns; *)
(*    Validator  the nearest whole signature decides, and what other       *)
(*               sentences say changes nothing.                            *)
(***************************************************************************)
EXTENDS Detection, RoundTrip, LongText, Fields, Validator, MaskingProofs

\* Least and Greatest exist in bounded, nonempty sets of integers.
LEMMA LeastIs ==
    ASSUME NEW a \in Int, NEW S, S # {}, \A p \in S : p \in Int /\ a <= p
    PROVE  Least(S) \in S /\ \A q \in S : Least(S) <= q
<1> DEFINE D == {p - a : p \in S}
<1>1. D \in SUBSET Nat /\ D # {}
  OBVIOUS
<1>2. PICK d \in D : \A c \in D : d <= c
  <2> HIDE DEF D
  <2> QED BY <1>1, LeastInNat
<1>3. PICK p \in S : d = p - a
  BY <1>2
<1>4. \A q \in S : p <= q
  BY <1>2, <1>3
<1>5. QED
  BY <1>4 DEF Least

LEMMA GreatestIs ==
    ASSUME NEW b \in Int, NEW S, S # {}, \A p \in S : p \in Int /\ p <= b
    PROVE  Greatest(S) \in S /\ \A q \in S : q <= Greatest(S)
<1> DEFINE D == {b - p : p \in S}
<1>1. D \in SUBSET Nat /\ D # {}
  OBVIOUS
<1>2. PICK d \in D : \A c \in D : d <= c
  <2> HIDE DEF D
  <2> QED BY <1>1, LeastInNat
<1>3. PICK p \in S : d = b - p
  BY <1>2
<1>4. \A q \in S : q <= p
  BY <1>2, <1>3
<1>5. QED
  BY <1>4 DEF Greatest
-----------------------------------------------------------------------------
\* Near every offset there is the start of a character, on both sides.
LEMMA RuneNearby ==
    ASSUME text \in Texts, NEW p \in 0 .. Length
    PROVE  /\ \E q \in p - MaxCont .. p : AtRune(q)
           /\ \E q \in p .. p + MaxCont : AtRune(q)
<1>0. /\ MaxCont \in Nat /\ Length \in Nat /\ DOMAIN text = 1 .. Length
      /\ AtRune(0) /\ AtRune(Length)
  BY ChunkingAssumption, TextsAssumption DEF Length, AtRune, RuneStarts
<1>1. \A i \in 1 .. Length : \E j \in 1 .. Length :
         i - MaxCont <= j /\ j <= i /\ text[j] # "cont"
  <2> SUFFICES ASSUME NEW i \in 1 .. Length
               PROVE  \E j \in 1 .. Length : i - MaxCont <= j /\ j <= i /\ text[j] # "cont"
    OBVIOUS
  <2>1. CASE text[i] = "cont"
    BY <1>0, <2>1, TextsAssumption
  <2>2. CASE text[i] # "cont"
    BY <1>0, <2>2
  <2>3. QED
    BY <2>1, <2>2
<1>2. ASSUME NEW j \in 1 .. Length, text[j] # "cont" PROVE AtRune(j - 1)
  BY <1>0, <1>2 DEF AtRune, RuneStarts, Byte
<1>3. \E q \in p - MaxCont .. p : AtRune(q)
  <2>1. CASE p = Length
    BY <2>1, <1>0
  <2>2. CASE p < Length
    <3>0. p + 1 \in 1 .. Length
      BY <2>2, <1>0
    <3>1. PICK j \in 1 .. Length :
             (p + 1) - MaxCont <= j /\ j <= p + 1 /\ text[j] # "cont"
      BY <3>0, <1>1
    <3>2. j - 1 \in p - MaxCont .. p /\ AtRune(j - 1)
      BY <3>1, <1>0, <1>2
    <3>3. QED
      BY <3>2
  <2>3. QED
    BY <2>1, <2>2, <1>0
<1>4. \E q \in p .. p + MaxCont : AtRune(q)
  <2>1. CASE p + MaxCont >= Length
    BY <2>1, <1>0
  <2>2. CASE p + MaxCont < Length
    <3>0. p + MaxCont + 1 \in 1 .. Length
      BY <2>2, <1>0
    <3>1. PICK j \in 1 .. Length :
             (p + MaxCont + 1) - MaxCont <= j /\ j <= p + MaxCont + 1 /\ text[j] # "cont"
      BY <3>0, <1>1
    <3>2. j - 1 \in p .. p + MaxCont /\ AtRune(j - 1)
      BY <3>1, <1>0, <1>2
    <3>3. QED
      BY <3>2
  <2>3. QED
    BY <2>1, <2>2, <1>0
<1>5. QED
  BY <1>3, <1>4

\* Behind a separator a character starts.
LEMMA RuneAfterSep ==
    ASSUME text \in Texts, NEW p \in 0 .. Length, p < Length, Byte(p) = "sep"
    PROVE  AtRune(p + 1)
<1>0. MaxCont \in Nat /\ Length \in Nat /\ DOMAIN text = 1 .. Length
  BY ChunkingAssumption, TextsAssumption DEF Length
<1>1. ASSUME p + 1 < Length, text[p + 2] = "cont" PROVE FALSE
  <2>0. p + 2 \in DOMAIN text
    BY <1>0, <1>1
  <2>1. PICK j \in (p + 2) - MaxCont .. (p + 2) - 1 :
           text[j] = "lead" /\ \A k \in j + 1 .. p + 2 : text[k] = "cont"
    BY <2>0, <1>1, TextsAssumption
  <2>2. text[p + 1] = "sep"
    BY DEF Byte
  <2>3. CASE j = p + 1
    BY <2>1, <2>2, <2>3
  <2>4. CASE j < p + 1
    BY <2>1, <2>2, <2>4, <1>0
  <2>5. QED
    BY <2>3, <2>4, <1>0
<1>2. QED
  BY <1>0, <1>1 DEF AtRune, RuneStarts, Byte

\* How far the end of a chunk may move back.
LEMMA BoundaryMoves ==
    ASSUME text \in Texts, NEW end \in 1 .. Length
    PROVE  /\ AtRune(AdjustBoundary(end))
           /\ AdjustBoundary(end) \in Int /\ AdjustBoundary(end) <= end
           /\ end - Window - MaxCont <= AdjustBoundary(end)
<1> DEFINE seps == Seps(end - Window, end - 1)
<1>0. {Window, MaxCont, Length} \subseteq Nat
  BY ChunkingAssumption, TextsAssumption DEF Length
<1>1. CASE seps # {}
  <2>1. Greatest(seps) \in seps
    BY <1>0, <1>1, GreatestIs DEF Seps
  <2>2. /\ Greatest(seps) \in end - Window .. end - 1 /\ Greatest(seps) >= 0
        /\ Greatest(seps) < Length /\ Byte(Greatest(seps)) = "sep"
    BY <2>1 DEF Seps
  <2>3. AtRune(Greatest(seps) + 1)
    <3> HIDE DEF seps
    <3> QED BY <1>0, <2>2, RuneAfterSep
  <2>4. AdjustBoundary(end) = Greatest(seps) + 1
    BY <1>1 DEF AdjustBoundary
  <2>5. QED
    <3> HIDE DEF seps
    <3> QED BY <1>0, <2>2, <2>3, <2>4
<1>2. CASE seps = {}
  <2>1. AdjustBoundary(end) = Greatest(RuneStarts(0, end))
    BY <1>2 DEF AdjustBoundary, BackToRune
  <2>2. PICK q \in end - MaxCont .. end : AtRune(q)
    BY <1>0, RuneNearby
  <2>3. q \in RuneStarts(0, end) /\ RuneStarts(0, end) \subseteq RuneStarts(0, Length)
    BY <1>0, <2>2 DEF AtRune, RuneStarts
  <2>4. /\ Greatest(RuneStarts(0, end)) \in RuneStarts(0, end)
        /\ q <= Greatest(RuneStarts(0, end))
    BY <1>0, <2>3, GreatestIs DEF RuneStarts
  <2>5. Greatest(RuneStarts(0, end)) \in 0 .. end
    BY <2>4 DEF RuneStarts
  <2>6. QED
    BY <1>0, <2>1, <2>2, <2>3, <2>4, <2>5 DEF AtRune
<1>3. QED
  BY <1>1, <1>2

\* How far the start of the next one may move forward.
LEMMA ForwardMoves ==
    ASSUME text \in Texts, NEW p \in 0 .. Length
    PROVE  /\ AtRune(AdjustForward(p))
           /\ AdjustForward(p) \in Int /\ p <= AdjustForward(p)
           /\ AdjustForward(p) <= p + MaxCont + Window
<1> DEFINE rune == ForwardToRune(p)
           seps == Seps(rune, rune + Window - 1)
<1>0. {Window, MaxCont, Length} \subseteq Nat
  BY ChunkingAssumption, TextsAssumption DEF Length
<1>1. rune \in p .. p + MaxCont /\ AtRune(rune)
  <2>1. PICK q \in p .. p + MaxCont : AtRune(q)
    BY RuneNearby
  <2>2. q \in RuneStarts(p, Length) /\ RuneStarts(p, Length) \subseteq RuneStarts(0, Length)
    BY <1>0, <2>1 DEF AtRune, RuneStarts
  <2>3. rune \in RuneStarts(p, Length) /\ rune <= q
    BY <1>0, <2>2, LeastIs DEF RuneStarts, ForwardToRune
  <2>4. rune \in p .. Length
    BY <2>3 DEF RuneStarts
  <2>5. QED
    BY <1>0, <2>1, <2>2, <2>3, <2>4 DEF AtRune
<1>2. CASE seps # {}
  <2>1. Least(seps) \in seps
    <3>1. rune \in Int
      BY <1>0, <1>1
    <3>2. QED
      BY <3>1, <1>2, LeastIs DEF Seps
  <2>2. /\ Least(seps) \in rune .. rune + Window - 1 /\ Least(seps) >= 0
        /\ Least(seps) < Length /\ Byte(Least(seps)) = "sep"
    BY <2>1 DEF Seps
  <2>3. AtRune(Least(seps) + 1)
    <3> HIDE DEF seps
    <3>1. Least(seps) \in 0 .. Length
      BY <1>0, <1>1, <2>2
    <3> QED BY <2>2, <3>1, RuneAfterSep
  <2>4. AdjustForward(p) = Least(seps) + 1
    BY <1>2 DEF AdjustForward
  <2>5. QED
    <3> HIDE DEF seps, rune
    <3> QED BY <1>0, <1>1, <2>2, <2>3, <2>4
<1>3. CASE seps = {}
  <2>1. AdjustForward(p) = rune
    BY <1>3 DEF AdjustForward
  <2>2. QED
    <3> HIDE DEF rune
    <3> QED BY <1>0, <1>1, <2>1
<1>4. QED
  BY <1>2, <1>3
-----------------------------------------------------------------------------
\* What is behind the chunks made so far is covered, and the next chunk starts
\* early enough to cover what reaches over their end.
LastEnd == IF chunks = <<>> THEN 0 ELSE chunks[Len(chunks)].end
SplitInv ==
    /\ text \in Texts
    /\ chunks \in Seq([start : Nat, end : Nat])
    /\ splitting \in BOOLEAN
    /\ start \in 0 .. Length /\ AtRune(start)
    /\ splitting => start = 0 \/ (start + Whole <= LastEnd /\ start < Length)
    /\ chunks = <<>> => splitting /\ start = 0
    /\ LastEnd <= Length /\ (~splitting => LastEnd = Length)
    /\ ChunksAreWhole
    /\ \A s \in 0 .. Length : \A e \in s .. LastEnd :
          e - s <= Whole /\ chunks # <<>> => \E i \in DOMAIN chunks : Within(s, e, chunks[i])

\* The last chunk is one of them,
LEMMA LastIsMember == ASSUME NEW S, NEW s \in Seq(S), s # <<>> PROVE s[Len(s)] \in S
OBVIOUS

\* and its end a length.
LEMMA LastEndInNat ==
    ASSUME chunks \in Seq([start : Nat, end : Nat]) PROVE LastEnd \in Nat
<1>1. CASE chunks = <<>>
  BY <1>1 DEF LastEnd
<1>2. CASE chunks # <<>>
  <2>1. chunks[Len(chunks)] \in [start : Nat, end : Nat]
    BY <1>2, LastIsMember
  <2>2. QED
    BY <2>1, <1>2 DEF LastEnd
<1>3. QED
  BY <1>1, <1>2

\* What one iteration does to the ends, in numbers.
LEMMA NextChunk ==
    ASSUME SplitInv, splitting
    PROVE  /\ ChunkEnd \in 1 .. Length /\ AtRune(ChunkEnd)
           /\ start < ChunkEnd /\ ChunkEnd - start <= ChunkSize
           /\ ChunkEnd < Length =>
                 /\ NextStart(ChunkEnd) \in Int /\ AtRune(NextStart(ChunkEnd))
                 /\ start < NextStart(ChunkEnd) /\ NextStart(ChunkEnd) + Whole <= ChunkEnd
<1>0. /\ {ChunkSize, ChunkOverlap, Window, MaxCont, Length, start} \subseteq Nat
      /\ ChunkOverlap > Window + MaxCont
      /\ ChunkSize > ChunkOverlap + Window + 2 * MaxCont + 1
      /\ start < Length /\ text \in Texts
  <2>1. text \in Texts /\ start \in 0 .. Length /\ (start = 0 \/ start < Length)
    BY DEF SplitInv
  <2>2. Length \in Nat /\ Length > 0
    BY <2>1, TextsAssumption DEF Length
  <2>3. QED
    BY <2>1, <2>2, ChunkingAssumption
<1>1. CASE start + ChunkSize >= Length
  <2>1. ChunkEnd = Length /\ AtRune(Length)
    BY <1>0, <1>1 DEF ChunkEnd, AtRune, RuneStarts
  <2>2. QED
    BY <1>0, <1>1, <2>1
<1>2. CASE start + ChunkSize < Length
  <2>1. ChunkEnd = AdjustBoundary(start + ChunkSize) /\ start + ChunkSize \in 1 .. Length
    BY <1>0, <1>2 DEF ChunkEnd
  <2>2. /\ AtRune(ChunkEnd) /\ ChunkEnd \in Int /\ ChunkEnd <= start + ChunkSize
        /\ start + ChunkSize - Window - MaxCont <= ChunkEnd
    BY <1>0, <2>1, BoundaryMoves
  <2>3. ChunkOverlap + MaxCont + start < ChunkEnd /\ ChunkEnd - ChunkOverlap \in 0 .. Length
    BY <1>0, <1>2, <2>2
  <2> DEFINE next == AdjustForward(ChunkEnd - ChunkOverlap)
  <2>4. /\ AtRune(next) /\ next \in Int /\ ChunkEnd - ChunkOverlap <= next
        /\ next <= ChunkEnd - ChunkOverlap + MaxCont + Window
    BY <1>0, <2>3, ForwardMoves
  <2>5. NextStart(ChunkEnd) = IF next <= start \/ next >= ChunkEnd THEN ChunkEnd ELSE next
    BY <1>0, <2>2, <2>3 DEF NextStart
  <2>6. NextStart(ChunkEnd) = next
    <3> HIDE DEF next
    <3> QED BY <1>0, <2>2, <2>3, <2>4, <2>5
  <2>7. start < next /\ next + Whole <= ChunkEnd
    <3> HIDE DEF next
    <3> QED BY <1>0, <2>2, <2>3, <2>4 DEF Whole
  <2>8. QED
    BY <1>0, <1>2, <2>2, <2>3, <2>4, <2>6, <2>7
<1>3. QED
  BY <1>0, <1>1, <1>2

\* The next chunk keeps the invariant.
LEMMA SplitKeepsInv == SplitInv /\ [Split]_chunkVars => SplitInv'
<1> SUFFICES ASSUME SplitInv, [Split]_chunkVars PROVE SplitInv'
  OBVIOUS
<1>1. CASE UNCHANGED chunkVars
  BY <1>1 DEF chunkVars, SplitInv, LastEnd, ChunksAreWhole, AtRune, RuneStarts, Length, Byte
<1>2. CASE Split
  <2> DEFINE c == [start |-> start, end |-> ChunkEnd]
  <2>1. /\ splitting /\ text' = text /\ chunks' = Append(chunks, c)
        /\ splitting' = (ChunkEnd < Length)
        /\ start' = IF ChunkEnd < Length THEN NextStart(ChunkEnd) ELSE start
    BY <1>2 DEF Split
  <2>2. /\ ChunkEnd \in 1 .. Length /\ AtRune(ChunkEnd) /\ AtRune(start)
        /\ start < ChunkEnd /\ ChunkEnd - start <= ChunkSize
        /\ Length \in Nat /\ start \in 0 .. Length /\ Length' = Length /\ text \in Texts
        /\ \A p : AtRune(p)' <=> AtRune(p)
    BY <2>1, NextChunk, TextsAssumption DEF SplitInv, Length, AtRune, RuneStarts, Byte
  <2>3. /\ chunks' \in Seq([start : Nat, end : Nat]) /\ chunks' # <<>>
        /\ Len(chunks) \in Nat /\ Len(chunks') = Len(chunks) + 1
        /\ DOMAIN chunks = 1 .. Len(chunks) /\ DOMAIN chunks' = 1 .. (Len(chunks) + 1)
        /\ chunks'[Len(chunks) + 1] = c /\ \A i \in DOMAIN chunks : chunks'[i] = chunks[i]
    <3>1. chunks \in Seq([start : Nat, end : Nat])
      BY DEF SplitInv
    <3>2. c \in [start : Nat, end : Nat]
      BY <2>2
    <3> HIDE DEF c
    <3>3. QED
      BY <2>1, <3>1, <3>2
  <2>4. LastEnd' = ChunkEnd
    BY <2>3 DEF LastEnd
  <2>5. /\ start' \in 0 .. Length /\ AtRune(start')
        /\ splitting' => start' + Whole <= LastEnd' /\ start' < Length
    <3>1. CASE ChunkEnd < Length
      <4>1. Whole \in Nat
        BY ChunkingAssumption DEF Whole
      <4>2. QED
        BY <2>1, <2>2, <2>4, <3>1, <4>1, NextChunk
    <3>2. CASE ~(ChunkEnd < Length)
      BY <2>1, <2>2, <3>2
    <3>3. QED
      BY <3>1, <3>2
  <2>6. ChunksAreWhole'
    <3>1. \A i \in DOMAIN chunks' : i \in DOMAIN chunks \/ i = Len(chunks) + 1
      BY <2>3
    <3>2. \A i \in DOMAIN chunks' :
             /\ AtRune(chunks'[i].start) /\ AtRune(chunks'[i].end)
             /\ chunks'[i].start < chunks'[i].end
             /\ chunks'[i].end - chunks'[i].start <= ChunkSize
      <4>1. ASSUME NEW i \in DOMAIN chunks
            PROVE  /\ AtRune(chunks[i].start) /\ AtRune(chunks[i].end)
                   /\ chunks[i].start < chunks[i].end
                   /\ chunks[i].end - chunks[i].start <= ChunkSize
        BY DEF SplitInv, ChunksAreWhole
      <4>2. c.start = start /\ c.end = ChunkEnd
        OBVIOUS
      <4> HIDE DEF c
      <4>3. QED
        BY <2>2, <2>3, <3>1, <4>1, <4>2
    <3>3. QED
      BY <2>1, <3>2 DEF ChunksAreWhole, AtRune, RuneStarts, Length, Byte
  <2>7. ASSUME NEW s \in 0 .. Length, NEW e \in s .. ChunkEnd, e - s <= Whole
        PROVE  \E i \in DOMAIN chunks' : Within(s, e, chunks'[i])
    <3>1. CASE chunks # <<>> /\ e <= LastEnd
      <4>1. LastEnd \in Nat /\ e \in s .. LastEnd
        BY <3>1, LastEndInNat DEF SplitInv
      <4>2. PICK i \in DOMAIN chunks : Within(s, e, chunks[i])
        BY <2>7, <3>1, <4>1 DEF SplitInv
      <4>3. QED
        BY <2>3, <4>2
    <3>2. CASE ~(chunks # <<>> /\ e <= LastEnd)
      <4>1. start <= s
        <5>1. Whole \in Nat
          BY ChunkingAssumption DEF Whole
        <5>2. CASE start = 0
          BY <5>2
        <5>3. CASE start # 0
          <6>1. start + Whole <= LastEnd /\ chunks # <<>> /\ LastEnd \in Nat
            BY <2>1, <5>3, LastEndInNat DEF SplitInv
          <6>2. QED
            BY <2>2, <2>7, <3>2, <5>1, <6>1
        <5>4. QED
          BY <5>2, <5>3
      <4>2. Within(s, e, c)
        BY <4>1 DEF Within
      <4>3. QED
        BY <2>3, <4>2
    <3>3. QED
      BY <3>1, <3>2
  <2>8. QED
    <3>1. splitting' \in BOOLEAN /\ LastEnd' <= Length' /\ (~splitting' => LastEnd' = Length')
      <4>1. splitting' \in BOOLEAN
        BY <2>1
      <4>2. ChunkEnd <= Length /\ (~(ChunkEnd < Length) => ChunkEnd = Length)
        BY <2>2
      <4>3. QED
        BY <2>1, <2>2, <2>4, <4>1, <4>2, Zenon
    <3>2. \A s \in 0 .. Length' : \A e \in s .. LastEnd' :
             e - s <= Whole /\ chunks' # <<>> => \E i \in DOMAIN chunks' : Within(s, e, chunks'[i])
      BY <2>2, <2>4, <2>7
    <3>3. start' \in 0 .. Length' /\ AtRune(start)'
      BY <2>2, <2>5
    <3>4. text' \in Texts
      BY <2>1, <2>2
    <3>5. QED
      BY <2>2, <2>3, <2>5, <2>6, <3>1, <3>2, <3>3, <3>4 DEF SplitInv, Whole
<1>3. QED
  BY <1>1, <1>2

\* It holds before the first chunk,
LEMMA InitSplitInv == SplitInit => SplitInv
<1> SUFFICES ASSUME SplitInit PROVE SplitInv
  OBVIOUS
<1>1. Length \in Nat
  BY TextsAssumption DEF SplitInit, Length
<1>2. AtRune(0)
  BY <1>1 DEF AtRune, RuneStarts
<1>3. QED
  BY <1>1, <1>2 DEF SplitInit, SplitInv, LastEnd, ChunksAreWhole

\* No chunk cuts a character and none is longer than ChunkSize, for every valid
\* text (chunk.go:52, 84-86).
THEOREM ChunksAreWholeHolds == SplitSpec => []ChunksAreWhole
<1>1. SplitInv => ChunksAreWhole
  BY DEF SplitInv
<1>2. QED
  BY InitSplitInv, SplitKeepsInv, <1>1, PTL DEF SplitSpec

\* Every span of at most overlap - 103 bytes, wherever it lies, is whole in one
\* of the chunks (chunk.go:4-6, 22-24).
THEOREM SpansAreCoveredHolds == SplitSpec => []SpansAreCovered
<1>1. SplitInv => SpansAreCovered
  <2> SUFFICES ASSUME SplitInv, ~splitting,
                      NEW s \in 0 .. Length, NEW e \in s .. Length, e - s <= Whole
               PROVE  \E i \in DOMAIN chunks : Within(s, e, chunks[i])
    BY DEF SpansAreCovered
  <2>1. chunks # <<>> /\ LastEnd = Length
    BY DEF SplitInv
  <2>2. QED
    BY <2>1 DEF SplitInv
<1>2. QED
  BY InitSplitInv, SplitKeepsInv, <1>1, PTL DEF SplitSpec

\* The loop of splitChunks advances with every iteration and so ends.
THEOREM SplitAdvancesHolds == SplitSpec => SplitAdvances
<1>1. SplitInv /\ Split /\ splitting' => start < start' /\ start' <= Length
  <2> SUFFICES ASSUME SplitInv, Split, splitting' PROVE start < start' /\ start' <= Length
    OBVIOUS
  <2>1. splitting /\ ChunkEnd < Length /\ start' = NextStart(ChunkEnd)
    BY DEF Split
  <2>2. text \in Texts
    BY DEF SplitInv
  <2>3. Length \in Nat
    BY <2>2, TextsAssumption DEF Length
  <2>4. Whole \in Nat
    BY ChunkingAssumption DEF Whole
  <2>5. QED
    BY <2>1, <2>3, <2>4, NextChunk
<1>2. SplitInv /\ [Split]_chunkVars => [splitting' => start < start' /\ start' <= Length]_chunkVars
  BY <1>1
<1>3. QED
  BY InitSplitInv, SplitKeepsInv, <1>2, PTL DEF SplitSpec, SplitAdvances

-----------------------------------------------------------------------------
\* AddNew, as detectCandidates uses it: for a chunk that gave nothing, or one candidate.
LEMMA AddNothing == ASSUME NEW all PROVE AddNew(all, <<>>) = all
<1> DEFINE Folds(f) == f = [n \in 0 .. Len(<<>>) |->
                           IF n = 0 THEN all
                           ELSE LET s == f[n - 1]
                                IN  IF <<>>[n] \in Range(s) THEN s ELSE Append(s, <<>>[n])]
           seen == CHOOSE f : Folds(f)
<1>1. Folds([n \in 0 .. Len(<<>>) |-> all])
  OBVIOUS
<1>2. AddNew(all, <<>>) = seen[0]
  BY DEF AddNew
<1>3. \A f : Folds(f) => f[0] = all
  OBVIOUS
<1> HIDE DEF Folds
<1>4. Folds(seen)
  BY <1>1
<1>5. QED
  BY <1>2, <1>3, <1>4

LEMMA AddOne ==
    ASSUME NEW all, NEW x
    PROVE  AddNew(all, <<x>>) = IF x \in Range(all) THEN all ELSE Append(all, x)
<1> DEFINE more == IF x \in Range(all) THEN all ELSE Append(all, x)
           one == <<x>>
           Folds(f) == f = [n \in 0 .. Len(one) |->
                           IF n = 0 THEN all
                           ELSE LET s == f[n - 1]
                                IN  IF one[n] \in Range(s) THEN s ELSE Append(s, one[n])]
           seen == CHOOSE f : Folds(f)
           w == [n \in 0 .. 1 |-> IF n = 0 THEN all ELSE more]
<1>1. Len(one) = 1 /\ one[1] = x
  OBVIOUS
<1>2. AddNew(all, one) = seen[Len(one)]
  BY DEF AddNew
<1> HIDE DEF one
<1>3. Folds(w)
  <2>1. w[0] = all /\ w[1] = more /\ \A n \in 0 .. 1 : n = 0 \/ n = 1
    OBVIOUS
  <2>2. w = [n \in 0 .. Len(one) |->
               IF n = 0 THEN all
               ELSE IF one[n] \in Range(w[n - 1]) THEN w[n - 1] ELSE Append(w[n - 1], one[n])]
    <3>1. ASSUME NEW n \in 0 .. 1
          PROVE  (IF n = 0 THEN all ELSE more) =
                    (IF n = 0 THEN all
                     ELSE IF one[n] \in Range(w[n - 1]) THEN w[n - 1]
                          ELSE Append(w[n - 1], one[n]))
      <4>1. CASE n = 0
        BY <4>1
      <4>2. CASE n = 1
        <5>1. n # 0 /\ n - 1 = 0
          BY <4>2
        <5> HIDE DEF w
        <5>2. QED
          BY <1>1, <2>1, <4>2, <5>1
      <4>3. QED
        BY <2>1, <4>1, <4>2
    <3>2. QED
      BY <1>1, <3>1
  <2>3. QED
    BY <2>2
<1>4. ASSUME NEW f, Folds(f) PROVE f[1] = more
  <2>1. f[0] = all
    BY <1>1, <1>4
  <2>2. 1 \in 0 .. Len(one) /\ 1 # 0 /\ 1 - 1 = 0
    BY <1>1
  <2>3. f[1] = IF one[1] \in Range(f[1 - 1]) THEN f[1 - 1] ELSE Append(f[1 - 1], one[1])
    BY <1>4, <2>2
  <2>4. QED
    BY <1>1, <2>1, <2>2, <2>3
<1> HIDE DEF Folds, more, w
<1>5. Folds(seen)
  BY <1>3
<1>6. seen[1] = more
  BY <1>4, <1>5
<1> HIDE DEF seen
<1>7. QED
  BY <1>1, <1>2, <1>6 DEF one, more


\* A name that is whole in a chunk that has been answered is a candidate; there is none
\* twice, and none outside the name.
Candidate == [start : Nat, end : Nat]
FoundInv ==
    /\ SplitInv
    /\ name \in Candidate /\ name.start < name.end /\ name.end <= Length
    /\ step \in {"split", "detect", "done", "failed"}
    /\ step \in {"detect", "done"} => ~splitting
    /\ sent \in Nat /\ (step = "split" => sent = 0) /\ (step = "done" => sent = Len(chunks))
    /\ candidates \in Seq(Candidate)
    /\ \A i, j \in 1 .. Len(candidates) : candidates[i] = candidates[j] => i = j
    /\ \A i \in 1 .. Len(candidates) : Within(candidates[i].start, candidates[i].end, name)
    /\ \A i \in 1 .. Len(chunks) :
          i <= sent /\ Within(name.start, name.end, chunks[i]) => name \in Range(candidates)

\* What the model reports for a chunk: nothing, or a part of the name; the whole of it if
\* it is there.
LEMMA ReportsAre ==
    ASSUME NEW n \in Candidate, n.start < n.end, NEW c \in Candidate, c.start < c.end,
           NEW r \in Reports(n, c)
    PROVE  \/ /\ r = <<>> /\ ~Within(n.start, n.end, c)
           \/ \E x : /\ r = <<x>>
                     /\ InText(c, x) \in Candidate
                     /\ Within(InText(c, x).start, InText(c, x).end, n)
                     /\ Within(n.start, n.end, c) => InText(c, x) = n
<1> DEFINE ns == n.start  ne == n.end  cs == c.start  ce == c.end
           low == IF ns < cs THEN cs ELSE ns
           high == IF ne > ce THEN ce ELSE ne
           x == Clipped(n, c)
<1>1. /\ ns \in Nat /\ ne \in Nat /\ cs \in Nat /\ ce \in Nat /\ n = Span(ns, ne)
      /\ ns < ne /\ cs < ce
  BY DEF Candidate, Span
<1>2. x = Span(low - cs, high - cs)
  BY DEF Clipped
<1>3. Within(n.start, n.end, c) <=> cs <= ns /\ ne <= ce
  BY DEF Within
<1> HIDE DEF ns, ne, cs, ce
<1>4. low \in Nat /\ high \in Nat /\ ns <= low /\ high <= ne
  BY <1>1
<1>5. cs + (low - cs) = low /\ cs + (high - cs) = high
  BY <1>1, <1>4
<1>6. cs <= ns /\ ne <= ce => low = ns /\ high = ne
  BY <1>1
<1> HIDE DEF low, high
<1>7. InText(c, x) = Span(low, high)
  <2>1. InText(c, x) = Span(cs + (low - cs), cs + (high - cs))
    BY <1>2 DEF InText, Span, cs
  <2>2. QED
    BY <1>5, <2>1
<1> HIDE DEF x
<1>8. /\ InText(c, x) \in Candidate
      /\ Within(InText(c, x).start, InText(c, x).end, n)
      /\ Within(n.start, n.end, c) => InText(c, x) = n
  BY <1>1, <1>3, <1>4, <1>6, <1>7 DEF Span, Candidate, Within, ns, ne
<1>9. (r = <<>> /\ ~Within(n.start, n.end, c)) \/ r = <<x>>
  <2>1. Within(n.start, n.end, c) => ~(n.end <= c.start \/ c.end <= n.start)
    BY <1>1, <1>3 DEF ns, ne, cs, ce
  <2>2. CASE Within(n.start, n.end, c)
    BY <2>1, <2>2 DEF Reports, x
  <2>3. CASE ~Within(n.start, n.end, c)
    <3>1. r \in {<<>>, <<x>>}
      BY <2>3 DEF Reports, x
    <3>2. QED
      BY <2>3, <3>1
  <2>4. QED
    BY <2>2, <2>3
<1>10. QED
  BY <1>8, <1>9

\* Nothing is found before the first chunk;
LEMMA InitFound == LongTextInit => FoundInv
<1> SUFFICES ASSUME LongTextInit PROVE FoundInv
  OBVIOUS
<1>1. SplitInv
  BY InitSplitInv DEF LongTextInit
<1>2. Length \in Nat
  BY TextsAssumption DEF LongTextInit, SplitInit, Length
<1>3. chunks = <<>> /\ candidates = <<>> /\ sent = 0 /\ step = "split"
  BY DEF LongTextInit, SplitInit
<1>4. name \in Candidate /\ name.start < name.end /\ name.end <= Length
  BY <1>2 DEF LongTextInit, Span, Candidate
<1>5. QED
  BY <1>1, <1>3, <1>4 DEF FoundInv

\* splitting finds nothing,
LEMMA SplitTextKeeps == ASSUME FoundInv, SplitText PROVE FoundInv'
<1>1. step = "split" /\ sent = 0 /\ UNCHANGED <<name, sent, candidates, result>>
  BY DEF SplitText, FoundInv
<1>2. SplitInv'
  BY SplitKeepsInv DEF SplitText, FoundInv
<1>3. text' = text
  BY DEF SplitText, Split, chunkVars
<1>4. ~splitting' \/ step' = "split"
  BY DEF SplitText, chunkVars, FoundInv
<1>5. step' \in {"split", "detect"}
  BY DEF SplitText
<1>6. \A i \in 1 .. Len(chunks') : ~(i <= sent')
  BY <1>1
<1>7. QED
  BY <1>1, <1>2, <1>3, <1>4, <1>5, <1>6 DEF FoundInv, Length

\* and each chunk adds the name, or a part of it.
LEMMA DetectChunkKeeps == ASSUME FoundInv, DetectChunk PROVE FoundInv'
<1> DEFINE c == chunks[sent + 1]
<1>1. /\ step = "detect" /\ sent < Len(chunks) /\ sent' = sent + 1
      /\ UNCHANGED <<text, start, chunks, splitting, name, step, result>>
  BY DEF DetectChunk, chunkVars
<1>2. SplitInv'
  BY <1>1, SplitKeepsInv DEF FoundInv, chunkVars
<1>3. c \in Candidate /\ c.start < c.end
  <2>1. chunks \in Seq(Candidate) /\ sent + 1 \in 1 .. Len(chunks)
    BY <1>1 DEF FoundInv, SplitInv, Candidate
  <2>2. chunks[sent + 1].start < chunks[sent + 1].end
    BY <2>1 DEF FoundInv, SplitInv, ChunksAreWhole
  <2>3. QED
    BY <2>1, <2>2
<1>4. PICK r \in Reports(name, c) :
         candidates' = AddNew(candidates, [i \in DOMAIN r |-> InText(c, r[i])])
  BY DEF DetectChunk
<1> HIDE DEF c
<1>5. CASE r = <<>> /\ ~Within(name.start, name.end, c)
  <2>1. [i \in DOMAIN r |-> InText(c, r[i])] = <<>>
    BY <1>5
  <2>2. candidates' = candidates
    BY <1>4, <2>1, AddNothing
  <2>3. \A i \in 1 .. Len(chunks) :
           i <= sent + 1 /\ Within(name.start, name.end, chunks[i]) => name \in Range(candidates)
    BY <1>5 DEF FoundInv, c
  <2>4. QED
    BY <1>1, <1>2, <2>2, <2>3 DEF FoundInv, Length
<1>6. ASSUME NEW x, r = <<x>>, InText(c, x) \in Candidate,
             Within(InText(c, x).start, InText(c, x).end, name),
             Within(name.start, name.end, c) => InText(c, x) = name
      PROVE  FoundInv'
  <2> DEFINE y == InText(c, x)
  <2>1. [i \in DOMAIN r |-> InText(c, r[i])] = <<y>>
    BY <1>6
  <2>2. y \in Candidate /\ Within(y.start, y.end, name)
        /\ (Within(name.start, name.end, c) => y = name)
    BY <1>6
  <2> HIDE DEF y
  <2>3. candidates' = IF y \in Range(candidates) THEN candidates ELSE Append(candidates, y)
    BY <1>4, <2>1, AddOne
  <2>4. /\ candidates \in Seq(Candidate)
        /\ \A i, j \in 1 .. Len(candidates) : candidates[i] = candidates[j] => i = j
        /\ \A i \in 1 .. Len(candidates) : Within(candidates[i].start, candidates[i].end, name)
        /\ Range(candidates) = {candidates[i] : i \in 1 .. Len(candidates)}
    BY DEF FoundInv, Range
  <2>5. /\ candidates' \in Seq(Candidate)
        /\ \A i, j \in 1 .. Len(candidates') : candidates'[i] = candidates'[j] => i = j
        /\ \A i \in 1 .. Len(candidates') : Within(candidates'[i].start, candidates'[i].end, name)
        /\ Range(candidates) \cup {y} \subseteq Range(candidates')
    <3>1. CASE y \in Range(candidates)
      BY <2>3, <2>4, <3>1
    <3>2. CASE y \notin Range(candidates)
      <4> DEFINE s == candidates  w == candidates'
      <4>1. /\ w \in Seq(Candidate) /\ Len(w) = Len(s) + 1 /\ w[Len(s) + 1] = y
            /\ \A i \in 1 .. Len(s) : w[i] = s[i] /\ s[i] # y
        BY <2>2, <2>3, <2>4, <3>2
      <4>2. Len(s) \in Nat /\ DOMAIN w = 1 .. Len(w) /\ Range(w) = {w[i] : i \in DOMAIN w}
        BY <2>4, <4>1 DEF Range
      <4> HIDE DEF s, w
      <4>3. \A i \in 1 .. Len(w) : i \in 1 .. Len(s) \/ i = Len(s) + 1
        BY <4>1, <4>2
      <4>4. Range(s) \cup {y} \subseteq Range(w)
        BY <2>4, <4>1, <4>2 DEF s
      <4>5. \A i, j \in 1 .. Len(w) : w[i] = w[j] => i = j
        BY <2>4, <4>1, <4>3 DEF s
      <4>6. \A i \in 1 .. Len(w) : Within(w[i].start, w[i].end, name)
        BY <2>2, <2>4, <4>1, <4>3 DEF s
      <4>7. QED
        BY <4>1, <4>4, <4>5, <4>6 DEF s, w
    <3>3. QED
      BY <3>1, <3>2
  <2>6. ASSUME NEW i \in 1 .. Len(chunks), i <= sent + 1, Within(name.start, name.end, chunks[i])
        PROVE  name \in Range(candidates')
    <3>1. CASE i <= sent
      BY <2>5, <2>6, <3>1 DEF FoundInv
    <3>2. CASE i = sent + 1
      BY <2>2, <2>5, <2>6, <3>2 DEF c
    <3>3. QED
      BY <2>6, <3>1, <3>2 DEF FoundInv
  <2>7. QED
    BY <1>1, <1>2, <2>5, <2>6 DEF FoundInv, Length
<1>7. QED
  BY <1>3, <1>5, <1>6, ReportsAre DEF FoundInv

\* Every step keeps what was found.
LEMMA NextFound == FoundInv /\ [LongTextNext]_longTextVars => FoundInv'
<1> SUFFICES ASSUME FoundInv, [LongTextNext]_longTextVars PROVE FoundInv'
  OBVIOUS
<1>1. ASSUME UNCHANGED <<chunkVars, name, sent, candidates>>,
             \/ step' = step \/ step' = "failed"
             \/ step' = "done" /\ step = "detect" /\ sent = Len(chunks)
      PROVE  FoundInv'
  <2>1. SplitInv'
    BY <1>1, SplitKeepsInv DEF FoundInv
  <2>2. UNCHANGED <<text, start, chunks, splitting, name, sent, candidates>>
    BY <1>1 DEF chunkVars
  <2>3. QED
    BY <1>1, <2>1, <2>2 DEF FoundInv, Length
<1>2. CASE DetectFails
  BY <1>1, <1>2 DEF DetectFails
<1>3. CASE Finish
  BY <1>1, <1>3 DEF Finish
<1>4. CASE UNCHANGED longTextVars
  BY <1>1, <1>4 DEF longTextVars, modelVars
<1>5. QED
  BY <1>2, <1>3, <1>4, SplitTextKeeps, DetectChunkKeeps DEF LongTextNext

\* A name of at most overlap - 103 bytes is a candidate in the end, wherever it lies in the
\* text and however the chunks fall; no candidate is there twice or reaches beyond it
\* (detector.go:118-149).
THEOREM NameIsFoundHolds == LongTextSpec => []NameIsFound
<1>1. FoundInv => NameIsFound
  <2> SUFFICES ASSUME FoundInv, step = "done"
               PROVE  /\ Short => name \in Range(candidates)
                      /\ \A i, j \in DOMAIN candidates : candidates[i] = candidates[j] => i = j
                      /\ \A i \in DOMAIN candidates :
                            Within(candidates[i].start, candidates[i].end, name)
    BY DEF NameIsFound
  <2>1. ASSUME Short PROVE name \in Range(candidates)
    <3>1. /\ ~splitting /\ chunks # <<>> /\ LastEnd = Length /\ sent = Len(chunks)
          /\ DOMAIN chunks = 1 .. Len(chunks)
      BY DEF FoundInv, SplitInv
    <3>2. /\ name.start \in 0 .. Length /\ name.end \in name.start .. LastEnd
          /\ name.end - name.start <= Whole
      <4>1. /\ name.start \in Nat /\ name.end \in Nat /\ name.start < name.end
            /\ name.end <= Length
        BY DEF FoundInv, Candidate
      <4>2. Length \in Nat
        BY TextsAssumption DEF FoundInv, SplitInv, Length
      <4>3. QED
        BY <2>1, <3>1, <4>1, <4>2 DEF Short
    <3>3. PICK i \in DOMAIN chunks : Within(name.start, name.end, chunks[i])
      BY <3>1, <3>2 DEF FoundInv, SplitInv
    <3>4. QED
      BY <3>1, <3>3 DEF FoundInv
  <2>2. DOMAIN candidates = 1 .. Len(candidates)
    BY DEF FoundInv
  <2>3. QED
    BY <2>1, <2>2 DEF FoundInv
<1>2. QED
  BY InitFound, NextFound, <1>1, PTL DEF LongTextSpec
-----------------------------------------------------------------------------
AnyFragment ==
    {f \in [type : Nat, start : Nat, end : Nat] : f.start < f.end}

DInv ==
    /\ status \in {"running", "done", "failed"}
    /\ running \in 1 .. NER
    /\ found \in Seq(Seq(AnyFragment))
    /\ Len(found) = IF status = "done" THEN NER ELSE running - 1
    /\ \A d \in 1 .. Len(found) : \A i \in 1 .. Len(found[d]) : found[d][i].type = d
    /\ preferred = IF running = NER /\ NRules > 0 THEN Merge(ByRules) ELSE <<>>
    /\ status = "done" => running = NER /\ out = Merge(Join(preferred, found[NER]))

\* What detectors find in a text is a set of spans.
LEMMA AnyIsProper == Proper(AnyFragment) /\ \A f \in AnyFragment : f.type \in Nat
  BY DEF Proper, AnyFragment

\* The invariant of a detection: its findings are spans, and the result is theirs.
LEMMA InitDInv == ASSUME NRules \in Nat, DetectionInit PROVE DInv
  BY DEF DetectionInit, DInv, NER

LEMMA FindingsAre ==
    ASSUME TextLen \in Nat, MaxFound \in Nat, NEW d \in Nat, NEW fs \in Findings(d)
    PROVE  fs \in Seq(AnyFragment) /\ \A i \in 1 .. Len(fs) : fs[i].type = d
<1>1. PICK n \in 0 .. MaxFound : fs \in [1 .. n -> FragmentsOf(d)]
  BY DEF Findings
<1>2. \A f \in FragmentsOf(d) : f \in AnyFragment /\ f.type = d
  BY DEF FragmentsOf, Spans, AnyFragment
<1>3. n \in Nat
  OBVIOUS
<1>4. fs \in Seq(FragmentsOf(d)) /\ Len(fs) = n
  BY <1>1, <1>3
<1> HIDE DEF AnyFragment
<1>5. \A i \in 1 .. n : fs[i] \in FragmentsOf(d)
  BY <1>1
<1>6. QED
  BY <1>1, <1>2, <1>3, <1>4, <1>5

\* Every step keeps it.
LEMMA NextDInv ==
    ASSUME NRules \in Nat, TextLen \in Nat, MaxFound \in Nat, DInv, [DetectionNext]_detectionVars
    PROVE  DInv'
<1>0. NER = NRules + 1 /\ NER \in Nat
  BY DEF NER
<1> DEFINE Grown(d) ==
             /\ found' \in Seq(Seq(AnyFragment)) /\ Len(found') = d
             /\ \A e \in 1 .. d - 1 : found'[e] = found[e]
             /\ \A e \in 1 .. d : \A i \in 1 .. Len(found'[e]) : found'[e][i].type = e
<1>1. ASSUME NEW d \in Nat, Len(found) = d - 1, NEW fs \in Findings(d), found' = Append(found, fs)
      PROVE  Grown(d)
  <2>1. fs \in Seq(AnyFragment) /\ \A i \in 1 .. Len(fs) : fs[i].type = d
    BY <1>1, FindingsAre
  <2>2. found \in Seq(Seq(AnyFragment))
        /\ \A e \in 1 .. d - 1 : \A i \in 1 .. Len(found[e]) : found[e][i].type = e
    BY <1>1 DEF DInv
  <2>3. /\ found' \in Seq(Seq(AnyFragment)) /\ Len(found') = d /\ found'[d] = fs
        /\ \A e \in 1 .. d - 1 : found'[e] = found[e]
    <3>1. (d - 1) + 1 = d
      OBVIOUS
    <3>2. QED
      BY <1>1, <2>1, <2>2, <3>1, AppendProperties
  <2>4. ASSUME NEW e \in 1 .. d, NEW i \in 1 .. Len(found'[e]) PROVE found'[e][i].type = e
    <3>1. CASE e = d
      BY <2>1, <2>3, <3>1
    <3>2. CASE e # d
      <4>1. e \in 1 .. d - 1
        BY <3>2
      <4>2. QED
        BY <2>2, <2>3, <4>1
    <3>3. QED
      BY <3>1, <3>2
  <2>5. QED
    BY <2>3, <2>4
<1>2. CASE RuleReturns
  <2>1. PICK fs \in Findings(running) : found' = Append(found, fs)
    BY <1>2 DEF RuleReturns
  <2>2. /\ status = "running" /\ running \in 1 .. NRules /\ running' = running + 1
        /\ preferred' = IF running = NRules THEN Merge(FlattenSeq(found')) ELSE preferred
        /\ status' = status /\ out' = out
        /\ running \in Nat /\ Len(found) = running - 1
    BY <1>0, <1>2 DEF RuleReturns, DInv
  <2>3. /\ found' \in Seq(Seq(AnyFragment)) /\ Len(found') = running
        /\ \A e \in 1 .. running : \A i \in 1 .. Len(found'[e]) : found'[e][i].type = e
    <3> HIDE DEF Grown
    <3>1. Grown(running)
      BY <1>1, <2>1, <2>2
    <3>2. QED
      BY <3>1 DEF Grown
  <2>4. running' \in 1 .. NER /\ Len(found') = running' - 1 /\ running' - 1 = running
    BY <1>0, <2>2, <2>3
  <2>5. preferred' = IF running' = NER /\ NRules > 0 THEN Merge(ByRules') ELSE <<>>
    <3>1. CASE running = NRules
      <4>1. SubSeq(found', 1, NRules) = found'
        BY <2>3, <3>1
      <4>2. Merge(ByRules') = Merge(FlattenSeq(found'))
        BY <4>1 DEF ByRules
      <4>3. QED
        BY <1>0, <2>2, <3>1, <4>2
    <3>2. CASE running # NRules
      BY <1>0, <2>2, <3>2 DEF DInv
    <3>3. QED
      BY <3>1, <3>2
  <2>6. QED
    BY <2>2, <2>3, <2>4, <2>5 DEF DInv, NER
<1>3. CASE FallbackReturns
  <2>1. PICK fs \in Findings(NER) : found' = Append(found, fs)
    BY <1>3 DEF FallbackReturns
  <2>2. /\ status = "running" /\ running = NER /\ running' = running
        /\ preferred' = preferred /\ status' = "done"
        /\ out' = Merge(Join(preferred, found'[NER]))
        /\ Len(found) = NER - 1
    BY <1>3 DEF FallbackReturns, DInv
  <2>3. /\ found' \in Seq(Seq(AnyFragment)) /\ Len(found') = NER
        /\ \A e \in 1 .. NER - 1 : found'[e] = found[e]
        /\ \A e \in 1 .. NER : \A i \in 1 .. Len(found'[e]) : found'[e][i].type = e
    <3> HIDE DEF Grown
    <3>1. Grown(NER)
      BY <1>0, <1>1, <2>1, <2>2
    <3>2. QED
      BY <3>1 DEF Grown
  <2>4. ByRules' = ByRules
    <3>1. NER - 1 = NRules /\ \A e \in 1 .. NRules : e \in 1 .. NER - 1
      BY <1>0
    <3>2. SubSeq(found', 1, NRules) = [e \in 1 .. NRules |-> found'[e]]
          /\ SubSeq(found, 1, NRules) = [e \in 1 .. NRules |-> found[e]]
      BY <1>0, <2>2, <2>3 DEF DInv
    <3>3. SubSeq(found', 1, NRules) = SubSeq(found, 1, NRules)
      BY <2>3, <3>1, <3>2
    <3>4. QED
      BY <3>3 DEF ByRules
  <2>5. QED
    BY <1>0, <2>2, <2>3, <2>4 DEF DInv, NER
<1>4. CASE DetectorFails
  BY <1>4 DEF DetectorFails, DInv, NER, ByRules
<1>5. CASE UNCHANGED detectionVars
  BY <1>5 DEF detectionVars, DInv, NER, ByRules
<1>6. QED
  BY <1>2, <1>3, <1>4, <1>5 DEF DetectionNext

LEMMA MergedIsApart ==
    ASSUME NEW X, Proper(X), NEW s \in Seq(X), NEW m, Merged(s, m, X)
    PROVE  Apart(m, 0)
<1>1. /\ m \in Seq(X) /\ Len(m) \in Nat
      /\ \A i, j \in 1 .. Len(m) : i < j => m[i].end <= m[j].start
  BY DEF Merged
<1>2. ASSUME NEW i \in 1 .. Len(m), NEW j \in 1 .. Len(m), i < j
      PROVE  ~Overlap(m[i], m[j]) /\ ~Overlap(m[j], m[i])
  <2>1. m[i].end \in Nat /\ m[j].start \in Nat /\ m[i].end <= m[j].start
    BY <1>1, <1>2 DEF Proper
  <2>2. QED
    BY <2>1 DEF Overlap
<1>3. QED
  BY <1>1, <1>2 DEF Apart

\* What the rule detectors found, and what Merge leaves of it.
LEMMA RulesResult ==
    ASSUME NRules \in Nat, DInv, running = NER
    PROVE  /\ ByRules \in Seq(AnyFragment)
           /\ \A f : f \in Range(ByRules) <=> \E d \in 1 .. NRules : f \in Range(found[d])
           /\ \A i, j \in 1 .. Len(ByRules) : i < j => ByRules[i].type <= ByRules[j].type
           /\ Merged(ByRules, preferred, AnyFragment)
           /\ Range(Merge(ByRules)) \subseteq Range(preferred)
<1> DEFINE sub == SubSeq(found, 1, NRules)
<1>1. /\ found \in Seq(Seq(AnyFragment)) /\ Len(found) >= NRules /\ Len(found) \in Nat
      /\ \A d \in 1 .. Len(found) : \A i \in 1 .. Len(found[d]) : found[d][i].type = d
  BY DEF DInv, NER
<1>2. /\ sub \in Seq(Seq(AnyFragment)) /\ Len(sub) = NRules
      /\ \A d \in 1 .. NRules : sub[d] = found[d] /\ d \in 1 .. Len(found)
  <2>1. NRules \in 0 .. Len(found) /\ \A d \in 1 .. NRules : d \in 1 .. Len(found) /\ 1 + d - 1 = d
    BY <1>1
  <2>2. /\ sub \in Seq(Seq(AnyFragment)) /\ Len(sub) = NRules
        /\ \A d \in 1 .. NRules : sub[d] = found[d]
    <3>1. 1 \in Int /\ NRules \in Int
      OBVIOUS
    <3>2. QED
      BY <1>1, <2>1
  <2>3. QED
    BY <2>1, <2>2
<1>3. ByRules = FlattenSeq(sub)
  BY DEF ByRules
<1> HIDE DEF sub
<1>4. ByRules \in Seq(AnyFragment)
  BY <1>2, <1>3, FlattenType
<1>5. \A f : f \in Range(ByRules) <=> \E d \in 1 .. NRules : f \in Range(found[d])
  <2> SUFFICES ASSUME NEW f
               PROVE  f \in Range(ByRules) <=> \E d \in 1 .. NRules : f \in Range(found[d])
    OBVIOUS
  <2>1. f \in Range(ByRules) <=> \E d \in DOMAIN sub : f \in Range(sub[d])
    BY <1>2, <1>3, FlattenRange
  <2>2. DOMAIN sub = 1 .. NRules
    BY <1>2
  <2>3. QED
    BY <1>2, <2>1, <2>2
<1>6. \A i, j \in 1 .. Len(ByRules) : i < j => ByRules[i].type <= ByRules[j].type
  <2>1. \A d \in 1 .. Len(sub) : \A i \in 1 .. Len(sub[d]) : sub[d][i].type = d
    BY <1>1, <1>2
  <2>2. QED
    BY <1>2, <1>3, <2>1, AnyIsProper, FlattenOrder
<1>7. Merged(ByRules, Merge(ByRules), AnyFragment)
  BY <1>4, AnyIsProper, MergeIs
<1>8. CASE NRules > 0
  <2>1. preferred = Merge(ByRules)
    BY <1>8 DEF DInv
  <2>2. QED
    BY <1>4, <1>5, <1>6, <1>7, <2>1
<1>9. CASE NRules = 0
  <2>1. preferred = <<>>
    BY <1>9 DEF DInv
  <2>2. \A i \in 1 .. Len(ByRules) : FALSE
    <3>1. \A f : f \notin Range(ByRules)
      BY <1>5, <1>9
    <3>2. QED
      BY <1>4, <3>1, InOwnRange
  <2>3. Merged(ByRules, <<>>, AnyFragment)
    BY <2>2 DEF Merged
  <2>4. Range(Merge(ByRules)) = {}
    <3>1. /\ Merge(ByRules) \in Seq(AnyFragment)
          /\ \A i \in 1 .. Len(Merge(ByRules)) : FALSE
      BY <1>7, <2>2 DEF Merged
    <3>2. QED
      BY <3>1, InOwnRange
  <2>5. QED
    BY <1>4, <1>5, <1>6, <2>1, <2>3, <2>4
<1>10. QED
  BY <1>4, <1>5, <1>6, <1>8, <1>9

\* What the call returns.
LEMMA DetectionResult ==
    ASSUME NRules \in Nat, DInv, status = "done"
    PROVE  NothingIsLost /\ StructuralSurvives
<1> DEFINE ner == found[NER]
           all == Join(preferred, ner)
<1>1. /\ running = NER /\ Len(found) = NER /\ NER = NRules + 1
      /\ out = Merge(all) /\ found \in Seq(Seq(AnyFragment))
      /\ \A d \in 1 .. NER : found[d] \in Seq(AnyFragment)
                               /\ \A i \in 1 .. Len(found[d]) : found[d][i].type = d
  BY DEF DInv, NER
<1>2. /\ ByRules \in Seq(AnyFragment)
      /\ \A f : f \in Range(ByRules) <=> \E d \in 1 .. NRules : f \in Range(found[d])
      /\ \A i, j \in 1 .. Len(ByRules) : i < j => ByRules[i].type <= ByRules[j].type
      /\ Merged(ByRules, preferred, AnyFragment)
      /\ Range(Merge(ByRules)) \subseteq Range(preferred)
  BY <1>1, RulesResult
<1>3. /\ preferred \in Seq(AnyFragment)
      /\ \A i \in 1 .. Len(preferred) : \E k \in 1 .. Len(ByRules) : preferred[i] = ByRules[k]
      /\ \A k \in 1 .. Len(ByRules) : \E i \in 1 .. Len(preferred) :
            \/ preferred[i] = ByRules[k]
            \/ Overlap(ByRules[k], preferred[i]) /\ Beats(ByRules, preferred[i], k)
  BY <1>2 DEF Merged
<1>4. NER \in 1 .. NER /\ ner \in Seq(AnyFragment)
  BY <1>1
<1> HIDE DEF ner
<1>5. Takes(preferred, ner, AnyFragment, Len(ner), all)
  BY <1>3, <1>4, TakeApartIs DEF Join
<1> HIDE DEF all
<1>6. /\ all \in Seq(AnyFragment)
      /\ Len(preferred) <= Len(all) /\ \A i \in 1 .. Len(preferred) : all[i] = preferred[i]
      /\ \A i, j \in 1 .. Len(all) : i # j /\ j > Len(preferred) => ~Overlap(all[i], all[j])
      /\ \A k \in 1 .. Len(ner) :
            \/ \E i \in 1 .. Len(all) : all[i] = ner[k]
            \/ \E i \in 1 .. Len(all) : Overlap(ner[k], all[i])
  BY <1>5 DEF Takes, Apart
<1>7. Apart(all, 0)
  <2>1. Apart(preferred, 0)
    BY <1>2, AnyIsProper, MergedIsApart
  <2>2. Len(preferred) \in Nat /\ Len(all) \in Nat
    BY <1>3, <1>6
  <2>3. ASSUME NEW i \in 1 .. Len(all), NEW j \in 1 .. Len(all), i # j
        PROVE  ~Overlap(all[i], all[j])
    <3>1. CASE j > Len(preferred)
      BY <1>6, <2>3, <3>1
    <3>2. CASE i > Len(preferred)
      <4>1. ~Overlap(all[j], all[i])
        BY <1>6, <2>3, <3>2
      <4>2. QED
        BY <4>1 DEF Overlap
    <3>3. CASE i <= Len(preferred) /\ j <= Len(preferred)
      <4>1. i \in 1 .. Len(preferred) /\ j \in 1 .. Len(preferred) /\ j > 0
        BY <2>2, <3>3
      <4>2. all[i] = preferred[i] /\ all[j] = preferred[j]
        BY <1>6, <4>1
      <4>3. QED
        BY <2>1, <2>3, <4>1, <4>2 DEF Apart
    <3>4. QED
      BY <2>2, <3>1, <3>2, <3>3
  <2>4. QED
    BY <2>3 DEF Apart
<1>8. Range(out) = Range(all) /\ Merged(all, out, AnyFragment)
  BY <1>1, <1>6, <1>7, AnyIsProper, MergeKeeps, MergeIs
<1>9. /\ out \in Seq(AnyFragment) /\ Len(out) \in Nat
      /\ \A i, j \in 1 .. Len(out) : i < j => out[i].end <= out[j].start
  BY <1>8 DEF Merged
<1>10. /\ \A x : x \in Range(out) <=> \E i \in 1 .. Len(out) : x = out[i]
       /\ \A x : x \in Range(all) <=> \E i \in 1 .. Len(all) : x = all[i]
       /\ \A x : x \in Range(preferred) <=> \E i \in 1 .. Len(preferred) : x = preferred[i]
       /\ \A x : x \in Range(ner) <=> \E i \in 1 .. Len(ner) : x = ner[i]
       /\ \A x : x \in Range(ByRules) <=> \E i \in 1 .. Len(ByRules) : x = ByRules[i]
  BY <1>2, <1>3, <1>4, <1>6, <1>9, InOwnRange
<1>11. Range(preferred) \subseteq Range(out)
  <2>1. \A i \in 1 .. Len(preferred) : i \in 1 .. Len(all) /\ all[i] = preferred[i]
    BY <1>3, <1>6
  <2>2. QED
    BY <1>8, <1>10, <2>1
<1>12. StructuralSurvives
  BY <1>2, <1>11 DEF StructuralSurvives, ByRules
<1>13. \A i \in 1 .. Len(out) - 1 : out[i].end <= out[i + 1].start
  <2>1. \A i \in 1 .. Len(out) - 1 : i \in 1 .. Len(out) /\ i + 1 \in 1 .. Len(out) /\ i < i + 1
    BY <1>9
  <2>2. QED
    BY <1>9, <2>1
<1>14. ASSUME NEW f, \E d \in 1 .. NRules : f \in Range(found[d])
       PROVE  \E g \in Range(out) :
                 f = g \/ (Overlap(f, g) /\ g.type # NER /\ Outranks(g, f))
  <2>1. PICK k \in 1 .. Len(ByRules) : f = ByRules[k]
    BY <1>2, <1>10, <1>14
  <2>2. PICK i \in 1 .. Len(preferred) :
           \/ preferred[i] = f
           \/ Overlap(f, preferred[i]) /\ Beats(ByRules, preferred[i], k)
    BY <1>3, <2>1
  <2> DEFINE g == preferred[i]
  <2>3. g \in Range(out)
    BY <1>10, <1>11
  <2>4. CASE Overlap(f, g) /\ Beats(ByRules, g, k)
    <3>1. PICK l \in 1 .. Len(ByRules) :
             g = ByRules[l] /\ (<<g, f>> \in LongerFirst(ByRules) \/ l < k)
      BY <2>1, <2>4 DEF Beats
    <3>2. <<f, g>> \notin LongerFirst(ByRules)
      BY <2>1, <2>4 DEF Beats
    <3>3. f \in Range(ByRules) /\ g \in Range(ByRules) /\ f \in AnyFragment /\ g \in AnyFragment
      BY <1>2, <1>10, <2>1, <3>1
    <3>4. g.type # NER
      <4>1. PICK e \in 1 .. NRules : g \in Range(found[e])
        BY <1>2, <3>3
      <4>2. e \in 1 .. NER /\ e # NER
        BY <1>1
      <4>3. /\ found[e] \in Seq(AnyFragment)
            /\ \A j \in 1 .. Len(found[e]) : found[e][j].type = e
        BY <1>1, <4>2
      <4>4. \A x : x \in Range(found[e]) <=> \E j \in 1 .. Len(found[e]) : x = found[e][j]
        BY <4>3, InOwnRange
      <4>5. PICK j \in 1 .. Len(found[e]) : g = found[e][j]
        BY <4>1, <4>4
      <4>6. g.type = e
        BY <4>3, <4>5
      <4>7. QED
        BY <4>2, <4>6
    <3>5. /\ f.start \in Nat /\ g.start \in Nat /\ Size(f) \in Int /\ Size(g) \in Int
          /\ f.type \in Nat /\ g.type \in Nat
      BY <3>3 DEF AnyFragment, Size
    <3>6. l < k => g.type <= f.type
      BY <1>2, <2>1, <3>1
    <3>7. /\ <<g, f>> \in LongerFirst(ByRules) <=>
                 Size(g) > Size(f) \/ (Size(g) = Size(f) /\ g.start < f.start)
          /\ ~(Size(f) > Size(g) \/ (Size(f) = Size(g) /\ f.start < g.start))
      BY <3>2, <3>3 DEF LongerFirst
    <3> HIDE DEF g, Size
    <3>8. \/ Size(g) > Size(f)
          \/ Size(g) = Size(f) /\ g.start < f.start
          \/ Size(g) = Size(f) /\ g.start = f.start /\ g.type <= f.type
      BY <3>1, <3>5, <3>6, <3>7
    <3>9. Outranks(g, f)
      BY <3>8 DEF Outranks
    <3>10. QED
      BY <2>3, <2>4, <3>4, <3>9
  <2>5. QED
    BY <2>2, <2>3, <2>4
<1>15. ASSUME NEW f, f \in Range(ner)
       PROVE  f.type = NER /\ \E g \in Range(out) : f = g \/ Overlap(f, g)
  <2>1. PICK k \in 1 .. Len(ner) : f = ner[k]
    BY <1>10, <1>15
  <2>2. f.type = NER
    BY <1>1, <1>4, <2>1 DEF ner
  <2>3. PICK i \in 1 .. Len(all) : all[i] = f \/ Overlap(f, all[i])
    BY <1>6, <2>1
  <2>4. all[i] \in Range(out)
    BY <1>8, <1>10
  <2>5. QED
    BY <2>2, <2>3, <2>4
<1>16. ASSUME NEW i \in DOMAIN All
       PROVE  \E j \in DOMAIN out :
                 LET f == All[i] g == out[j] IN
                 \/ f = g
                 \/ Overlap(f, g) /\ (f.type = NER \/ (g.type # NER /\ Outranks(g, f)))
  <2> DEFINE f == All[i]
  <2>1. All = FlattenSeq(found)
    BY DEF All
  <2>2. f \in Range(All)
    BY DEF Range
  <2>3. PICK d \in 1 .. NER : f \in Range(found[d])
    <3>1. \E d \in DOMAIN found : f \in Range(found[d])
      BY <1>1, <2>1, <2>2, FlattenRange
    <3>2. DOMAIN found = 1 .. NER
      BY <1>1
    <3>3. QED
      BY <3>1, <3>2
  <2>4. DOMAIN out = 1 .. Len(out)
    BY <1>9
  <2> HIDE DEF f
  <2>5. d \in 1 .. NRules \/ d = NER
    BY <1>1
  <2>6. \E g \in Range(out) :
           f = g \/ (Overlap(f, g) /\ (f.type = NER \/ (g.type # NER /\ Outranks(g, f))))
    <3>1. CASE d \in 1 .. NRules
      BY <1>14, <2>3, <3>1
    <3>2. CASE d = NER
      BY <1>15, <2>3, <3>2 DEF ner
    <3>3. QED
      BY <2>5, <3>1, <3>2
  <2>7. PICK g \in Range(out) :
           f = g \/ (Overlap(f, g) /\ (f.type = NER \/ (g.type # NER /\ Outranks(g, f))))
    BY <2>6
  <2>8. PICK j \in DOMAIN out : out[j] = g
    BY <1>10, <2>4
  <2>9. QED
    BY <2>7, <2>8 DEF f
<1>17. NothingIsLost
  BY <1>1, <1>13, <1>16 DEF NothingIsLost
<1>18. QED
  BY <1>12, <1>17

\* The lengths of the model are numbers.
LEMMA DetectionNumbers == NRules \in Nat /\ TextLen \in Nat /\ MaxFound \in Nat
  BY DetectionAssumption

\* Nothing that a detector found stays in the clear by accident, however many
\* detectors there are and whatever they find.
THEOREM NothingIsLostHolds == DetectionSpec => []NothingIsLost
<1>1. DetectionInit => DInv
  BY DetectionNumbers, InitDInv
<1>2. DInv /\ [DetectionNext]_detectionVars => DInv'
  BY DetectionNumbers, NextDInv
<1>3. DInv => NothingIsLost
  BY DetectionNumbers, DetectionResult DEF NothingIsLost, Done
<1>4. QED
  BY <1>1, <1>2, <1>3, PTL DEF DetectionSpec

\* An NER span never displaces a structural one.
THEOREM StructuralSurvivesHolds == DetectionSpec => []StructuralSurvives
<1>1. DetectionInit => DInv
  BY DetectionNumbers, InitDInv
<1>2. DInv /\ [DetectionNext]_detectionVars => DInv'
  BY DetectionNumbers, NextDInv
<1>3. DInv => StructuralSurvives
  BY DetectionNumbers, DetectionResult DEF StructuralSurvives, Done
<1>4. QED
  BY <1>1, <1>2, <1>3, PTL DEF DetectionSpec
-----------------------------------------------------------------------------
\* A text of the model is a sequence of its atoms.
LEMMA TextsAreTexts == \A t \in MaskTexts : IsText(t)
  BY RoundTripAssumption DEF IsText

\* The masked text stands for the original, atom by atom.
Alike(a, b, ms) ==
    \E A, B : {Word("llm"), Cut} \subseteq A /\ <<Word("llm")>> \in B /\ Aligned(a, b, A, B, ms)

RInv ==
    /\ text \in MaskTexts
    /\ fragments \in Seq(FragmentsIn(text))
    /\ phase \in {"new", "masked", "restored"}
    /\ phase # "new" => masked = Mask(text, fragments, mode, Nonce)
    /\ phase # "new" /\ masked.ok /\ masked.mappings # {} /\ ~HasToken(text)
          => Alike(edited, wanted, masked.mappings)
    /\ phase = "restored" => masked.ok /\ restored = Restore(edited, masked.mappings)

\* Masking makes a text whose atoms stand for the pieces of the original.
LEMMA MaskAligns ==
    ASSUME NEW t, IsText(t), ~HasToken(t),
           NEW F, NEW fs \in Seq(F), Walkable(fs, Len(t)), NEW nonce
    PROVE  Alike(MaskWith(t, fs, "token", nonce).text, Pieces(t, fs),
                 MaskWith(t, fs, "token", nonce).mappings)
<1> DEFINE X == Range(t)
           a == MaskWith(t, fs, "token", nonce).text
           b == Pieces(t, fs)
           ms == {<<TokenFor(fs[i], i - 1, nonce), Slice(t, fs[i].start, fs[i].end)>> :
                     i \in DOMAIN fs}
           Mark(k) == MarkOf(fs, "token", nonce, k)
           A == X \cup MarksOf(fs, "token", nonce) \cup {Word("llm"), Cut}
           B == Seq(X) \cup {<<Word("llm")>>}
<1>1. t \in Seq(X) /\ DOMAIN fs = 1 .. Len(fs) /\ DOMAIN fs \subseteq Nat
      /\ \A i \in 1 .. Len(t) : ~IsToken(t[i])
  <2>1. t \in Seq(X)
    BY DEF IsText
  <2>2. \A i \in DOMAIN t : ~IsToken(t[i])
    BY DEF HasToken
  <2> HIDE DEF X
  <2>3. QED
    BY <2>1, <2>2
<1>2. MaskWith(t, fs, "token", nonce).mappings = ms
  BY DEF MaskWith
<1>3. PICK pieces \in Seq(Seq(Seq(X))) : ArePieces(pieces, t, fs) /\ b = FlattenSeq(pieces)
  <2>1. PICK pieces \in Seq(Seq(Seq(X))) :
           ArePieces(pieces, t, fs) /\ pieces = [i \in DOMAIN t |-> PieceOf(t, fs, i)]
    BY PiecesAre
  <2>2. \A i \in DOMAIN t : PieceAt(t, fs, i) = PieceOf(t, fs, i)
    BY DEF PieceAt, PieceOf
  <2>3. b = FlattenSeq(pieces)
    BY <2>1, <2>2 DEF Pieces
  <2>4. QED
    BY <2>1, <2>3
<1> HIDE DEF X
<1>4. /\ a \in Seq(X \cup MarksOf(fs, "token", nonce))
      /\ b \in Seq(Seq(X))
      /\ MaskedAs(t, fs, "token", nonce, Len(t), a, b)
  <2>1. /\ MaskWith(t, fs, "token", nonce).text \in Seq(X \cup MarksOf(fs, "token", nonce))
        /\ FlattenSeq(pieces) \in Seq(Seq(X))
        /\ MaskedAs(t, fs, "token", nonce, Len(t), MaskWith(t, fs, "token", nonce).text,
                    FlattenSeq(pieces))
    BY <1>1, <1>3, MaskIs
  <2>2. QED
    BY <1>3, <2>1
<1> HIDE DEF a, b
<1>5. /\ \A k \in 1 .. Len(fs) :
            /\ MappedTo(Mark(k), ms) = Slice(t, fs[k].start, fs[k].end)
            /\ IsToken(Mark(k))
  <2>1. \A k \in DOMAIN fs : Mark(k) = TokenFor(fs[k], k - 1, nonce)
    BY DEF MarkOf
  <2>2. AreMappings(ms, t, fs, nonce)
    BY DEF AreMappings
  <2> HIDE DEF Mark, ms
  <2>3. /\ \A k \in DOMAIN fs :
              /\ Known(TokenFor(fs[k], k - 1, nonce), ms)
              /\ MappedTo(TokenFor(fs[k], k - 1, nonce), ms) = Slice(t, fs[k].start, fs[k].end)
        /\ ~Known(Cut, ms)
        /\ \A k \in DOMAIN fs : IsToken(TokenFor(fs[k], k - 1, nonce))
    <3>1. DOMAIN fs \subseteq Nat
      BY <1>1
    <3>2. QED
      BY <2>2, <3>1, MappingIs
  <2>4. QED
    BY <1>1, <2>1, <2>3
<1> HIDE DEF ms
<1>6. ASSUME NEW j \in 1 .. Len(a) PROVE ImageOf(a[j], ms) = b[j]
  <2>1. Stands(t, fs, "token", nonce, Len(t), a[j], b[j])
    BY <1>4 DEF MaskedAs
  <2>2. CASE \E i \in 1 .. Len(t) : a[j] = t[i] /\ b[j] = <<t[i]>>
    BY <1>1, <2>2 DEF ImageOf
  <2>3. CASE \E k \in 1 .. Len(fs) :
                a[j] = Mark(k) /\ b[j] = Slice(t, fs[k].start, fs[k].end)
    <3>1. PICK k \in 1 .. Len(fs) : a[j] = Mark(k) /\ b[j] = Slice(t, fs[k].start, fs[k].end)
      BY <2>3
    <3> HIDE DEF Mark
    <3>2. QED
      BY <1>5, <3>1 DEF ImageOf
  <2>4. QED
    BY <2>1, <2>2, <2>3 DEF Stands
<1>7. a \in Seq(A) /\ b \in Seq(B)
  BY <1>4, SeqMonotonic
<1>8. Aligned(a, b, A, B, ms)
  BY <1>4, <1>6, <1>7 DEF Aligned, MaskedAs
<1>9. {Word("llm"), Cut} \subseteq A /\ <<Word("llm")>> \in B
  OBVIOUS
<1> HIDE DEF A, B
<1>10. Alike(a, b, ms)
  BY <1>8, <1>9 DEF Alike
<1>11. QED
  BY <1>2, <1>10 DEF a, b
\* The fragments of the model are those Mask expects.
LEMMA FragmentsFit ==
    ASSUME NEW t, IsText(t)
    PROVE  /\ Proper(FragmentsIn(t)) /\ \A f \in FragmentsIn(t) : f.end <= Len(t)
           /\ \A f \in FragmentsIn(t) : f.type \in MaskTypes
<1> DEFINE n == Len(t)
<1>1. n \in Nat
  BY DEF IsText
<1> HIDE DEF n
<1>2. ASSUME NEW f \in FragmentsIn(t)
      PROVE  /\ f.start \in Nat /\ f.end \in Nat /\ f.start < f.end /\ f.end <= n
             /\ f.type \in MaskTypes
  <2>1. PICK ty \in MaskTypes, s \in SpansOf(t) : f = [type |-> ty, start |-> s[1], end |-> s[2]]
    BY DEF FragmentsIn
  <2>2. s[1] \in 0 .. n /\ s[2] \in 0 .. n /\ s[1] < s[2]
    BY DEF SpansOf, n
  <2>3. s[1] \in Nat /\ s[2] \in Nat /\ s[1] < s[2] /\ s[2] <= n
    BY <1>1, <2>2
  <2>4. QED
    BY <2>1, <2>3
<1>3. QED
  BY <1>2 DEF Proper, n

\* What a successful Mask leaves for Restore.
LEMMA MaskedIsAlike ==
    ASSUME NEW t, IsText(t), ~HasToken(t), NEW fs \in Seq(FragmentsIn(t)), NEW md, NEW nonce,
           NEW m, m = Mask(t, fs, md, nonce), m.mappings # {}
    PROVE  Alike(m.text, Pieces(t, Merge(fs)), m.mappings)
<1> DEFINE F == FragmentsIn(t)  g == Merge(fs)
<1>1. Proper(F) /\ \A f \in F : f.end <= Len(t)
  BY FragmentsFit
<1>2. fs # <<>>
  <2>1. fs = <<>> => m.mappings = {}
    BY DEF Mask
  <2>2. QED
    BY <2>1
<1> HIDE DEF F
<1>3. fs \in Seq(F)
  BY DEF F
<1>4. g \in Seq(F) /\ Walkable(g, Len(t)) /\ Mask(t, fs, md, nonce) = MaskWith(t, g, md, nonce)
  BY <1>1, <1>2, <1>3, MaskResult
<1> HIDE DEF g
<1>5. md = "token"
  BY <1>4 DEF MaskWith
<1>6. Alike(MaskWith(t, g, "token", nonce).text, Pieces(t, g),
            MaskWith(t, g, "token", nonce).mappings)
  BY <1>4, MaskAligns
<1>7. QED
  BY <1>4, <1>5, <1>6 DEF g

\* The invariant of the round trip: before the call,
LEMMA RInit ==
    ASSUME MaxFragments \in Nat, RoundTripInit
    PROVE  RInv
<1>1. text \in MaskTexts /\ phase = "new"
  BY DEF RoundTripInit
<1>2. fragments \in Seq(FragmentsIn(text))
  BY DEF RoundTripInit
<1>3. QED
  BY <1>1, <1>2 DEF RInv

\* after the masking,
LEMMA RMask ==
    ASSUME \A t \in MaskTexts : IsText(t), RInv, MaskText
    PROVE  RInv'
<1>1. /\ text \in MaskTexts /\ fragments \in Seq(FragmentsIn(text)) /\ phase' = "masked"
      /\ text' = text /\ fragments' = fragments /\ mode' = mode
      /\ masked' = Mask(text, fragments, mode, Nonce)
      /\ edited' = IF masked'.ok THEN masked'.text ELSE <<>>
      /\ wanted' = IF masked'.ok THEN Pieces(text, Merge(fragments)) ELSE <<>>
  BY DEF RInv, MaskText
<1>2. FragmentsIn(text)' = FragmentsIn(text) /\ HasToken(text)' = HasToken(text)
  BY <1>1 DEF FragmentsIn, HasToken, SpansOf
<1>3. Nonce' = Nonce
  BY DEF Nonce
<1>4. ASSUME masked'.ok, masked'.mappings # {}, ~HasToken(text)
      PROVE  Alike(edited, wanted, masked.mappings)'
  <2>1. Alike(masked'.text, Pieces(text, Merge(fragments)), masked'.mappings)
    BY <1>1, <1>4, MaskedIsAlike
  <2>2. QED
    BY <1>1, <1>4, <2>1
<1>5. QED
  BY <1>1, <1>2, <1>3, <1>4 DEF RInv
\* Whatever the LLM does to the masked text, what its atoms stand for follows.
LEMMA AlikeEdited ==
    ASSUME NEW a, NEW b, NEW ms, Alike(a, b, ms)
    PROVE  /\ \A i \in DOMAIN a : Alike(RemoveAt(a, i), RemoveAt(b, i), ms)
           /\ \A i \in DOMAIN a, j \in 1 .. Len(a) + 1 :
                 Alike(InsertAt(a, j, a[i]), InsertAt(b, j, b[i]), ms)
           /\ \A j \in 1 .. Len(a) + 1 :
                 Alike(InsertAt(a, j, Word("llm")), InsertAt(b, j, <<Word("llm")>>), ms)
           /\ \A i \in DOMAIN a : Alike(ReplaceAt(a, i, Cut), b, ms)
<1>1. PICK A, B : {Word("llm"), Cut} \subseteq A /\ <<Word("llm")>> \in B
                  /\ Aligned(a, b, A, B, ms)
  BY DEF Alike
<1>2. DOMAIN a = 1 .. Len(a) /\ \A i \in 1 .. Len(a) : a[i] \in A /\ b[i] \in B
  BY <1>1 DEF Aligned
<1>3. \A i \in 1 .. Len(a) : a[i] = Cut \/ ImageOf(a[i], ms) = b[i]
  BY <1>1 DEF Aligned
<1>4. ImageOf(Word("llm"), ms) = <<Word("llm")>>
  BY DEF ImageOf, IsToken, Word
<1>5. ASSUME NEW c, NEW d, Aligned(c, d, A, B, ms) PROVE Alike(c, d, ms)
  BY <1>1, <1>5 DEF Alike
<1>6. ASSUME NEW i \in DOMAIN a PROVE Alike(RemoveAt(a, i), RemoveAt(b, i), ms)
  BY <1>1, <1>2, <1>5, AlignedRemove
<1>7. ASSUME NEW i \in DOMAIN a, NEW j \in 1 .. Len(a) + 1
      PROVE  Alike(InsertAt(a, j, a[i]), InsertAt(b, j, b[i]), ms)
  <2>1. a[i] \in A /\ b[i] \in B /\ (a[i] = Cut \/ ImageOf(a[i], ms) = b[i])
    BY <1>2, <1>3
  <2>2. Aligned(InsertAt(a, j, a[i]), InsertAt(b, j, b[i]), A, B, ms)
    BY <1>1, <2>1, AlignedInsert
  <2>3. QED
    BY <1>5, <2>2
<1>8. ASSUME NEW j \in 1 .. Len(a) + 1
      PROVE  Alike(InsertAt(a, j, Word("llm")), InsertAt(b, j, <<Word("llm")>>), ms)
  <2>1. Word("llm") \in A /\ <<Word("llm")>> \in B
    BY <1>1
  <2>2. Aligned(InsertAt(a, j, Word("llm")), InsertAt(b, j, <<Word("llm")>>), A, B, ms)
    BY <1>1, <1>4, <2>1, AlignedInsert
  <2>3. QED
    BY <1>5, <2>2
<1>9. ASSUME NEW i \in DOMAIN a PROVE Alike(ReplaceAt(a, i, Cut), b, ms)
  <2>1. Cut \in A
    BY <1>1
  <2>2. Aligned(ReplaceAt(a, i, Cut), b, A, B, ms)
    BY <1>1, <1>2, <2>1, AlignedCut
  <2>3. QED
    BY <1>5, <2>2
<1>10. QED
  BY <1>6, <1>7, <1>8, <1>9

\* after the edits of an LLM,
LEMMA REdit ==
    ASSUME RInv, Edit
    PROVE  RInv'
<1>1. /\ text' = text /\ fragments' = fragments /\ mode' = mode /\ masked' = masked
      /\ phase' = phase /\ restored' = restored /\ phase = "masked"
  BY DEF Edit
<1>2. FragmentsIn(text)' = FragmentsIn(text) /\ HasToken(text)' = HasToken(text)
      /\ Nonce' = Nonce
  BY <1>1 DEF FragmentsIn, HasToken, SpansOf, Nonce
<1>3. ASSUME masked.ok, masked.mappings # {}, ~HasToken(text)
      PROVE  Alike(edited', wanted', masked.mappings)
  <2>1. Alike(edited, wanted, masked.mappings)
    BY <1>1, <1>3 DEF RInv
  <2>2. \/ \E i \in DOMAIN edited :
             edited' = RemoveAt(edited, i) /\ wanted' = RemoveAt(wanted, i)
        \/ \E i \in DOMAIN edited, j \in 1 .. Len(edited) + 1 :
             edited' = InsertAt(edited, j, edited[i]) /\ wanted' = InsertAt(wanted, j, wanted[i])
        \/ \E j \in 1 .. Len(edited) + 1 :
             /\ edited' = InsertAt(edited, j, Word("llm"))
             /\ wanted' = InsertAt(wanted, j, <<Word("llm")>>)
        \/ \E i \in DOMAIN edited : edited' = ReplaceAt(edited, i, Cut) /\ wanted' = wanted
    <3>1. /\ \A s, i, x : /\ InsertAt(s, i, x) = InsertAt(s, i, x)
                          /\ ReplaceAt(s, i, x) = ReplaceAt(s, i, x)
                          /\ RemoveAt(s, i) = RemoveAt(s, i)
          /\ Cut = Cut /\ Word("llm") = Word("llm")
      OBVIOUS
    <3>2. QED
      BY <3>1 DEF Edit
  <2>3. QED
    BY <2>1, <2>2, AlikeEdited
<1>4. QED
  BY <1>1, <1>2, <1>3 DEF RInv

\* and after the restoring.
LEMMA RRestore ==
    ASSUME RInv, RestoreText
    PROVE  RInv'
<1>1. /\ text' = text /\ fragments' = fragments /\ mode' = mode /\ masked' = masked
      /\ edited' = edited /\ wanted' = wanted
      /\ phase' = "restored" /\ phase = "masked" /\ masked.ok
      /\ restored' = Restore(edited, masked.mappings)
  BY DEF RestoreText
<1>2. FragmentsIn(text)' = FragmentsIn(text) /\ HasToken(text)' = HasToken(text)
      /\ Nonce' = Nonce
  BY <1>1 DEF FragmentsIn, HasToken, SpansOf, Nonce
<1>3. QED
  BY <1>1, <1>2 DEF RInv

\* RInv is an invariant of the round trip: whatever is done to a masked text, it stays
\* aligned with what Restore makes of it.
THEOREM RInvHolds == RoundTripSpec => []RInv
<1>1. RoundTripInit => RInv
  BY RInit, RoundTripAssumption
<1>2. RInv /\ [RoundTripNext]_roundTripVars => RInv'
  <2>1. ASSUME RInv, MaskText PROVE RInv'
    BY <2>1, TextsAreTexts, RMask
  <2>2. ASSUME RInv, Edit PROVE RInv'
    BY <2>2, REdit
  <2>3. ASSUME RInv, RestoreText PROVE RInv'
    BY <2>3, RRestore
  <2>4. ASSUME RInv, UNCHANGED roundTripVars PROVE RInv'
    <3>1. /\ text' = text /\ fragments' = fragments /\ mode' = mode /\ masked' = masked
          /\ edited' = edited /\ wanted' = wanted /\ phase' = phase /\ restored' = restored
      BY <2>4 DEF roundTripVars
    <3>2. FragmentsIn(text)' = FragmentsIn(text) /\ HasToken(text)' = HasToken(text)
          /\ Nonce' = Nonce
      BY <3>1 DEF FragmentsIn, HasToken, SpansOf, Nonce
    <3>3. QED
      BY <2>4, <3>1, <3>2 DEF RInv
  <2>5. QED
    BY <2>1, <2>2, <2>3, <2>4 DEF RoundTripNext
<1>3. QED
  BY <1>1, <1>2, PTL DEF RoundTripSpec
\* When an aligned text comes back, each atom is what it stands for.
LEMMA RestoredIs ==
    ASSUME NEW a, NEW b, NEW ms, NEW r, r = Restore(a, ms), ms # {}
    PROVE  /\ r.ok \in BOOLEAN
           /\ r.ok <=> \A i \in DOMAIN a : IsToken(a[i]) => Known(a[i], ms)
           /\ r.ok /\ Alike(a, b, ms) /\ ~Known(Cut, ms) => r.text = FlattenSeq(b)
<1> DEFINE Bad == \E i \in DOMAIN a : IsToken(a[i]) /\ ~Known(a[i], ms)
           images == [i \in DOMAIN a |-> IF IsToken(a[i]) THEN MappedTo(a[i], ms) ELSE <<a[i]>>]
<1>1. r = IF Bad THEN Failure ELSE Success(FlattenSeq(images))
  BY DEF Restore
<1>2. Bad <=> ~(\A i \in DOMAIN a : IsToken(a[i]) => Known(a[i], ms))
  OBVIOUS
<1>3. ASSUME ~Bad, Alike(a, b, ms), ~Known(Cut, ms) PROVE images = b
  <2>1. PICK A, B : Aligned(a, b, A, B, ms)
    BY <1>3 DEF Alike
  <2>2. /\ DOMAIN a = 1 .. Len(a) /\ DOMAIN b = 1 .. Len(a)
        /\ b = [i \in 1 .. Len(a) |-> b[i]]
    BY <2>1 DEF Aligned
  <2>3. IsToken(Cut)
    BY DEF IsToken, Cut
  <2>4. \A i \in 1 .. Len(a) : a[i] # Cut
    BY <1>3, <2>2, <2>3
  <2>5. \A i \in 1 .. Len(a) : ImageOf(a[i], ms) = b[i]
    BY <2>1, <2>4 DEF Aligned
  <2>6. \A i \in 1 .. Len(a) :
           (IF IsToken(a[i]) THEN MappedTo(a[i], ms) ELSE <<a[i]>>) = b[i]
    BY <2>5 DEF ImageOf
  <2>7. QED
    BY <2>2, <2>6
<1> HIDE DEF Bad, images
<1>4. r.ok <=> ~Bad
  BY <1>1 DEF Failure, Success
<1>5. r.ok => r.text = FlattenSeq(images)
  BY <1>1, <1>4 DEF Success
<1>6. r.ok \in BOOLEAN
  BY <1>1 DEF Failure, Success
<1>7. QED
  BY <1>2, <1>3, <1>4, <1>5, <1>6

\* A cut token is never one of the tokens of a mapping.
LEMMA CutIsUnknown ==
    ASSUME NEW t, IsText(t), NEW fs \in Seq(FragmentsIn(t)), NEW md, NEW nonce,
           NEW m, m = Mask(t, fs, md, nonce), m.ok
    PROVE  ~Known(Cut, m.mappings)
<1> DEFINE g == Merge(fs)
<1>1. CASE m.mappings = {}
  BY <1>1 DEF Known
<1>2. CASE m.mappings # {}
  <2>1. fs # <<>>
    <3>1. fs = <<>> => m.mappings = {}
      BY DEF Mask
    <3>2. QED
      BY <1>2, <3>1
  <2> HIDE DEF g
  <2>2. g \in Seq(FragmentsIn(t)) /\ m = MaskWith(t, g, md, nonce)
    BY <2>1, FragmentsFit, MaskResult DEF g
  <2>3. md = "token"
    BY <1>2, <2>2 DEF MaskWith
  <2>4. AreMappings(m.mappings, t, g, nonce)
    BY <2>2, <2>3 DEF MaskWith, AreMappings
  <2>5. DOMAIN g \subseteq Nat
    BY <2>2
  <2>6. QED
    BY <2>4, <2>5, MappingIs
<1>3. QED
  BY <1>1, <1>2

\* What was masked comes back: for texts of any atoms, any fragments, any number of
\* edits by the LLM, each whole token is replaced by exactly what it replaced, and a
\* damaged or foreign token is an error (Mask and Restore, masking.go:63-137).
THEOREM RestoreIsExactHolds == RoundTripSpec => []RestoreIsExact
<1>1. RInv => RestoreIsExact
  <2> SUFFICES ASSUME RInv, phase = "restored", masked.mappings # {}
               PROVE  /\ restored.ok <=> \A i \in DOMAIN edited :
                            IsToken(edited[i]) => Known(edited[i], masked.mappings)
                      /\ restored.ok /\ ~HasToken(text) => restored.text = FlattenSeq(wanted)
    BY DEF RestoreIsExact
  <2>1. /\ text \in MaskTexts /\ fragments \in Seq(FragmentsIn(text))
        /\ masked = Mask(text, fragments, mode, Nonce) /\ masked.ok
        /\ restored = Restore(edited, masked.mappings)
        /\ ~HasToken(text) => Alike(edited, wanted, masked.mappings)
    BY DEF RInv
  <2>2. ~Known(Cut, masked.mappings)
    BY <2>1, TextsAreTexts, CutIsUnknown
  <2>3. QED
    BY <2>1, <2>2, RestoredIs
<1>2. QED
  BY <1>1, RInvHolds, PTL
-----------------------------------------------------------------------------
\* What is hidden.

\* A text whose atoms are told apart, and from every mark of this operation.
IsMarkFree(t, nonce) ==
    /\ \A i, j \in DOMAIN t : t[i] = t[j] => i = j
    /\ \A i \in DOMAIN t :
          t[i] # Stars /\ \A ty \in MaskTypes, k \in Nat : t[i] # Token(ty, k, nonce)

\* In a masked text no covered atom is left.
LEMMA MaskHides ==
    ASSUME NEW t, IsText(t), NEW md, NEW nonce, IsMarkFree(t, nonce),
           NEW fs \in Seq(FragmentsIn(t)), NEW i \in DOMAIN t
    PROVE  Covered(Merge(fs), i) <=> t[i] \notin Range(Mask(t, fs, md, nonce).text)
<1> DEFINE F == FragmentsIn(t)  g == Merge(fs)  a == Mask(t, fs, md, nonce).text
<1>1. t \in Seq(Range(t)) /\ i \in 1 .. Len(t) /\ DOMAIN t = 1 .. Len(t) /\ Len(t) \in Nat
  BY DEF IsText
<1>2. Proper(F) /\ (\A f \in F : f.end <= Len(t)) /\ \A f \in F : f.type \in MaskTypes
  BY FragmentsFit
<1> HIDE DEF F
<1>3. fs \in Seq(F)
  BY DEF F
<1>4. CASE fs = <<>>
  <2>1. Merged(fs, g, F)
    BY <1>2, <1>3, MergeIs
  <2> HIDE DEF g
  <2>2. g \in Seq(F) /\ \A k \in 1 .. Len(g) : \E l \in 1 .. Len(fs) : g[k] = fs[l]
    BY <2>1 DEF Merged
  <2>3. Len(fs) = 0 /\ Len(g) \in Nat
    BY <1>4, <2>2
  <2>4. ~Covered(g, i)
    BY <2>2, <2>3 DEF Covered
  <2>5. t[i] \in Range(Mask(t, fs, md, nonce).text)
    BY <1>1, <1>4 DEF Mask, Range
  <2>6. QED
    BY <2>4, <2>5 DEF g
<1>5. CASE fs # <<>>
  <2> HIDE DEF g
  <2>1. g \in Seq(F) /\ Walkable(g, Len(t)) /\ Mask(t, fs, md, nonce) = MaskWith(t, g, md, nonce)
    BY <1>2, <1>3, <1>5, MaskResult DEF g
  <2> DEFINE X == Range(t)
  <2>2. PICK pieces \in Seq(Seq(Seq(X))) : ArePieces(pieces, t, g)
    BY <2>1, PiecesAre
  <2>3. t \in Seq(X)
    BY <1>1
  <2> HIDE DEF X
  <2> DEFINE b == FlattenSeq(pieces)  w == MaskWith(t, g, md, nonce).text
             Z == X \cup MarksOf(g, md, nonce)
  <2>4. /\ w \in Seq(Z) /\ b \in Seq(Seq(X))
        /\ MaskedAs(t, g, md, nonce, Len(t), w, b)
    BY <2>1, <2>2, <2>3, MaskIs
  <2> HIDE DEF b, w, Z
  <2>5. /\ \A j \in 1 .. Len(w) : Stands(t, g, md, nonce, Len(t), w[j], b[j])
        /\ ~Covered(g, i) => \E j \in 1 .. Len(w) : w[j] = t[i]
    BY <1>1, <2>4 DEF MaskedAs
  <2>6. \A x : x \in Range(w) <=> \E j \in 1 .. Len(w) : x = w[j]
    BY <2>4, InOwnRange
  <2>7. ASSUME NEW k \in 1 .. Len(g) PROVE t[i] # MarkOf(g, md, nonce, k)
    <3>1. g[k] \in F /\ k \in Nat /\ k - 1 \in Nat
      BY <2>1
    <3>2. t[i] # Stars /\ t[i] # Token(g[k].type, k - 1, nonce)
      BY <1>2, <3>1 DEF IsMarkFree
    <3>3. QED
      BY <3>2 DEF MarkOf, TokenFor
  <2>8. ASSUME NEW j \in 1 .. Len(w), w[j] = t[i] PROVE ~Covered(g, i)
    <3>1. PICK l \in 1 .. Len(t) : ~Covered(g, l) /\ t[i] = t[l]
      BY <2>5, <2>7, <2>8 DEF Stands
    <3>2. l = i
      BY <1>1, <3>1 DEF IsMarkFree
    <3>3. QED
      BY <3>1, <3>2
  <2>9. Covered(g, i) <=> t[i] \notin Range(w)
    BY <2>5, <2>6, <2>8
  <2>10. QED
    BY <2>1, <2>9 DEF g, w
<1>6. QED
  BY <1>4, <1>5

\* Exactly what the merged fragments cover is hidden, whatever the mode, for texts whose
\* atoms are told apart and that hold no mark of this operation, the token's random nonce
\* being new (Mask, masking.go:63-101).
THEOREM CoveredIsHiddenHolds ==
    ASSUME \A t \in MaskTexts : IsMarkFree(t, Nonce)
    PROVE  RoundTripSpec => []CoveredIsHidden
<1>1. RInv => CoveredIsHidden
  <2> SUFFICES ASSUME RInv, phase = "masked", NEW i \in DOMAIN text
               PROVE  (\E f \in Range(Merge(fragments)) : f.start < i /\ i <= f.end)
                      <=> text[i] \notin Range(masked.text)
    BY DEF CoveredIsHidden
  <2>1. /\ text \in MaskTexts /\ fragments \in Seq(FragmentsIn(text))
        /\ masked = Mask(text, fragments, mode, Nonce)
    BY DEF RInv
  <2>2. Covered(Merge(fragments), i) <=> text[i] \notin Range(masked.text)
    BY <2>1, TextsAreTexts, MaskHides
  <2>3. Merge(fragments) \in Seq(FragmentsIn(text))
    BY <2>1, TextsAreTexts, FragmentsFit, MergeIs DEF Merged
  <2>4. \A f : f \in Range(Merge(fragments))
                <=> \E k \in 1 .. Len(Merge(fragments)) : f = Merge(fragments)[k]
    BY <2>3, InOwnRange
  <2>5. QED
    BY <2>2, <2>4 DEF Covered
<1>2. QED
  BY <1>1, RInvHolds, PTL
-----------------------------------------------------------------------------
\* Until stops at the first of the words.
LEMMA UntilIs ==
    ASSUME Len(text) \in Nat, NEW p \in 0 .. Len(text), NEW words
    PROVE  /\ Until(p, words) \in p .. Len(text)
           /\ Until(p, words) = Len(text) \/ text[Until(p, words) + 1] \in words
           /\ \A i \in p + 1 .. Until(p, words) : text[i] \notin words
<1> DEFINE Stop(i) == i = Len(text) \/ text[i + 1] \in words
           S == {i \in p .. Len(text) : Stop(i)}
           u == Min(S)
<1>1. S \in SUBSET Nat /\ Len(text) \in S
  OBVIOUS
<1>2. u \in S /\ \A i \in S : u <= i
  <2> HIDE DEF S
  <2> QED BY <1>1, MinIs
<1>3. u = Until(p, words)
  BY DEF Until
<1> HIDE DEF u
<1>4. u \in p .. Len(text) /\ Stop(u)
  BY <1>2
<1>5. ASSUME NEW i \in p + 1 .. u PROVE text[i] \notin words
  <2> DEFINE q == i - 1
  <2>1. q \in p .. Len(text) /\ ~(u <= q) /\ q + 1 = i
    BY <1>4
  <2> HIDE DEF q
  <2>2. ~Stop(q)
    BY <1>2, <2>1
  <2>3. QED
    BY <2>1, <2>2
<1>6. QED
  BY <1>3, <1>4, <1>5

\* The first place is unique.
LEMMA UntilFrom ==
    ASSUME Len(text) \in Nat, NEW p \in 0 .. Len(text), NEW words,
           NEW u \in p .. Len(text), u = Len(text) \/ text[u + 1] \in words,
           \A i \in p + 1 .. u : text[i] \notin words
    PROVE  Until(p, words) = u
<1> DEFINE w == Until(p, words)
<1>1. /\ w \in p .. Len(text) /\ (w = Len(text) \/ text[w + 1] \in words)
      /\ \A i \in p + 1 .. w : text[i] \notin words
  BY UntilIs
<1> HIDE DEF w
<1>2. ~(w < u)
  <2> SUFFICES ASSUME w < u PROVE FALSE
    OBVIOUS
  <2>1. w + 1 \in p + 1 .. u /\ w # Len(text)
    BY <1>1
  <2>2. QED
    BY <1>1, <2>1
<1>3. ~(u < w)
  <2> SUFFICES ASSUME u < w PROVE FALSE
    OBVIOUS
  <2>1. u + 1 \in p + 1 .. w /\ u # Len(text)
    BY <1>1
  <2>2. QED
    BY <1>1, <2>1
<1>4. QED
  BY <1>1, <1>2, <1>3 DEF w

\* Skip stops at the first atom that is no separator.
LEMMA SkipIs ==
    ASSUME Len(text) \in Nat, NEW p \in 0 .. Len(text)
    PROVE  /\ Skip(p) \in p .. Len(text)
           /\ Skip(p) = Len(text) \/ text[Skip(p) + 1] \notin Separators
           /\ \A i \in p + 1 .. Skip(p) : text[i] \in Separators
<1> DEFINE Stop(i) == i = Len(text) \/ text[i + 1] \notin Separators
           S == {i \in p .. Len(text) : Stop(i)}
           u == Min(S)
<1>1. S \in SUBSET Nat /\ Len(text) \in S
  OBVIOUS
<1>2. u \in S /\ \A i \in S : u <= i
  <2> HIDE DEF S
  <2> QED BY <1>1, MinIs
<1>3. u = Skip(p)
  BY DEF Skip
<1> HIDE DEF u
<1>4. u \in p .. Len(text) /\ Stop(u)
  BY <1>2
<1>5. ASSUME NEW i \in p + 1 .. u PROVE text[i] \in Separators
  <2> DEFINE q == i - 1
  <2>1. q \in p .. Len(text) /\ ~(u <= q) /\ q + 1 = i
    BY <1>4
  <2> HIDE DEF q
  <2>2. ~Stop(q)
    BY <1>2, <2>1
  <2>3. QED
    BY <2>1, <2>2
<1>6. QED
  BY <1>3, <1>4, <1>5

\* The first place that is no separator is unique, too.
LEMMA SkipFrom ==
    ASSUME Len(text) \in Nat, NEW p \in 0 .. Len(text),
           NEW u \in p .. Len(text), u = Len(text) \/ text[u + 1] \notin Separators,
           \A i \in p + 1 .. u : text[i] \in Separators
    PROVE  Skip(p) = u
<1> DEFINE w == Skip(p)
<1>1. /\ w \in p .. Len(text) /\ (w = Len(text) \/ text[w + 1] \notin Separators)
      /\ \A i \in p + 1 .. w : text[i] \in Separators
  BY SkipIs
<1> HIDE DEF w
<1>2. ~(w < u)
  <2> SUFFICES ASSUME w < u PROVE FALSE
    OBVIOUS
  <2>1. w + 1 \in p + 1 .. u /\ w # Len(text)
    BY <1>1
  <2>2. QED
    BY <1>1, <2>1
<1>3. ~(u < w)
  <2> SUFFICES ASSUME u < w PROVE FALSE
    OBVIOUS
  <2>1. u + 1 \in p + 1 .. w /\ u # Len(text)
    BY <1>1
  <2>2. QED
    BY <1>1, <2>1
<1>4. QED
  BY <1>1, <1>2, <1>3 DEF w

\* A word of the list in a part of the text.
LEMMA HasIs ==
    ASSUME text \in Seq(Range(text)), NEW a \in 0 .. Len(text), NEW b \in a .. Len(text), NEW words
    PROVE  Has(a, b, words) <=> \E i \in a + 1 .. b : text[i] \in words
<1>0. Len(text) \in Nat
  OBVIOUS
<1>1. /\ Part(a, b) \in Seq(Range(text)) /\ Len(Part(a, b)) = b - a
      /\ \A i \in 1 .. b - a : Part(a, b)[i] = text[a + 1 + i - 1]
  <2>1. a + 1 \in 1 .. Len(text) + 1 /\ b \in (a + 1) - 1 .. Len(text) /\ b - (a + 1) + 1 = b - a
    BY <1>0
  <2>2. QED
    BY <1>0, <2>1, SubSeqProperties DEF Part
<1> HIDE DEF Part
<1>2. \A x : x \in Range(Part(a, b)) <=> \E i \in 1 .. b - a : x = text[a + 1 + i - 1]
  <2> DEFINE t == Part(a, b)
  <2>1. \A x : x \in Range(t) <=> \E i \in 1 .. Len(t) : x = t[i]
    <3> HIDE DEF t
    <3> QED BY <1>1, InOwnRange DEF t
  <2>2. Len(t) = b - a /\ \A i \in 1 .. b - a : t[i] = text[a + 1 + i - 1]
    BY <1>1
  <2> HIDE DEF t
  <2>3. ASSUME NEW x PROVE x \in Range(t) <=> \E i \in 1 .. b - a : x = text[a + 1 + i - 1]
    <3>1. ASSUME x \in Range(t) PROVE \E i \in 1 .. b - a : x = text[a + 1 + i - 1]
      <4>1. PICK i \in 1 .. Len(t) : x = t[i]
        BY <2>1, <3>1
      <4>2. QED
        BY <2>2, <4>1
    <3>2. ASSUME NEW i \in 1 .. b - a, x = text[a + 1 + i - 1] PROVE x \in Range(t)
      <4>1. i \in 1 .. Len(t) /\ x = t[i]
        BY <2>2, <3>2
      <4>2. QED
        BY <2>1, <4>1
    <3>3. QED
      BY <3>1, <3>2
  <2>4. QED
    BY <2>3 DEF t
<1>3. ASSUME NEW i \in a + 1 .. b PROVE i - a \in 1 .. b - a /\ a + 1 + (i - a) - 1 = i
  BY <1>0
<1>4. ASSUME NEW i \in 1 .. b - a PROVE a + 1 + i - 1 \in a + 1 .. b
  BY <1>0
<1>5. ASSUME NEW i \in a + 1 .. b, text[i] \in words PROVE Has(a, b, words)
  <2> DEFINE k == i - a
  <2>1. k \in 1 .. b - a /\ a + 1 + k - 1 = i
    BY <1>3
  <2> HIDE DEF k
  <2>2. text[i] \in Range(Part(a, b))
    BY <1>2, <2>1
  <2>3. QED
    BY <1>5, <2>2 DEF Has
<1>6. ASSUME Has(a, b, words) PROVE \E i \in a + 1 .. b : text[i] \in words
  <2>1. PICK x \in words : x \in Range(Part(a, b))
    BY <1>6 DEF Has
  <2>2. PICK i \in 1 .. b - a : x = text[a + 1 + i - 1]
    BY <1>2, <2>1
  <2>3. QED
    BY <1>4, <2>1, <2>2
<1>7. QED
  BY <1>5, <1>6
-----------------------------------------------------------------------------
Detectors == {"full_name", "card_holder", "citizenship", "birth_place", "address",
              "passport_issuer", "birth_date", "passport_issue_date", "cvv", "pin"}
IsFieldText == text \in Seq(Range(text)) /\ Len(text) \in Nat /\ detector \in Detectors

\* Separators end here.
AtWord(p) == p \in 0 .. Len(text) /\ (p = Len(text) \/ text[p + 1] \notin Separators)

\* A word that may stand between is passed over with its separators.
LEMMA SkipWordIs ==
    ASSUME Len(text) \in Nat, NEW p, AtWord(p), NEW word
    PROVE  /\ AtWord(SkipWord(p, word)) /\ p <= SkipWord(p, word)
           /\ \A i \in p + 1 .. SkipWord(p, word) : text[i] \in Separators \cup {word}
<1>1. CASE At(p, word)
  <2> DEFINE q == p + 1
             w == Skip(q)
  <2>1. q \in 1 .. Len(text) /\ p \in Nat /\ text[q] = word
    BY <1>1 DEF At, AtWord
  <2>2. /\ w \in q .. Len(text) /\ (w = Len(text) \/ text[w + 1] \notin Separators)
        /\ \A i \in q + 1 .. w : text[i] \in Separators
    <3> HIDE DEF q
    <3>1. q \in 0 .. Len(text)
      BY <2>1
    <3>2. QED
      BY <3>1, SkipIs
  <2>3. SkipWord(p, word) = w
    BY <1>1 DEF SkipWord
  <2> HIDE DEF w
  <2>4. \A i \in p + 1 .. w : i = q \/ i \in q + 1 .. w
    BY <2>1, <2>2
  <2>5. p <= w /\ w \in 0 .. Len(text)
    BY <2>1, <2>2
  <2> HIDE DEF q
  <2>6. QED
    BY <2>1, <2>2, <2>3, <2>4, <2>5 DEF AtWord
<1>2. CASE ~At(p, word)
  <2>1. SkipWord(p, word) = p /\ p \in Nat
    BY <1>2 DEF SkipWord, AtWord
  <2>2. QED
    BY <2>1
<1>3. QED
  BY <1>1, <1>2

\* Skip ends where a value may start.
LEMMA SkipIsAtWord ==
    ASSUME Len(text) \in Nat, NEW p \in 0 .. Len(text)
    PROVE  AtWord(Skip(p)) /\ p <= Skip(p)
BY SkipIs DEF AtWord

\* So does the search for a name after its label,
LEMMA NameStartIs ==
    ASSUME Len(text) \in Nat, NEW p \in 0 .. Len(text)
    PROVE  AtWord(NameStart(p)) /\ p <= NameStart(p)
<1> DEFINE s == Skip(p)
           mark == Until(s, Ends \cup {"colon"})
<1>1. AtWord(s) /\ p <= s /\ s \in 0 .. Len(text)
  BY SkipIsAtWord DEF AtWord
<1>2. NameStart(p) \in {s, Skip(mark)}
  BY DEF NameStart
<1> HIDE DEF s
<1>3. mark \in s .. Len(text)
  BY <1>1, UntilIs
<1> HIDE DEF mark
<1>4. AtWord(Skip(mark)) /\ mark <= Skip(mark) /\ Skip(mark) \in 0 .. Len(text)
  <2>1. mark \in 0 .. Len(text)
    BY <1>1, <1>3
  <2>2. QED
    BY <2>1, SkipIsAtWord DEF AtWord
<1>5. p <= Skip(mark)
  BY <1>1, <1>3, <1>4
<1>6. QED
  BY <1>1, <1>2, <1>4, <1>5

\* and that for the value of any other label.
LEMMA ValueStartIs ==
    ASSUME IsFieldText, NEW p \in 0 .. Len(text)
    PROVE  AtWord(ValueStart(p)) /\ p <= ValueStart(p)
<1> USE DEF IsFieldText
<1>1. AtWord(Skip(p)) /\ p <= Skip(p)
  BY SkipIsAtWord
<1>2. AtWord(NameStart(p)) /\ p <= NameStart(p)
  BY NameStartIs
<1>3. ASSUME NEW q, AtWord(q), p <= q, NEW word
      PROVE  AtWord(SkipWord(q, word)) /\ p <= SkipWord(q, word)
  <2>1. AtWord(SkipWord(q, word)) /\ q <= SkipWord(q, word)
    BY <1>3, SkipWordIs
  <2>2. q \in Nat /\ SkipWord(q, word) \in Nat
    BY <1>3, <2>1 DEF AtWord
  <2>3. QED
    BY <1>3, <2>1, <2>2
<1>4. AtWord(Skip(IssuerLabelEnd(p))) /\ p <= Skip(IssuerLabelEnd(p))
  <2> DEFINE q == IssuerLabelEnd(p)
  <2>1. q \in p .. Len(text)
    BY DEF IssuerLabelEnd, At
  <2> HIDE DEF q
  <2>2. AtWord(Skip(q)) /\ q <= Skip(q)
    BY <2>1, SkipIsAtWord
  <2>3. Skip(q) \in Nat
    BY <2>2 DEF AtWord
  <2>4. QED
    BY <2>1, <2>2, <2>3 DEF q
<1>5. ValueStart(p) \in {Skip(p), SkipWord(NameStart(p), "as"), SkipWord(Skip(p), "owner"),
                         SkipWord(Skip(IssuerLabelEnd(p)), "as")}
  BY DEF ValueStart
<1>6. QED
  BY <1>1, <1>2, <1>3, <1>4, <1>5
-----------------------------------------------------------------------------
\* What the scanners of values pass over.
LEMMA WordsEndIs ==
    ASSUME Len(text) \in Nat, NEW s \in 0 .. Len(text)
    PROVE  /\ WordsEnd(s) \in s .. Len(text)
           /\ WordsEnd(s) - s <= NameWords
           /\ \A i \in s + 1 .. WordsEnd(s) : text[i] \notin Marks \cup Numbers
<1> DEFINE u == Until(s, Marks \cup Numbers)
           w == s + NameWords
           S == {w, u}
<1>1. u \in s .. Len(text) /\ \A i \in s + 1 .. u : text[i] \notin Marks \cup Numbers
  BY UntilIs
<1>2. WordsEnd(s) = Min(S)
  BY DEF WordsEnd
<1> HIDE DEF u
<1>3. w \in Nat /\ s <= w /\ NameWords \in Nat /\ w - s <= NameWords
  BY FieldsAssumption
<1> HIDE DEF w
<1>4. Min(S) \in S /\ \A x \in S : Min(S) <= x
  <2>1. S \in SUBSET Nat /\ S # {}
    BY <1>1, <1>3
  <2> HIDE DEF S
  <2>2. QED
    BY <2>1, MinIs
<1>5. WordsEnd(s) \in s .. u /\ WordsEnd(s) <= w
  BY <1>1, <1>2, <1>3, <1>4
<1>6. \A i \in s + 1 .. WordsEnd(s) : i \in s + 1 .. u
  BY <1>1, <1>5
<1>7. WordsEnd(s) \in s .. Len(text) /\ WordsEnd(s) - s <= NameWords
  BY <1>1, <1>3, <1>5
<1>8. QED
  BY <1>1, <1>6, <1>7

\* An address ends at the end of a line or a sentence, before a date or a telephone, and
\* at a comma before another field.
LEMMA AddressEndIs ==
    ASSUME Len(text) \in Nat, NEW s \in 0 .. Len(text)
    PROVE  /\ AddressEnd(s) \in s .. Len(text)
           /\ \A i \in s + 1 .. AddressEnd(s) :
                 /\ text[i] \notin {"nl", "semi", "dot", "date", "and_phone"}
                 /\ text[i] = "comma" => ~FieldAhead(i)
<1> DEFINE Stop(i) == \/ i = Len(text) \/ text[i + 1] \in {"nl", "semi", "dot", "date", "and_phone"}
                      \/ text[i + 1] = "comma" /\ FieldAhead(i + 1)
           S == {i \in s .. Len(text) : Stop(i)}
           u == Min(S)
<1>1. S \in SUBSET Nat /\ Len(text) \in S
  OBVIOUS
<1>2. u \in S /\ \A i \in S : u <= i
  <2> HIDE DEF S
  <2> QED BY <1>1, MinIs
<1>3. u = AddressEnd(s)
  BY DEF AddressEnd
<1> HIDE DEF u
<1>4. u \in s .. Len(text)
  BY <1>2
<1>5. ASSUME NEW i \in s + 1 .. u
      PROVE  /\ text[i] \notin {"nl", "semi", "dot", "date", "and_phone"}
             /\ text[i] = "comma" => ~FieldAhead(i)
  <2> DEFINE q == i - 1
  <2>1. q \in s .. Len(text) /\ ~(u <= q) /\ q + 1 = i
    BY <1>4
  <2> HIDE DEF q
  <2>2. ~Stop(q)
    BY <1>2, <2>1
  <2>3. QED
    BY <2>1, <2>2
<1>6. QED
  BY <1>3, <1>4, <1>5

\* An issuer ends before a date, and runs over an end only if that date is near; it is
\* not an end itself.
LEMMA IssuerEndIs ==
    ASSUME Len(text) \in Nat, NEW s \in 0 .. Len(text)
    PROVE  /\ IssuerEnd(s) \in s .. Len(text)
           /\ \A i \in s + 1 .. IssuerEnd(s) : text[i] \notin {"date"}
           /\ IssuerEnd(s) > s => text[s + 1] \notin Ends
           /\ (\E i \in s + 1 .. IssuerEnd(s) : text[i] \in Ends) =>
                 At(IssuerEnd(s), "date") /\ IssuerEnd(s) < Until(s, Ends) + TrimReach
<1> DEFINE stops == Ends \cup {"date"}
           e == Until(s, stops)
           date == Until(s, {"date"})
           near == Min({e + TrimReach, Len(text)})
<1>1. /\ e \in s .. Len(text) /\ (e = Len(text) \/ text[e + 1] \in stops)
      /\ \A i \in s + 1 .. e : text[i] \notin stops
  <2> HIDE DEF stops
  <2> QED BY UntilIs
<1>2. /\ date \in s .. Len(text) /\ (date = Len(text) \/ text[date + 1] \in {"date"})
      /\ \A i \in s + 1 .. date : text[i] \notin {"date"}
  BY UntilIs
<1>3. IssuerEnd(s) = IF e > s /\ date < near THEN date ELSE e
  BY DEF IssuerEnd
<1> HIDE DEF e, date
<1>4. near <= e + TrimReach /\ near <= Len(text) /\ near \in Nat
  <2> DEFINE S == {e + TrimReach, Len(text)}
  <2>1. S \in SUBSET Nat /\ S # {}
    BY <1>1, FieldsAssumption
  <2>2. e + TrimReach \in S /\ Len(text) \in S
    OBVIOUS
  <2> HIDE DEF S
  <2>3. Min(S) \in S /\ \A x \in S : Min(S) <= x
    BY <2>1, MinIs
  <2>4. QED
    BY <2>1, <2>2, <2>3 DEF S
<1> HIDE DEF near
<1>5. IssuerEnd(s) > s => s + 1 \in s + 1 .. e
  BY <1>1, <1>3
<1>6. IssuerEnd(s) > s => text[s + 1] \notin Ends
  BY <1>1, <1>5
<1>7. ASSUME NEW i \in s + 1 .. IssuerEnd(s), text[i] \in Ends
      PROVE  At(IssuerEnd(s), "date") /\ IssuerEnd(s) < Until(s, Ends) + TrimReach
  <2>1. IssuerEnd(s) # e
    BY <1>1, <1>7
  <2>2. IssuerEnd(s) = date /\ e > s /\ date < near
    BY <1>3, <2>1
  <2>3. At(date, "date")
    BY <1>2, <1>4, <2>2 DEF At
  <2>4. e < date
    <3>1. i \notin s + 1 .. e /\ i <= date /\ i \in Int
      BY <1>1, <1>2, <1>7, <2>2
    <3>2. i > e
      BY <1>1, <1>7, <3>1
    <3>3. QED
      BY <1>1, <1>2, <3>1, <3>2
  <2>5. e + 1 \in s + 1 .. date
    BY <1>1, <1>2, <2>4
  <2>6. text[e + 1] \in Ends
    BY <1>1, <1>2, <2>4, <2>5
  <2>7. Until(s, Ends) = e
    BY <1>1, <2>6, UntilFrom
  <2>8. date < e + TrimReach
    BY <1>1, <1>2, <1>4, <2>2, FieldsAssumption
  <2>9. QED
    BY <2>2, <2>3, <2>7, <2>8
<1>8. IssuerEnd(s) \in s .. Len(text) /\ \A i \in s + 1 .. IssuerEnd(s) : text[i] \notin {"date"}
  BY <1>1, <1>2, <1>3
<1>9. QED
  BY <1>6, <1>7, <1>8

\* Other values end at the first end.
LEMMA TextEndIs ==
    ASSUME Len(text) \in Nat, NEW s \in 0 .. Len(text)
    PROVE  /\ TextEnd(s) \in s .. Len(text)
           /\ \A i \in s + 1 .. TextEnd(s) : text[i] \notin Ends
BY UntilIs DEF TextEnd

\* What a value may be, of atoms s + 1 .. e.
CleanValue(s, e) ==
    /\ s \in Nat /\ e \in Nat /\ s < e /\ e <= Len(text)
    /\ text[s + 1] \notin Ends \cup {"colon"}
    /\ IsClean(s, e)

\* However its detector ends a value, the value is clean.
LEMMA ValueIsClean ==
    ASSUME IsFieldText, NEW s, AtWord(s), ValueEnd(s) > s
    PROVE  CleanValue(s, ValueEnd(s))
<1> DEFINE e == ValueEnd(s)
<1>0. /\ text \in Seq(Range(text)) /\ Len(text) \in Nat /\ s \in 0 .. Len(text)
      /\ detector \in Detectors /\ (s = Len(text) \/ text[s + 1] \notin Separators)
  BY DEF IsFieldText, AtWord
<1>1. ASSUME e \in s .. Len(text)
      PROVE  /\ s \in Nat /\ e \in Nat /\ s < e /\ e <= Len(text) /\ s # Len(text)
             /\ s + 1 \in s + 1 .. e
             /\ \A words : Has(s, e, words) <=> \E i \in s + 1 .. e : text[i] \in words
  <2> HIDE DEF e
  <2>1. s \in Nat /\ e \in Nat /\ s < e /\ e <= Len(text) /\ s # Len(text)
        /\ s + 1 \in s + 1 .. e
    BY <1>0, <1>1 DEF e
  <2>2. QED
    BY <1>0, <1>1, <2>1, HasIs
<1>2. CASE detector \in {"full_name", "card_holder"}
  <2>1. e = WordsEnd(s)
    BY <1>2 DEF ValueEnd
  <2>2. /\ e \in s .. Len(text) /\ e - s <= NameWords
        /\ \A i \in s + 1 .. e : text[i] \notin Marks \cup Numbers
    BY <1>0, <2>1, WordsEndIs
  <2> HIDE DEF e
  <2>3. IsClean(s, e)
    BY <1>1, <1>2, <2>2 DEF IsClean
  <2>4. text[s + 1] \notin Ends \cup {"colon"}
    BY <1>1, <2>2 DEF Marks, Ends
  <2>5. QED
    BY <1>1, <2>2, <2>3, <2>4 DEF e, CleanValue
<1>3. CASE detector = "citizenship"
  <2>1. e = TextEnd(s)
    BY <1>3 DEF ValueEnd
  <2>2. e \in s .. Len(text) /\ \A i \in s + 1 .. e : text[i] \notin Ends
    BY <1>0, <2>1, TextEndIs
  <2> HIDE DEF e
  <2>3. IsClean(s, e)
    BY <1>1, <1>3, <2>2 DEF IsClean
  <2>4. text[s + 1] \notin Ends \cup {"colon"}
    BY <1>0, <1>1, <2>2 DEF Separators
  <2>5. QED
    BY <1>1, <2>2, <2>3, <2>4 DEF e, CleanValue
<1>4. CASE detector \in {"birth_place", "address"}
  <2>1. e = AddressEnd(s)
    BY <1>4 DEF ValueEnd
  <2>2. /\ e \in s .. Len(text)
        /\ \A i \in s + 1 .. e : /\ text[i] \notin {"nl", "semi", "dot", "date", "and_phone"}
                                 /\ text[i] = "comma" => ~FieldAhead(i)
    BY <1>0, <2>1, AddressEndIs
  <2> HIDE DEF e
  <2>3. ~Has(s, e, {"nl", "semi", "dot", "date", "and_phone"})
    BY <1>1, <2>2
  <2>4. IsClean(s, e)
    BY <1>4, <2>2, <2>3 DEF IsClean
  <2>5. text[s + 1] \notin Ends \cup {"colon"}
    BY <1>0, <1>1, <2>2 DEF Separators, Ends
  <2>6. QED
    BY <1>1, <2>2, <2>4, <2>5 DEF e, CleanValue
<1>5. CASE detector = "passport_issuer"
  <2>1. e = IssuerEnd(s)
    BY <1>5 DEF ValueEnd
  <2>2. /\ e \in s .. Len(text) /\ \A i \in s + 1 .. e : text[i] \notin {"date"}
        /\ e > s => text[s + 1] \notin Ends
        /\ (\E i \in s + 1 .. e : text[i] \in Ends) =>
              At(e, "date") /\ e < Until(s, Ends) + TrimReach
    BY <1>0, <2>1, IssuerEndIs
  <2> HIDE DEF e
  <2>3. ~Has(s, e, {"date"}) /\ (Has(s, e, Ends) => At(e, "date") /\ e < Until(s, Ends) + TrimReach)
    BY <1>1, <2>2
  <2>4. IsClean(s, e)
    BY <1>5, <2>3 DEF IsClean
  <2>5. text[s + 1] \notin Ends \cup {"colon"}
    BY <1>0, <1>1, <2>2 DEF Separators, e
  <2>6. QED
    BY <1>1, <2>2, <2>4, <2>5 DEF e, CleanValue
<1>6. CASE detector \in {"birth_date", "passport_issue_date", "cvv", "pin"}
  <2> DEFINE word == IF detector \in {"birth_date", "passport_issue_date"} THEN "date" ELSE "num"
  <2>1. e = Is(s, word)
    BY <1>6 DEF ValueEnd
  <2>2. e = s + 1 /\ s < Len(text) /\ text[s + 1] = word
    BY <1>0, <2>1 DEF Is, At
  <2>3. word \notin Ends \cup {"colon"}
    BY DEF Ends
  <2>4. IsClean(s, e)
    <3> HIDE DEF e
    <3>1. CASE detector \in {"birth_date", "passport_issue_date"}
      BY <2>2, <3>1 DEF IsClean
    <3>2. CASE detector \in {"cvv", "pin"}
      BY <2>2, <3>2 DEF IsClean
    <3>3. QED
      BY <1>6, <3>1, <3>2
  <2> HIDE DEF e, word
  <2>5. QED
    BY <1>0, <2>2, <2>3, <2>4 DEF e, CleanValue
<1>7. QED
  BY <1>0, <1>2, <1>3, <1>4, <1>5, <1>6 DEF Detectors
-----------------------------------------------------------------------------
AsLong(s, e) ==
    /\ detector = "passport_issuer" => e = IssuerEnd(s)
    /\ detector \in {"birth_date", "passport_issue_date"} => e = s + 1
TheFields ==
    {f \in [start : Nat, end : Nat] : CleanValue(f.start, f.end) /\ AsLong(f.start, f.end)}

\* Of the labels up to n.
IsSeen(p, v) ==
    \E j \in 1 .. Len(fields) :
        Overlap(fields[j], v) \/ (fields[j].start < p /\ p <= fields[j].end)
Seen(n) ==
    \A p \in 1 .. Len(text) : p <= n /\ text[p] \in Labels =>
        \A v \in Range(FieldAt(p)) : IsSeen(p, v)

FInv ==
    /\ IsFieldText
    /\ from \in 0 .. Len(text) /\ pass \in {"first", "second", "done"}
    /\ pass = "second" => detector \in {"birth_date", "passport_issue_date", "passport_issuer"}
    /\ fields \in Seq(TheFields)
    /\ Seen(IF pass = "first" THEN from ELSE Len(text))

\* What there is to find depends on the text and the detector alone,
LEMMA SameFields ==
    ASSUME text' = text, detector' = detector
    PROVE  IsFieldText' = IsFieldText /\ TheFields' = TheFields /\ Labels' = Labels
<1>1. IsFieldText' = IsFieldText
  BY DEF IsFieldText
<1>2. Labels' = Labels
  BY DEF Labels
<1>3. \A s : IssuerEnd(s)' = IssuerEnd(s)
  BY Zenon DEF IssuerEnd, Until
<1>4. TheFields' = TheFields
  <2>1. \A s, e : CleanValue(s, e)' <=> CleanValue(s, e)
    <3>1. \A s, e, words : Has(s, e, words)' <=> Has(s, e, words)
      BY DEF Has, Part
    <3>2. \A s, words : Until(s, words)' = Until(s, words)
      BY DEF Until
    <3>3. \A s, word : At(s, word)' <=> At(s, word)
      BY DEF At
    <3>4. \A i : FieldAhead(i)' <=> FieldAhead(i)
      BY <3>2, <3>3 DEF FieldAhead
    <3>5. ASSUME NEW s, NEW e PROVE IsClean(s, e)' <=> IsClean(s, e)
      <4>1. \A words : Has(s, e, words)' <=> Has(s, e, words)
        BY <3>1
      <4>2. Until(s, Ends)' = Until(s, Ends) /\ (At(e, "date")' <=> At(e, "date"))
        BY <3>2, <3>3
      <4> DEFINE CommasApart == \A i \in s + 1 .. e : text[i] = "comma" => ~FieldAhead(i)
      <4>3. CommasApart' <=> CommasApart
        BY <3>4
      <4> HIDE DEF CommasApart
      <4>4. QED
        BY <4>1, <4>2, <4>3, Zenon DEF IsClean, CommasApart
    <3>6. QED
      BY <3>5 DEF CleanValue
  <2>2. \A s, e : AsLong(s, e)' <=> AsLong(s, e)
    BY <1>3 DEF AsLong
  <2>3. QED
    BY <2>1, <2>2 DEF TheFields
<1>5. QED
  BY <1>1, <1>2, <1>4

\* and so does what a label finds.
LEMMA SameFieldAt ==
    ASSUME text' = text, detector' = detector, NEW p
    PROVE  FieldAt(p)' = FieldAt(p)
<1>1. \A q, words : Until(q, words)' = Until(q, words) /\ Since(q, words)' = Since(q, words)
  BY DEF Until, Since
<1>2. \A q, word : At(q, word)' = At(q, word) /\ Is(q, word)' = Is(q, word)
  BY DEF At, Is
<1>3. \A q, r, words : Has(q, r, words)' = Has(q, r, words)
  BY DEF Has, Part
<1>4. \A q, word : Skip(q)' = Skip(q) /\ SkipWord(q, word)' = SkipWord(q, word)
  BY DEF Skip, SkipWord, At
<1>50. \A q : Clause(q)' = Clause(q) /\ Historical(q)' = Historical(q)
  BY <1>1, <1>3 DEF Clause, Historical
<1>51. \A q : BornIsClient(q)' = BornIsClient(q)
  BY <1>1, <1>3 DEF BornIsClient, NoLetters
<1>52. \A q : SkipColon(q)' = SkipColon(q)
  BY <1>1 DEF SkipColon
<1>5. \A q : Rejected(q)' = Rejected(q)
  <2> SUFFICES ASSUME NEW q PROVE Rejected(q)' = Rejected(q)
    OBVIOUS
  <2>1. Has(Clause(q), q, {"public"})' = Has(Clause(q), q, {"public"})
    BY <1>3, <1>50
  <2>2. Has(Since(q, {"dot", "semi", "nl", "comma"}), q, {"public"})'
           = Has(Since(q, {"dot", "semi", "nl", "comma"}), q, {"public"})
    BY <1>1, <1>3
  <2>3. At(Skip(q), "public")' = At(Skip(q), "public")
    BY <1>2, <1>4
  <2>4. At(SkipColon(q), "public")' = At(SkipColon(q), "public")
    BY <1>2, <1>52
  <2>5. Historical(q)' = Historical(q) /\ BornIsClient(q)' = BornIsClient(q)
        /\ Has(0, q, {"ip"})' = Has(0, q, {"ip"})
    BY <1>3, <1>50, <1>51
  <2>6. QED
    BY <2>1, <2>2, <2>3, <2>4, <2>5 DEF Rejected
<1>6. \A q : ValueStart(q)' = ValueStart(q)
  <2>1. \A q : IssuerLabelEnd(q)' = IssuerLabelEnd(q)
    BY <1>2 DEF IssuerLabelEnd
  <2>2. QED
    BY <1>1, <1>2, <1>3, <1>4, <2>1 DEF ValueStart, NameStart
<1>7. \A q : NearbyDate(q)' = NearbyDate(q) /\ TextEnd(q)' = TextEnd(q)
  BY <1>1, <1>2 DEF NearbyDate, TextEnd
<1>8. \A q : AddressEnd(q)' = AddressEnd(q)
  BY <1>1, <1>2 DEF AddressEnd, FieldAhead
<1>9. \A q : ValueEnd(q)' = ValueEnd(q)
  BY <1>1, <1>2, <1>7, <1>8 DEF ValueEnd, WordsEnd, IssuerEnd
<1>10. \A q, r, u : Plausible(q, r, u)' = Plausible(q, r, u)
  BY <1>1, <1>2, <1>3, <1>7 DEF Plausible, Clause
<1>11. QED
  BY <1>2, <1>5, <1>6, <1>7, <1>9, <1>10 DEF FieldAt
-----------------------------------------------------------------------------
\* The three outcomes of a label.
LEMMA FieldAtIs ==
    ASSUME NEW p, NEW s, s = ValueStart(p), NEW near, near = NearbyDate(s)
    PROVE  \/ FieldAt(p) = <<>>
           \/ ValueEnd(s) > s /\ FieldAt(p) = <<Value(s, ValueEnd(s))>>
           \/ /\ detector = "birth_date" /\ ~(ValueEnd(s) > s)
              /\ near < Len(text) /\ FieldAt(p) = <<Value(near, near + 1)>>
BY Zenon DEF FieldAt

\* A date found near a label is a date, and the first one of its line.
LEMMA NearbyDateIs ==
    ASSUME Len(text) \in Nat, NEW s \in 0 .. Len(text), NearbyDate(s) < Len(text)
    PROVE  /\ NearbyDate(s) \in s .. Len(text) - 1 /\ text[NearbyDate(s) + 1] = "date"
           /\ \A i \in s + 1 .. NearbyDate(s) : text[i] \notin {"date", "semi", "nl"}
<1> DEFINE d == Until(s, {"date", "semi", "nl"})
<1>1. d \in s .. Len(text) /\ \A i \in s + 1 .. d : text[i] \notin {"date", "semi", "nl"}
  BY UntilIs
<1>2. NearbyDate(s) = IF At(d, "date") THEN d ELSE Len(text)
  BY DEF NearbyDate
<1> HIDE DEF d
<1>3. At(d, "date") /\ NearbyDate(s) = d
  BY <1>2
<1>4. QED
  BY <1>1, <1>3 DEF At

\* A date is a field of the detectors of dates,
LEMMA DateIsField ==
    ASSUME IsFieldText, detector \in {"birth_date", "passport_issue_date"},
           NEW d \in 0 .. Len(text) - 1, text[d + 1] = "date"
    PROVE  Value(d, d + 1) \in TheFields
<1> DEFINE e == d + 1
<1>1. Len(text) \in Nat /\ d \in Nat /\ e \in Nat /\ d < e /\ e <= Len(text)
  BY DEF IsFieldText
<1>2. CleanValue(d, e)
  <2>1. IsClean(d, e)
    BY DEF IsClean
  <2>2. "date" \notin Ends \cup {"colon"}
    BY DEF Ends
  <2> HIDE DEF e
  <2>3. QED
    BY <1>1, <2>1, <2>2 DEF CleanValue
<1>3. AsLong(d, e)
  BY DEF AsLong
<1> HIDE DEF e
<1>4. QED
  BY <1>1, <1>2, <1>3 DEF TheFields, Value, e

\* a value from a word on is a field,
LEMMA ValueIsField ==
    ASSUME IsFieldText, NEW s, AtWord(s), ValueEnd(s) > s
    PROVE  Value(s, ValueEnd(s)) \in TheFields
<1>1. CleanValue(s, ValueEnd(s))
  BY ValueIsClean
<1>2. AsLong(s, ValueEnd(s))
  <2>1. s \in Nat
    BY DEF AtWord
  <2>2. CASE detector = "passport_issuer"
    BY <2>2 DEF AsLong, ValueEnd
  <2>3. CASE detector \in {"birth_date", "passport_issue_date"}
    <3>1. ValueEnd(s) = Is(s, "date")
      BY <2>3 DEF ValueEnd
    <3>2. ValueEnd(s) = s + 1
      BY <2>1, <3>1 DEF Is
    <3>3. QED
      BY <2>3, <3>2 DEF AsLong
  <2>4. QED
    BY <2>2, <2>3 DEF AsLong
<1>3. s \in Nat /\ ValueEnd(s) \in Nat
  BY <1>1 DEF CleanValue
<1>4. QED
  BY <1>1, <1>2, <1>3 DEF TheFields, Value

\* what a label finds is a field that starts behind the label,
LEMMA FieldAtIsField ==
    ASSUME IsFieldText, NEW p \in 1 .. Len(text), NEW f, FieldAt(p) = <<f>>
    PROVE  f \in TheFields /\ p <= f.start
<1> DEFINE s == ValueStart(p)
           near == NearbyDate(s)
<1>0. Len(text) \in Nat /\ p \in 0 .. Len(text)
  BY DEF IsFieldText
<1>1. AtWord(s) /\ p <= s /\ s \in 0 .. Len(text)
  BY <1>0, ValueStartIs DEF AtWord
<1>2. \/ FieldAt(p) = <<>>
      \/ ValueEnd(s) > s /\ FieldAt(p) = <<Value(s, ValueEnd(s))>>
      \/ /\ detector = "birth_date" /\ ~(ValueEnd(s) > s)
         /\ near < Len(text) /\ FieldAt(p) = <<Value(near, near + 1)>>
  BY FieldAtIs
<1> HIDE DEF s
<1>3. CASE ValueEnd(s) > s /\ FieldAt(p) = <<Value(s, ValueEnd(s))>>
  <2>1. f = Value(s, ValueEnd(s))
    BY <1>3
  <2>2. QED
    BY <1>1, <1>3, <2>1, ValueIsField DEF Value
<1>4. CASE /\ detector = "birth_date" /\ near < Len(text)
           /\ FieldAt(p) = <<Value(near, near + 1)>>
  <2>1. near \in s .. Len(text) - 1 /\ text[near + 1] = "date"
    BY <1>0, <1>1, <1>4, NearbyDateIs
  <2> HIDE DEF near
  <2>2. near \in 0 .. Len(text) - 1 /\ p <= near
    BY <1>0, <1>1, <2>1
  <2>3. f = Value(near, near + 1)
    BY <1>4
  <2>4. QED
    BY <1>4, <2>1, <2>2, <2>3, DateIsField DEF Value
<1>5. QED
  BY <1>2, <1>3, <1>4

LEMMA OneIsSeq == ASSUME NEW S, NEW x \in S PROVE <<x>> \in Seq(S)
  OBVIOUS

\* and what a mention in prose finds is one, too.
LEMMA ProseIsField ==
    ASSUME IsFieldText, detector \in {"birth_date", "passport_issue_date", "passport_issuer"},
           NEW i \in 0 .. Len(text) - 1
    PROVE  FieldInProse(i) \in Seq(TheFields)
<1>0. Len(text) \in Nat /\ detector \in Detectors /\ i \in 0 .. Len(text) /\ i + 1 \in 0 .. Len(text)
  BY DEF IsFieldText
<1>1. <<>> \in Seq(TheFields)
  OBVIOUS
<1>2. CASE detector \in {"birth_date", "passport_issue_date"}
  <2>1. FieldInProse(i) = <<>> \/ (At(i, "date") /\ FieldInProse(i) = <<Value(i, i + 1)>>)
    BY <1>2 DEF FieldInProse
  <2>2. At(i, "date") => Value(i, i + 1) \in TheFields
    BY <1>0, <1>2, DateIsField DEF At
  <2>3. At(i, "date") => <<Value(i, i + 1)>> \in Seq(TheFields)
    BY <2>2, OneIsSeq
  <2>4. QED
    BY <1>1, <2>1, <2>3
<1>3. CASE detector = "passport_issuer"
  <2> DEFINE s == ProseStart(i)
             e == IssuerEnd(s)
  <2>1. AtWord(s)
    <3>1. AtWord(Skip(i + 1))
      BY <1>0, SkipIsAtWord
    <3>2. AtWord(SkipWord(Skip(i + 1), "passport"))
      BY <1>0, <3>1, SkipWordIs
    <3>3. QED
      BY <1>0, <3>2, SkipWordIs DEF ProseStart
  <2>2. FieldInProse(i) = <<>> \/ (e > s /\ FieldInProse(i) = <<Value(s, e)>>)
    BY <1>3 DEF FieldInProse, IssuerAfter
  <2>3. e = ValueEnd(s)
    BY <1>3 DEF ValueEnd
  <2> HIDE DEF s, e
  <2>4. e > s => Value(s, e) \in TheFields
    BY <2>1, <2>3, ValueIsField
  <2>5. e > s => <<Value(s, e)>> \in Seq(TheFields)
    BY <2>4, OneIsSeq
  <2>6. QED
    BY <1>1, <2>2, <2>5
<1>4. QED
  BY <1>2, <1>3

\* All the fields found in prose together.
LEMMA FieldsInProseAre ==
    ASSUME IsFieldText, detector \in {"birth_date", "passport_issue_date", "passport_issuer"}
    PROVE  FieldsInProse \in Seq(TheFields)
<1> DEFINE seen == [i \in DOMAIN text |-> FieldInProse(i - 1)]
<1>0. Len(text) \in Nat /\ DOMAIN text = 1 .. Len(text)
  BY DEF IsFieldText
<1>1. ASSUME NEW i \in 1 .. Len(text) PROVE FieldInProse(i - 1) \in Seq(TheFields)
  <2> DEFINE k == i - 1
  <2>1. k \in 0 .. Len(text) - 1
    BY <1>0
  <2> HIDE DEF k
  <2>2. FieldInProse(k) \in Seq(TheFields)
    BY <2>1, ProseIsField
  <2>3. QED
    BY <2>2 DEF k
<1>2. seen \in Seq(Seq(TheFields))
  BY <1>0, <1>1
<1> HIDE DEF seen
<1>3. FlattenSeq(seen) \in Seq(TheFields)
  BY <1>2, FlattenType
<1>4. QED
  BY <1>3 DEF FieldsInProse, seen

\* A field is a span of the text.
LEMMA TheFieldsAreProper ==
    /\ Proper(TheFields)
    /\ \A f \in TheFields : f.end <= Len(text)
  BY DEF Proper, TheFields, CleanValue
-----------------------------------------------------------------------------
\* Between a label and its value: in most of the detectors no label stands there.
LEMMA BeforeValue ==
    ASSUME IsFieldText, detector # "full_name", NEW p \in 0 .. Len(text)
    PROVE  /\ \A i \in p + 1 .. ValueStart(p) :
                 text[i] \in Separators \cup {"as", "owner", "passport"}
           /\ \A i \in p + 1 .. ValueStart(p) : text[i] \notin Labels
<1> DEFINE between == Separators \cup {"as", "owner", "passport"}
<1>0. Len(text) \in Nat
  BY DEF IsFieldText
<1>1. ASSUME NEW q \in p .. Len(text), \A i \in p + 1 .. q : text[i] \in between,
             NEW word \in {"as", "owner"}
      PROVE  /\ \A i \in p + 1 .. Skip(q) : text[i] \in between
             /\ \A i \in p + 1 .. SkipWord(Skip(q), word) : text[i] \in between
  <2> DEFINE s == Skip(q)
             w == SkipWord(s, word)
  <2>1. AtWord(s) /\ s \in q .. Len(text) /\ \A i \in q + 1 .. s : text[i] \in Separators
    <3>1. q \in 0 .. Len(text)
      BY <1>0
    <3>2. QED
      BY <1>0, <3>1, SkipIs, SkipIsAtWord
  <2> HIDE DEF s
  <2>2. w \in Nat /\ \A i \in s + 1 .. w : text[i] \in Separators \cup {word}
    BY <1>0, <2>1, SkipWordIs DEF AtWord
  <2> HIDE DEF w
  <2>3. \A i \in p + 1 .. w : i \in p + 1 .. q \/ i \in q + 1 .. s \/ i \in s + 1 .. w
    BY <1>0, <2>1, <2>2
  <2>4. \A i \in p + 1 .. s : i \in p + 1 .. q \/ i \in q + 1 .. s
    BY <1>0, <2>1
  <2>5. QED
    BY <1>1, <2>1, <2>2, <2>3, <2>4 DEF s, w
<1>2. ASSUME NEW word \in {"as", "owner"}
      PROVE  /\ \A i \in p + 1 .. Skip(p) : text[i] \in between
             /\ \A i \in p + 1 .. SkipWord(Skip(p), word) : text[i] \in between
  <2>1. p \in p .. Len(text) /\ \A i \in p + 1 .. p : FALSE
    BY <1>0
  <2> HIDE DEF between
  <2>2. QED
    BY <1>1, <2>1
<1>3. \A i \in p + 1 .. SkipWord(Skip(IssuerLabelEnd(p)), "as") : text[i] \in between
  <2> DEFINE q == IssuerLabelEnd(p)
  <2>1. q = p \/ (q = p + 1 /\ p < Len(text) /\ text[p + 1] = "passport")
    BY DEF IssuerLabelEnd, At
  <2> HIDE DEF q
  <2>2. q \in p .. Len(text) /\ \A i \in p + 1 .. q : i = p + 1 /\ q = p + 1
    BY <1>0, <2>1
  <2>3. \A i \in p + 1 .. q : text[i] \in between
    BY <2>1, <2>2
  <2> HIDE DEF between
  <2>4. \A i \in p + 1 .. SkipWord(Skip(q), "as") : text[i] \in between
    BY <1>1, <2>2, <2>3
  <2>5. QED
    BY <2>4 DEF q
<1>4. ValueStart(p) \in {Skip(p), SkipWord(Skip(p), "owner"), SkipWord(Skip(IssuerLabelEnd(p)), "as")}
  BY DEF ValueStart
<1>5. \A i \in p + 1 .. ValueStart(p) : text[i] \in between
  <2> HIDE DEF between
  <2>1. CASE ValueStart(p) \in {Skip(p), SkipWord(Skip(p), "owner")}
    BY <1>2, <2>1
  <2>2. CASE ValueStart(p) = SkipWord(Skip(IssuerLabelEnd(p)), "as")
    BY <1>3, <2>2
  <2>3. QED
    BY <1>4, <2>1, <2>2
<1>6. \A x \in Labels : x \notin between
  <2>1. Labels \subseteq {"label", "born", "issued", "issued_by", "client_address"}
    BY DEF Labels
  <2>2. QED
    BY <2>1 DEF Separators
<1>7. QED
  BY <1>5, <1>6

\* A label of a name stands before its value with others, and shares it.
LEMMA NameStartShared ==
    ASSUME IsFieldText, NEW p \in 0 .. Len(text), NEW q \in p + 1 .. Len(text),
           q <= SkipWord(NameStart(p), "as"), text[q] = "label"
    PROVE  NameStart(q) = NameStart(p)
<1> DEFINE word == Ends \cup {"colon"}
           s == Skip(p)
           mark == Until(s, word)
           w == NameStart(p)
<1>0. Len(text) \in Nat /\ text \in Seq(Range(text)) /\ "label" \notin Separators \cup {"as"}
      /\ q \in 0 .. Len(text)
  BY DEF IsFieldText, Separators
<1>1. s \in p .. Len(text) /\ \A i \in p + 1 .. s : text[i] \in Separators
  BY <1>0, SkipIs
<1>2. w \in Nat /\ SkipWord(w, "as") \in Nat
      /\ \A i \in w + 1 .. SkipWord(w, "as") : text[i] \in Separators \cup {"as"}
  <2>1. AtWord(w)
    BY <1>0, NameStartIs
  <2> HIDE DEF w
  <2>2. QED
    BY <1>0, <2>1, SkipWordIs DEF AtWord
<1>3. w = IF ~Has(p, s, {"colon"}) /\ At(mark, "colon") THEN Skip(mark) ELSE s
  BY DEF NameStart
<1>4. s < q /\ q <= w
  <2> HIDE DEF s, w
  <2>1. q \notin p + 1 .. s /\ q \notin w + 1 .. SkipWord(w, "as")
    BY <1>0, <1>1, <1>2
  <2>2. q <= SkipWord(w, "as")
    BY DEF w
  <2>3. QED
    BY <1>0, <1>1, <1>2, <2>1, <2>2
<1> HIDE DEF s
<1>5. w = Skip(mark) /\ At(mark, "colon")
  <2> HIDE DEF w
  <2> QED BY <1>1, <1>2, <1>3, <1>4
<1>6. mark \in s .. Len(text) /\ \A i \in s + 1 .. mark : text[i] \notin word
  <2> HIDE DEF word
  <2>1. s \in 0 .. Len(text)
    BY <1>1
  <2>2. QED
    BY <1>0, <2>1, UntilIs
<1> HIDE DEF w, mark
<1>7. /\ w \in mark .. Len(text) /\ (w = Len(text) \/ text[w + 1] \notin Separators)
      /\ \A i \in mark + 1 .. w : text[i] \in Separators
  <2>1. mark \in 0 .. Len(text)
    BY <1>1, <1>6
  <2>2. QED
    BY <1>0, <1>5, <2>1, SkipIs
<1>8. q <= mark
  BY <1>0, <1>4, <1>6, <1>7
<1>9. text[mark + 1] = "colon" /\ mark < Len(text)
  BY <1>5 DEF At
<1>10. CASE q = mark
  <2>1. Has(q, w, {"colon"})
    <3>1. mark + 1 \in q + 1 .. w
      <4>1. w # mark
        BY <1>7, <1>9 DEF Separators
      <4>2. QED
        BY <1>6, <1>7, <1>10, <4>1
    <3>2. w \in q .. Len(text)
      BY <1>7, <1>10
    <3>3. QED
      BY <1>0, <1>9, <3>1, <3>2, HasIs
  <2>2. QED
    BY <1>5, <1>10, <2>1 DEF NameStart, w
<1>11. CASE q < mark
  <2>1. q + 1 \in s + 1 .. mark
    BY <1>1, <1>4, <1>6, <1>11
  <2>2. Skip(q) = q
    <3>1. text[q + 1] \notin Separators
      BY <1>6, <2>1 DEF Separators, Ends
    <3>2. \A i \in q + 1 .. q : text[i] \in Separators
      BY <1>0
    <3>3. q \in q .. Len(text)
      BY <1>0
    <3>4. QED
      BY <1>0, <3>1, <3>2, <3>3, SkipFrom
  <2>3. Until(q, word) = mark
    <3>1. mark \in q .. Len(text) /\ \A i \in q + 1 .. mark : text[i] \notin word
      BY <1>0, <1>1, <1>4, <1>6, <1>11
    <3>2. text[mark + 1] \in word
      BY <1>9
    <3> HIDE DEF word
    <3>3. QED
      BY <1>0, <3>1, <3>2, UntilFrom
  <2>4. ~Has(q, q, {"colon"})
    <3>1. q \in q .. Len(text) /\ \A i \in q + 1 .. q : FALSE
      BY <1>0
    <3>2. QED
      BY <1>0, <3>1, HasIs
  <2>5. NameStart(q) = Skip(mark)
    BY <1>5, <2>2, <2>3, <2>4 DEF NameStart
  <2>6. QED
    BY <1>5, <2>5 DEF w
<1>12. QED
  BY <1>0, <1>6, <1>8, <1>10, <1>11

\* Two labels with one value find the same field.
LEMMA SharedValue ==
    ASSUME IsFieldText, NEW p \in 1 .. Len(text), NEW f, FieldAt(p) = <<f>>,
           NEW q \in 1 .. Len(text), p < q, q <= f.start, text[q] \in Labels,
           NEW v, FieldAt(q) = <<v>>
    PROVE  v = f
<1> DEFINE s(i) == ValueStart(i)
           near(i) == NearbyDate(s(i))
<1>0. /\ Len(text) \in Nat /\ p \in 0 .. Len(text) /\ q \in 0 .. Len(text)
      /\ \A x : <<f>> = <<x>> => f = x
      /\ \A x : <<v>> = <<x>> => v = x
      /\ <<f>> # <<>> /\ <<v>> # <<>>
  BY DEF IsFieldText
<1>1. \A i \in {p, q} :
         \/ FieldAt(i) = <<>>
         \/ ValueEnd(s(i)) > s(i) /\ FieldAt(i) = <<Value(s(i), ValueEnd(s(i)))>>
         \/ /\ detector = "birth_date" /\ ~(ValueEnd(s(i)) > s(i))
            /\ near(i) < Len(text) /\ FieldAt(i) = <<Value(near(i), near(i) + 1)>>
  BY FieldAtIs
<1>2. /\ AtWord(s(p)) /\ p <= s(p) /\ s(p) \in 0 .. Len(text)
      /\ AtWord(s(q)) /\ q <= s(q) /\ s(q) \in 0 .. Len(text)
  BY <1>0, ValueStartIs DEF AtWord
<1>3. \A a, b : Value(a, b).start = a
  BY DEF Value
<1>4. CASE detector = "full_name"
  <2>1. text[q] = "label"
    BY <1>4 DEF Labels
  <2>2. s(p) = SkipWord(NameStart(p), "as") /\ s(q) = SkipWord(NameStart(q), "as")
    BY <1>4 DEF ValueStart
  <2>3. f = Value(s(p), ValueEnd(s(p))) /\ v = Value(s(q), ValueEnd(s(q)))
    BY <1>0, <1>1, <1>4
  <2>4. q <= s(p) /\ q \in p + 1 .. Len(text)
    BY <1>0, <1>3, <2>3
  <2>5. NameStart(q) = NameStart(p)
    BY <1>0, <2>1, <2>2, <2>4, NameStartShared
  <2>6. QED
    BY <2>2, <2>3, <2>5
<1>5. CASE detector # "full_name"
  <2>1. /\ \A i \in p + 1 .. s(p) : text[i] \notin Labels
        /\ \A i \in q + 1 .. s(q) : text[i] \in Separators \cup {"as", "owner", "passport"}
    BY <1>0, <1>5, BeforeValue
  <2> HIDE DEF s
  <2>2. s(p) < q
    BY <1>0, <1>2, <2>1
  <2>3. f # Value(s(p), ValueEnd(s(p)))
    BY <1>0, <1>2, <1>3, <2>2
  <2>4. /\ detector = "birth_date" /\ ~(ValueEnd(s(p)) > s(p))
        /\ near(p) < Len(text) /\ f = Value(near(p), near(p) + 1)
    BY <1>0, <1>1, <2>3
  <2>5. /\ near(p) \in s(p) .. Len(text) - 1 /\ text[near(p) + 1] = "date"
        /\ \A i \in s(p) + 1 .. near(p) : text[i] \notin {"date", "semi", "nl"}
    BY <1>0, <1>2, <2>4, NearbyDateIs
  <2>6. q <= near(p)
    BY <1>3, <2>4
  <2> DEFINE n == near(p)
             m == near(q)
  <2> HIDE DEF near, n, m
  <2>7. s(q) <= n
    <3>1. n + 1 \notin q + 1 .. s(q)
      <4>1. "date" \notin Separators \cup {"as", "owner", "passport"}
        BY DEF Separators
      <4>2. QED
        BY <2>1, <2>5, <4>1 DEF n
    <3>2. QED
      BY <1>0, <1>2, <2>5, <2>6, <3>1 DEF n
  <2>8. CASE ValueEnd(s(q)) > s(q)
    <3>1. v = Value(s(q), ValueEnd(s(q)))
      BY <1>0, <1>1, <2>8
    <3>2. ValueEnd(s(q)) = Is(s(q), "date")
      BY <2>4 DEF ValueEnd
    <3>3. text[s(q) + 1] = "date" /\ ValueEnd(s(q)) = s(q) + 1
      BY <1>2, <2>8, <3>2 DEF Is, At
    <3>4. s(q) + 1 \notin s(p) + 1 .. n
      BY <2>5, <3>3 DEF n
    <3>5. s(q) = n
      BY <1>2, <2>2, <2>5, <2>7, <3>4 DEF n
    <3>6. QED
      BY <2>4, <3>1, <3>3, <3>5 DEF n
  <2>9. CASE ~(ValueEnd(s(q)) > s(q))
    <3>1. v = Value(m, m + 1)
      BY <1>0, <1>1, <2>9 DEF m
    <3> DEFINE words == {"date", "semi", "nl"}
               u == s(q)
    <3>2. Until(u, words) = n
      <4>1. u \in 0 .. Len(text) /\ n \in u .. Len(text) /\ text[n + 1] \in words
        BY <1>2, <2>5, <2>7 DEF n
      <4>2. \A i \in u + 1 .. n : text[i] \notin words
        BY <1>2, <2>2, <2>5 DEF n
      <4> HIDE DEF words, u
      <4>3. QED
        BY <1>0, <4>1, <4>2, UntilFrom
    <3>3. At(n, "date")
      BY <2>4, <2>5 DEF n, At
    <3>4. m = n
      BY <3>2, <3>3 DEF NearbyDate, m, near
    <3>5. QED
      BY <2>4, <3>1, <3>4 DEF n
  <2>10. QED
    BY <2>8, <2>9
<1>6. QED
  BY <1>4, <1>5
-----------------------------------------------------------------------------
\* A label finds at most one field.
LEMMA FoundIsOne ==
    ASSUME NEW p
    PROVE  /\ FieldAt(p) = <<>> \/ \E f : FieldAt(p) = <<f>>
           /\ \A v \in Range(FieldAt(p)) : FieldAt(p) = <<v>>
<1>1. FieldAt(p) = <<>> \/ \E f : FieldAt(p) = <<f>>
  BY FieldAtIs
<1>2. Range(<<>>) = {} /\ \A f : Range(<<f>>) = {f}
  BY RangeIs
<1>3. QED
  BY <1>1, <1>2

\* The invariant of the search: what was found is a field, and no label behind it was missed.
LEMMA InitFInv == FieldsInit => FInv
<1> SUFFICES ASSUME FieldsInit PROVE FInv
  OBVIOUS
<1>1. /\ detector \in DOMAIN Alphabet /\ text \in [1 .. Lengths[detector] -> Alphabet[detector]]
      /\ from = 0 /\ fields = <<>> /\ pass = "first"
  BY DEF FieldsInit
<1>2. Lengths[detector] \in Nat /\ detector \in Detectors
  BY <1>1, FieldsAssumption DEF Detectors
<1>3. text \in Seq(Alphabet[detector])
  BY <1>1, <1>2
<1>4. text \in Seq(Range(text)) /\ Len(text) \in Nat
  BY <1>3, InOwnRange
<1>5. IsFieldText
  BY <1>2, <1>4 DEF IsFieldText
<1>6. fields \in Seq(TheFields)
  BY <1>1
<1>7. Seen(0)
  BY <1>4 DEF Seen
<1>8. QED
  BY <1>1, <1>4, <1>5, <1>6, <1>7 DEF FInv

\* Fields that join the others leave what was seen seen.
LEMMA StillSeen ==
    ASSUME fields \in Seq(TheFields), NEW more \in Seq(TheFields), fields' = fields \o more,
           NEW p, NEW v, IsSeen(p, v)
    PROVE  IsSeen(p, v)'
<1>1. /\ Len(fields) \in Nat /\ Len(more) \in Nat /\ Len(fields') = Len(fields) + Len(more)
      /\ \A j \in 1 .. Len(fields) : fields'[j] = fields[j]
  OBVIOUS
<1>2. PICK j \in 1 .. Len(fields) :
         Overlap(fields[j], v) \/ (fields[j].start < p /\ p <= fields[j].end)
  BY DEF IsSeen
<1>3. j \in 1 .. Len(fields') /\ fields'[j] = fields[j]
  BY <1>1
<1>4. QED
  BY <1>2, <1>3 DEF IsSeen, Overlap

\* The next label keeps it: no label between two that are looked at is skipped but inside
\* the field just found;
LEMMA FindFieldKeeps == ASSUME FInv, FindField PROVE FInv'
<1> DEFINE at == Until(from, Labels)
           p == at + 1
           seen == FieldAt(p)
<1>1. /\ IsFieldText /\ Len(text) \in Nat /\ from \in 0 .. Len(text)
      /\ fields \in Seq(TheFields) /\ Seen(from)
      /\ pass = "first" /\ at < Len(text)
      /\ from' = Resume(p, seen) /\ fields' = fields \o seen
      /\ text' = text /\ detector' = detector /\ pass' = pass
  BY DEF FInv, FindField, IsFieldText
<1>2. /\ IsFieldText' = IsFieldText /\ TheFields' = TheFields /\ Labels' = Labels
      /\ \A q : FieldAt(q)' = FieldAt(q)
  BY <1>1, SameFields, SameFieldAt
<1>3. /\ at \in from .. Len(text) /\ text[at + 1] \in Labels
      /\ \A i \in from + 1 .. at : text[i] \notin Labels
  BY <1>1, UntilIs
<1> HIDE DEF at
<1>4. p \in 1 .. Len(text) /\ p \in Nat
  BY <1>1, <1>3
<1>5. ASSUME NEW q \in 1 .. p - 1, text[q] \in Labels PROVE q <= from
  BY <1>1, <1>3, <1>5
<1> HIDE DEF p
<1>6. ASSUME NEW f, seen = <<f>>
      PROVE  f \in TheFields /\ p <= f.start /\ f.start \in Nat /\ f.end \in 0 .. Len(text)
             /\ f.start < f.end
  <2>1. f \in TheFields /\ p <= f.start
    BY <1>1, <1>4, <1>6, FieldAtIsField
  <2>2. QED
    BY <2>1, TheFieldsAreProper DEF Proper
<1>7. seen \in Seq(TheFields)
  <2>1. CASE seen = <<>>
    BY <2>1
  <2>2. CASE \E f : seen = <<f>>
    BY <1>6, <2>2, OneIsSeq
  <2>3. QED
    BY <2>1, <2>2, FoundIsOne
<1>8. from' \in 0 .. Len(text)
  <2>1. CASE seen = <<>>
    BY <1>1, <1>4, <2>1 DEF Resume
  <2>2. CASE \E f : seen = <<f>>
    <3>1. PICK f : seen = <<f>>
      BY <2>2
    <3>2. from' = f.end
      BY <1>1, <3>1 DEF Resume
    <3>3. QED
      BY <1>6, <3>1, <3>2
  <2>3. QED
    BY <2>1, <2>2, FoundIsOne
<1>9. fields' \in Seq(TheFields)
  BY <1>1, <1>7
<1>10. ASSUME NEW q \in 1 .. Len(text), q <= from', text[q] \in Labels, NEW v \in Range(FieldAt(q))
       PROVE  IsSeen(q, v)'
  <2>1. FieldAt(q) = <<v>>
    BY FoundIsOne
  <2>2. CASE q <= from
    <3>1. IsSeen(q, v)
      BY <1>1, <1>10, <2>2 DEF Seen
    <3>2. QED
      BY <1>1, <1>7, <3>1, StillSeen
  <2>3. CASE ~(q <= from)
    <3>1. p <= q
      BY <1>1, <1>4, <1>5, <1>10, <2>3
    <3>2. seen # <<>>
      <4> SUFFICES ASSUME seen = <<>> PROVE FALSE
        OBVIOUS
      <4>1. from' = p
        BY <1>1 DEF Resume
      <4>2. q = p
        BY <1>4, <1>10, <3>1, <4>1
      <4>3. QED
        BY <2>1, <4>2
    <3>3. PICK f : seen = <<f>>
      BY <3>2, FoundIsOne
    <3>4. from' = f.end
      BY <1>1, <3>3 DEF Resume
    <3>5. /\ f \in TheFields /\ p <= f.start /\ f.start \in Nat /\ f.end \in 0 .. Len(text)
          /\ f.start < f.end
      BY <1>6, <3>3
    <3>6. v = f \/ (f.start < q /\ q <= f.end)
      <4>1. CASE q = p
        BY <2>1, <3>3, <4>1
      <4>2. CASE p < q /\ q <= f.start
        BY <1>1, <1>4, <1>10, <2>1, <3>3, <4>2, SharedValue
      <4>3. CASE f.start < q
        BY <1>10, <3>4, <4>3
      <4>4. QED
        <5> DEFINE a == f.start
        <5>1. a \in Nat
          BY <3>5
        <5> HIDE DEF a
        <5>2. q = p \/ (p < q /\ q <= a) \/ a < q
          BY <1>4, <3>1, <5>1
        <5>3. QED
          BY <4>1, <4>2, <4>3, <5>2 DEF a
    <3>7. Len(fields) + 1 \in 1 .. Len(fields') /\ fields'[Len(fields) + 1] = f
      BY <1>1, <3>3, <3>5
    <3>8. Overlap(f, f)
      BY <3>5 DEF Overlap
    <3> DEFINE k == Len(fields) + 1
    <3> HIDE DEF k
    <3>9. k \in 1 .. Len(fields') /\ fields'[k] = f
      BY <3>7 DEF k
    <3>10. QED
      BY <3>6, <3>8, <3>9 DEF IsSeen, Overlap
  <2>4. QED
    BY <2>2, <2>3
<1>11. Seen(from)'
  BY <1>1, <1>2, <1>10 DEF Seen
<1>12. QED
  BY <1>1, <1>2, <1>8, <1>9, <1>11 DEF FInv

\* so does the end of the first pass,
LEMMA NoMoreLabelsKeeps == ASSUME FInv, NoMoreLabels PROVE FInv'
<1>1. /\ IsFieldText /\ Len(text) \in Nat /\ from \in 0 .. Len(text)
      /\ fields \in Seq(TheFields) /\ Seen(from)
      /\ pass = "first" /\ Until(from, Labels) = Len(text)
      /\ text' = text /\ detector' = detector /\ from' = from /\ fields' = fields
  BY DEF FInv, NoMoreLabels, IsFieldText
<1>2. /\ IsFieldText' = IsFieldText /\ TheFields' = TheFields /\ Labels' = Labels
      /\ \A q : FieldAt(q)' = FieldAt(q)
  BY <1>1, SameFields, SameFieldAt
<1>3. \A i \in from + 1 .. Len(text) : text[i] \notin Labels
  BY <1>1, UntilIs
<1>4. /\ pass' \in {"second", "done"}
      /\ pass' = "second" => detector \in {"birth_date", "passport_issue_date", "passport_issuer"}
  BY DEF NoMoreLabels
<1>5. ASSUME NEW q \in 1 .. Len(text), text[q] \in Labels, NEW v \in Range(FieldAt(q))
      PROVE  IsSeen(q, v)'
  <2>1. q <= from
    BY <1>1, <1>3, <1>5
  <2>2. IsSeen(q, v)
    BY <1>1, <1>5, <2>1 DEF Seen
  <2>3. QED
    BY <1>1, <2>2 DEF IsSeen
<1>6. Seen(Len(text))'
  BY <1>1, <1>2, <1>5 DEF Seen
<1>7. QED
  BY <1>1, <1>2, <1>4, <1>6 DEF FInv

\* The authorities that begin within one end no later than it does.
LEMMA IssuerNests ==
    ASSUME Len(text) \in Nat, NEW s \in 0 .. Len(text), NEW r \in s .. Len(text),
           r < IssuerEnd(s)
    PROVE  IssuerEnd(r) <= IssuerEnd(s)
<1> DEFINE stops == Ends \cup {"date"}
           e(p) == Until(p, stops)
           date(p) == Until(p, {"date"})
           Near(p) == e(p) > p /\ date(p) < Min({e(p) + TrimReach, Len(text)})
<1>1. \A p \in {s, r} :
         /\ e(p) \in p .. Len(text) /\ (e(p) = Len(text) \/ text[e(p) + 1] \in stops)
         /\ \A i \in p + 1 .. e(p) : text[i] \notin stops
  <2> HIDE DEF stops
  <2> QED BY UntilIs
<1>2. \A p \in {s, r} :
         /\ date(p) \in p .. Len(text) /\ (date(p) = Len(text) \/ text[date(p) + 1] \in {"date"})
         /\ \A i \in p + 1 .. date(p) : text[i] \notin {"date"}
  BY UntilIs
<1>3. \A p \in {s, r} : IssuerEnd(p) = IF Near(p) THEN date(p) ELSE e(p)
  BY DEF IssuerEnd
<1>4. ASSUME r < date(s) PROVE date(r) = date(s)
  <2> DEFINE d == date(s)
  <2>1. /\ d \in r .. Len(text) /\ (d = Len(text) \/ text[d + 1] \in {"date"})
        /\ \A i \in r + 1 .. d : text[i] \notin {"date"}
    <3>1. d \in s .. Len(text) /\ (d = Len(text) \/ text[d + 1] \in {"date"})
          /\ \A i \in s + 1 .. d : text[i] \notin {"date"}
      BY <1>2
    <3> HIDE DEF d, date
    <3>2. \A i \in r + 1 .. d : i \in s + 1 .. d
      BY <3>1
    <3>3. d \in r .. Len(text)
      BY <1>4, <3>1 DEF d
    <3>4. QED
      BY <3>1, <3>2, <3>3
  <2> HIDE DEF d
  <2>2. Until(r, {"date"}) = d
    BY <2>1, UntilFrom
  <2>3. QED
    BY <2>2 DEF d
<1>5. ASSUME r < e(s) PROVE e(r) = e(s)
  <2> DEFINE d == e(s)
  <2>1. /\ d \in r .. Len(text) /\ (d = Len(text) \/ text[d + 1] \in stops)
        /\ \A i \in r + 1 .. d : text[i] \notin stops
    <3>1. d \in s .. Len(text) /\ (d = Len(text) \/ text[d + 1] \in stops)
          /\ \A i \in s + 1 .. d : text[i] \notin stops
      BY <1>1
    <3> HIDE DEF d, e, stops
    <3>2. \A i \in r + 1 .. d : i \in s + 1 .. d
      BY <3>1
    <3>3. d \in r .. Len(text)
      BY <1>5, <3>1 DEF d
    <3>4. QED
      BY <3>1, <3>2, <3>3
  <2> HIDE DEF d, stops
  <2>2. Until(r, stops) = d
    BY <2>1, UntilFrom
  <2>3. QED
    BY <2>2 DEF d
<1>6. e(s) <= date(s) /\ e(r) <= date(r)
  <2> SUFFICES ASSUME NEW p \in {s, r} PROVE e(p) <= date(p)
    OBVIOUS
  <2>0. "date" \in stops
    OBVIOUS
  <2> HIDE DEF e, date, stops
  <2>1. /\ e(p) \in p .. Len(text) /\ date(p) \in p .. Len(text) /\ p \in 0 .. Len(text)
        /\ \A i \in p + 1 .. e(p) : text[i] \notin stops
        /\ date(p) = Len(text) \/ text[date(p) + 1] \in {"date"}
    BY <1>1, <1>2
  <2>2. date(p) + 1 \notin p + 1 .. e(p) \/ date(p) = Len(text)
    BY <2>0, <2>1
  <2>3. QED
    BY <2>1, <2>2
<1> HIDE DEF e, date
<1>7. e(s) \in Nat /\ e(r) \in Nat /\ date(s) \in Nat /\ date(r) \in Nat
  BY <1>1, <1>2
<1>8. CASE Near(s)
  <2>1. IssuerEnd(s) = date(s) /\ date(r) = date(s)
    BY <1>3, <1>4, <1>8
  <2> HIDE DEF Near
  <2>2. IssuerEnd(r) \in {date(r), e(r)}
    BY <1>3
  <2>3. QED
    BY <1>6, <1>7, <2>1, <2>2
<1>9. CASE ~Near(s)
  <2>1. IssuerEnd(s) = e(s)
    BY <1>3, <1>9
  <2>2. e(r) = e(s) /\ r < date(s) /\ s < e(s)
    BY <1>5, <1>6, <1>7, <2>1
  <2>3. date(r) = date(s)
    BY <1>4, <2>2
  <2>4. ~Near(r)
    BY <1>9, <2>2, <2>3
  <2>5. IssuerEnd(r) = e(r)
    BY <1>3, <2>4
  <2>6. QED
    BY <1>7, <2>1, <2>2, <2>5
<1>10. QED
  BY <1>8, <1>9

\* What a merge drops lies within what it keeps.
LEMMA MergeCovers ==
    ASSUME IsFieldText, detector \in {"passport_issue_date", "passport_issuer"},
           NEW all \in Seq(TheFields), NEW k \in 1 .. Len(all)
    PROVE  \E i \in 1 .. Len(Merge(all)) :
              Merge(all)[i].start <= all[k].start /\ all[k].end <= Merge(all)[i].end
<1> DEFINE m == Merge(all)
           f == all[k]
<1>0. Len(text) \in Nat /\ f \in TheFields /\ f \in Range(all)
  <2>1. f \in Range(all)
    BY InOwnRange
  <2>2. QED
    BY <2>1 DEF IsFieldText
<1>1. Merged(all, m, TheFields)
  BY TheFieldsAreProper, MergeIs
<1> HIDE DEF m
<1>2. PICK i \in 1 .. Len(m) : m[i] = f \/ (Overlap(f, m[i]) /\ Beats(all, m[i], k))
  BY <1>1 DEF Merged
<1> DEFINE g == m[i]
<1>3. g \in TheFields /\ g \in Range(all)
  <2>1. \E l \in 1 .. Len(all) : g = all[l]
    BY <1>1 DEF Merged
  <2>2. g \in Range(all)
    BY <2>1, InOwnRange
  <2>3. QED
    BY <2>1, <2>2
<1> HIDE DEF f, g
<1>4. /\ f.start \in Nat /\ f.end \in Nat /\ f.start < f.end /\ f.end <= Len(text)
      /\ g.start \in Nat /\ g.end \in Nat /\ g.start < g.end /\ g.end <= Len(text)
      /\ AsLong(f.start, f.end) /\ AsLong(g.start, g.end)
  BY <1>0, <1>3 DEF TheFields, CleanValue
<1>5. CASE g = f
  BY <1>4, <1>5 DEF f, g, m
<1>6. CASE Overlap(f, g) /\ Beats(all, g, k)
  <2>1. <<f, g>> \notin LongerFirst(all)
    BY <1>6 DEF Beats, f
  <2>2. ~(Size(f) > Size(g))
    BY <1>0, <1>3, <2>1 DEF LongerFirst
  <2>3. f.start < g.end /\ g.start < f.end
    BY <1>6 DEF Overlap
  <2> DEFINE a == f.start  b == f.end  c == g.start  d == g.end
  <2>4. /\ a \in Nat /\ b \in Nat /\ a < b /\ b <= Len(text)
        /\ c \in Nat /\ d \in Nat /\ c < d /\ d <= Len(text)
        /\ ~(b - a > d - c) /\ a < d /\ c < b /\ AsLong(a, b) /\ AsLong(c, d)
    BY <1>4, <2>2, <2>3 DEF Size
  <2> HIDE DEF a, b, c, d
  <2>5. c <= a /\ b <= d
    <3>1. CASE detector = "passport_issue_date"
      <4>1. b = a + 1 /\ d = c + 1
        BY <2>4, <3>1 DEF AsLong
      <4>2. QED
        BY <2>4, <4>1
    <3>2. CASE detector = "passport_issuer"
      <4>1. b = IssuerEnd(a) /\ d = IssuerEnd(c)
        BY <2>4, <3>2 DEF AsLong
      <4>2. c <= a
        <5> SUFFICES ASSUME a < c PROVE FALSE
          BY <2>4
        <5>1. a \in 0 .. Len(text) /\ c \in a .. Len(text)
          BY <1>0, <2>4
        <5>2. d <= b
          BY <1>0, <2>4, <4>1, <5>1, IssuerNests
        <5>3. QED
          BY <2>4, <5>2
      <4>3. c \in 0 .. Len(text) /\ a \in c .. Len(text)
        BY <1>0, <2>4, <4>2
      <4>4. b <= d
        BY <1>0, <2>4, <4>1, <4>3, IssuerNests
      <4>5. QED
        BY <4>2, <4>4
    <3>3. QED
      BY <3>1, <3>2
  <2>6. QED
    BY <2>5 DEF a, b, c, d, f, g, m
<1>7. QED
  BY <1>2, <1>5, <1>6 DEF g

\* and the second one, which adds what stands in prose.
LEMMA SecondPassKeeps == ASSUME FInv, SecondPass PROVE FInv'
<1> DEFINE all == fields \o FieldsInProse
<1>1. /\ IsFieldText /\ Len(text) \in Nat /\ from \in 0 .. Len(text)
      /\ fields \in Seq(TheFields) /\ Seen(Len(text))
      /\ detector \in {"birth_date", "passport_issue_date", "passport_issuer"}
      /\ fields' = IF detector = "birth_date" THEN all ELSE Merge(all)
      /\ text' = text /\ detector' = detector /\ from' = from /\ pass' = "done"
  BY DEF FInv, SecondPass, IsFieldText
<1>2. /\ IsFieldText' = IsFieldText /\ TheFields' = TheFields /\ Labels' = Labels
      /\ \A q : FieldAt(q)' = FieldAt(q)
  BY <1>1, SameFields, SameFieldAt
<1>3. /\ all \in Seq(TheFields) /\ Len(fields) \in Nat /\ Len(fields) <= Len(all)
      /\ \A j \in 1 .. Len(fields) : all[j] = fields[j]
  <2>1. FieldsInProse \in Seq(TheFields)
    BY <1>1, FieldsInProseAre
  <2>2. QED
    BY <1>1, <2>1
<1> HIDE DEF all
<1>4. Merge(all) \in Seq(TheFields)
  <2>1. Merged(all, Merge(all), TheFields)
    BY <1>3, TheFieldsAreProper, MergeIs
  <2>2. QED
    BY <2>1 DEF Merged
<1>5. fields' \in Seq(TheFields)
  BY <1>1, <1>3, <1>4
<1>6. ASSUME NEW k \in 1 .. Len(all)
      PROVE  \E i \in 1 .. Len(fields') :
                fields'[i].start <= all[k].start /\ all[k].end <= fields'[i].end
  <2>1. CASE detector = "birth_date"
    <3>1. all[k].start \in Nat /\ all[k].end \in Nat
      BY <1>3, TheFieldsAreProper DEF Proper
    <3>2. QED
      BY <1>1, <2>1, <3>1
  <2>2. CASE detector # "birth_date"
    BY <1>1, <1>3, <2>2, MergeCovers
  <2>3. QED
    BY <2>1, <2>2
<1>7. ASSUME NEW q \in 1 .. Len(text), text[q] \in Labels, NEW v \in Range(FieldAt(q))
      PROVE  IsSeen(q, v)'
  <2>1. IsSeen(q, v)
    BY <1>1, <1>7 DEF Seen
  <2>2. PICK j \in 1 .. Len(fields) :
           Overlap(fields[j], v) \/ (fields[j].start < q /\ q <= fields[j].end)
    BY <2>1 DEF IsSeen
  <2>3. j \in 1 .. Len(all) /\ all[j] = fields[j]
    BY <1>3
  <2>4. PICK i \in 1 .. Len(fields') :
           fields'[i].start <= fields[j].start /\ fields[j].end <= fields'[i].end
    BY <1>6, <2>3
  <2> DEFINE a == fields[j].start  b == fields[j].end  c == fields'[i].start  d == fields'[i].end
  <2>5. a \in Nat /\ b \in Nat /\ c \in Nat /\ d \in Nat
    BY <1>1, <1>5, TheFieldsAreProper DEF Proper
  <2>6. v.start \in Nat /\ v.end \in Nat
    <3>1. FieldAt(q) = <<v>>
      BY FoundIsOne
    <3>2. v \in TheFields
      BY <1>1, <3>1, FieldAtIsField
    <3>3. QED
      BY <3>2, TheFieldsAreProper DEF Proper
  <2>7. c <= a /\ b <= d /\ ((a < v.end /\ v.start < b) \/ (a < q /\ q <= b))
    BY <2>2, <2>4 DEF Overlap
  <2> DEFINE x == v.start  y == v.end
  <2> HIDE DEF a, b, c, d, x, y
  <2>8. (c < y /\ x < d) \/ (c < q /\ q <= d)
    BY <1>1, <2>5, <2>6, <2>7 DEF x, y
  <2>9. Overlap(fields'[i], v) \/ (fields'[i].start < q /\ q <= fields'[i].end)
    BY <2>8 DEF c, d, x, y, Overlap
  <2>10. QED
    BY <2>9 DEF IsSeen
<1>8. Seen(Len(text))'
  BY <1>1, <1>2, <1>7 DEF Seen
<1>9. QED
  BY <1>1, <1>2, <1>5, <1>8 DEF FInv

\* Every step keeps the invariant.
LEMMA NextFInv == FInv /\ [Search]_fieldsVars => FInv'
<1> SUFFICES ASSUME FInv, [Search]_fieldsVars PROVE FInv'
  OBVIOUS
<1>1. CASE FindField
  BY <1>1, FindFieldKeeps
<1>2. CASE NoMoreLabels
  BY <1>2, NoMoreLabelsKeeps
<1>3. CASE SecondPass
  BY <1>3, SecondPassKeeps
<1>4. CASE UNCHANGED fieldsVars
  <2>1. /\ text' = text /\ detector' = detector /\ from' = from /\ fields' = fields
        /\ pass' = pass
    BY <1>4 DEF fieldsVars
  <2>2. /\ IsFieldText' = IsFieldText /\ TheFields' = TheFields /\ Labels' = Labels
        /\ \A q : FieldAt(q)' = FieldAt(q)
    BY <2>1, SameFields, SameFieldAt
  <2>3. \A q, v : IsSeen(q, v)' = IsSeen(q, v)
    BY <2>1 DEF IsSeen
  <2>4. \A n : Seen(n) => Seen(n)'
    BY <2>1, <2>2, <2>3 DEF Seen
  <2>5. QED
    BY <2>1, <2>2, <2>4 DEF FInv
<1>5. QED
  BY <1>1, <1>2, <1>3, <1>4 DEF Search

\* Whatever the texts are made of, the loops of the detectors pass over no label with a
\* value of its own (findLabel and what the detectors do with it, labeled.go:9-60).
THEOREM NoFieldIsMissedHolds == FieldsSpec => []NoFieldIsMissed
<1>1. FInv => NoFieldIsMissed
  <2> SUFFICES ASSUME FInv, pass = "done",
                      NEW p \in {i \in DOMAIN text : text[i] \in Labels},
                      NEW v \in Range(FieldAt(p))
               PROVE  \E j \in DOMAIN fields :
                         Overlap(fields[j], v) \/ (fields[j].start < p /\ p <= fields[j].end)
    BY DEF NoFieldIsMissed
  <2>1. Seen(Len(text)) /\ Len(text) \in Nat /\ DOMAIN text = 1 .. Len(text)
        /\ DOMAIN fields = 1 .. Len(fields)
    BY DEF FInv, IsFieldText
  <2>2. IsSeen(p, v)
    BY <2>1 DEF Seen
  <2>3. QED
    BY <2>1, <2>2 DEF IsSeen
<1>2. QED
  BY <1>1, InitFInv, NextFInv, PTL DEF FieldsSpec

\* And what they find is clean, in both passes and after Merge, whatever the text: the
\* scanners end a name at a mark or number, a citizenship at a comma, full stop or line
\* end, a place also at a date and at a comma before a field, an authority at a date, and
\* run over nothing else (labeled.go:125-354, passport_issuer.go:80-101).
THEOREM ValuesAreCleanHolds == FieldsSpec => []ValuesAreClean
<1>1. FInv => ValuesAreClean
  <2> SUFFICES ASSUME FInv, NEW j \in DOMAIN fields
               PROVE  /\ fields[j].start < fields[j].end /\ fields[j].end <= Len(text)
                      /\ text[fields[j].start + 1] \notin Ends \cup {"colon"}
                      /\ IsClean(fields[j].start, fields[j].end)
    BY DEF ValuesAreClean
  <2>1. fields[j] \in TheFields
    BY DEF FInv
  <2>2. CleanValue(fields[j].start, fields[j].end)
    BY <2>1 DEF TheFields
  <2>3. QED
    BY <2>2 DEF CleanValue
<1>2. QED
  BY <1>1, InitFInv, NextFInv, PTL DEF FieldsSpec
-----------------------------------------------------------------------------
\* A candidate in a text.
Labelled == {"PER", "LOC", "ORG"}
IsCandidate(t, c) ==
    /\ t \in Seq(Range(t)) /\ Len(t) \in Nat
    /\ c \in [label : Labelled, start : Nat, end : Nat]
    /\ c.start < c.end /\ c.end <= Len(t)

VInv == IsCandidate(text, cand) /\ (verdict = "new" \/ verdict = Decide(text, cand))

\* The candidates of the model are candidates of the text,
LEMMA InitVInv == ValidatorInit => VInv
<1> SUFFICES ASSUME ValidatorInit PROVE VInv
  OBVIOUS
<1>0. PICK label \in DOMAIN Around, n \in 0 .. MaxContext :
         \E l \in Contexts(label, n), r \in Contexts(label, MaxContext - n), h \in Heads[label] :
            /\ text = l \o h \o r
            /\ cand = [label |-> label, start |-> n, end |-> n + Len(h)]
  BY DEF ValidatorInit
<1>1. PICK l \in Contexts(label, n), r \in Contexts(label, MaxContext - n), h \in Heads[label] :
         /\ text = l \o h \o r
         /\ cand = [label |-> label, start |-> n, end |-> n + Len(h)]
  BY <1>0
<1>2. /\ label \in Labelled /\ h \in Seq(Range(h)) /\ h # <<>> /\ MaxContext \in Nat
  BY ValidatorAssumption DEF Labelled
<1> DEFINE X == Around[label] \cup Range(h)
<1>3. /\ l \in Seq(X) /\ Len(l) = n /\ n \in Nat
      /\ r \in Seq(X) /\ Len(r) = MaxContext - n /\ MaxContext - n \in Nat
  <2>1. n \in Nat /\ MaxContext - n \in Nat
    BY <1>2
  <2>2. l \in [1 .. n -> X] /\ r \in [1 .. MaxContext - n -> X]
    BY DEF Contexts
  <2> HIDE DEF X
  <2>3. QED
    BY <2>1, <2>2
<1>4. h \in Seq(X) /\ Len(h) \in Nat /\ Len(h) > 0
  <2>1. h \in Seq(X)
    BY <1>2
  <2>2. Len(h) \in Nat /\ Len(h) # 0
    BY <1>2
  <2>3. QED
    BY <2>1, <2>2
<1> HIDE DEF X
<1>5. text \in Seq(X) /\ Len(text) = n + Len(h) + (MaxContext - n)
  <2> DEFINE lh == l \o h
  <2>1. lh \in Seq(X) /\ Len(lh) = n + Len(h)
    BY <1>3, <1>4
  <2> HIDE DEF lh
  <2>2. lh \o r \in Seq(X) /\ Len(lh \o r) = Len(lh) + Len(r)
    BY <1>3, <2>1, SMTT(30)
  <2>3. QED
    BY <1>1, <1>3, <2>1, <2>2 DEF lh
<1>6. text \in Seq(Range(text)) /\ Len(text) \in Nat
  BY <1>5, InOwnRange
<1>7. cand \in [label : Labelled, start : Nat, end : Nat]
  BY <1>1, <1>2, <1>3, <1>4
<1>8. cand.start < cand.end /\ cand.end <= Len(text)
  BY <1>1, <1>3, <1>4, <1>5
<1>9. QED
  BY <1>6, <1>7, <1>8 DEF VInv, IsCandidate, ValidatorInit

\* and stay so when a role is cut off.
LEMMA NextVInv == VInv /\ [ValidatorNext]_validatorVars => VInv'
<1> SUFFICES ASSUME VInv, [ValidatorNext]_validatorVars PROVE VInv'
  OBVIOUS
<1>1. CASE Validate
  <2>1. /\ cand' = TrimRole(text, cand) /\ verdict' = Decide(text, cand') /\ text' = text
    BY <1>1 DEF Validate
  <2>2. IsCandidate(text, TrimRole(text, cand))
    BY DEF VInv, IsCandidate, TrimRole
  <2>3. QED
    BY <2>1, <2>2 DEF VInv
<1>2. CASE UNCHANGED validatorVars
  BY <1>2 DEF validatorVars, VInv
<1>3. QED
  BY <1>1, <1>2 DEF ValidatorNext
-----------------------------------------------------------------------------
\* Where signatures stand.
IsPart(part) == part \in Seq(Range(part)) /\ Len(part) \in Nat

\* A list in which a longer signature than one that counts stands before it.
IsList(sigs) ==
    /\ sigs \in Seq(Range(sigs))
    /\ \A k \in DOMAIN sigs : Len(sigs[k].words) \in Nat \ {0}
    /\ \A j, k \in DOMAIN sigs :
          sigs[j].type # "none" /\ Len(sigs[k].words) > Len(sigs[j].words) => k < j

\* A list with at most one signature of two words, behind no shorter one that counts.
LEMMA ShortList ==
    ASSUME NEW n \in Nat, NEW sigs, sigs \in Seq(Range(sigs)), DOMAIN sigs = 1 .. n,
           NEW long \in Nat, \A k \in 1 .. n : Len(sigs[k].words) = IF k = long THEN 2 ELSE 1,
           \A k \in 1 .. n : k < long => sigs[k].type = "none"
    PROVE  IsList(sigs)
<1>1. \A k \in 1 .. n : Len(sigs[k].words) \in {1, 2} /\ (Len(sigs[k].words) = 2 => k = long)
  <2> SUFFICES ASSUME NEW k \in 1 .. n, NEW w, w = Len(sigs[k].words)
               PROVE  w \in {1, 2} /\ (w = 2 => k = long)
    OBVIOUS
  <2>1. w = IF k = long THEN 2 ELSE 1
    OBVIOUS
  <2>2. QED
    BY <2>1
<1>2. ASSUME NEW j \in 1 .. n, NEW k \in 1 .. n, sigs[j].type # "none",
             Len(sigs[k].words) > Len(sigs[j].words)
      PROVE  k < j
  <2>1. k = long /\ j # long
    BY <1>1, <1>2
  <2>2. ~(j < long)
    BY <1>2
  <2>3. QED
    BY <2>1, <2>2
<1>3. QED
  BY <1>1, <1>2 DEF IsList

\* The three lists are such lists.
LEMMA SignaturesAre ==
    ASSUME NEW label \in Labelled
    PROVE  IsList(SignaturesFor(label))
<1>1. CASE label = "PER"
  <2> DEFINE s == PerSignatures
  <2>1. SignaturesFor(label) = s
    BY <1>1 DEF SignaturesFor
  <2>2. s \in Seq(Range(s)) /\ DOMAIN s = 1 .. 6
    BY RangeIs DEF PerSignatures
  <2>3. /\ Len(s[1].words) = 1 /\ s[1].type = "none"
        /\ Len(s[2].words) = 2
        /\ Len(s[3].words) = 1 /\ Len(s[4].words) = 1
        /\ Len(s[5].words) = 1 /\ Len(s[6].words) = 1
    BY DEF PerSignatures, Sig
  <2> HIDE DEF s
  <2>4. /\ \A k \in 1 .. 6 : Len(s[k].words) = IF k = 2 THEN 2 ELSE 1
        /\ \A k \in 1 .. 6 : k < 2 => s[k].type = "none"
    <3>1. \A k \in 1 .. 6 : k = 1 \/ k = 2 \/ k = 3 \/ k = 4 \/ k = 5 \/ k = 6
      OBVIOUS
    <3>2. QED
      BY <2>3, <3>1
  <2>5. QED
    BY <2>1, <2>2, <2>4, ShortList
<1>2. CASE label = "LOC"
  <2> DEFINE s == LocSignatures
  <2>1. SignaturesFor(label) = s
    BY <1>2 DEF SignaturesFor
  <2>2. s \in Seq(Range(s)) /\ DOMAIN s = 1 .. 4
    BY RangeIs DEF LocSignatures
  <2>3. /\ Len(s[1].words) = 2 /\ Len(s[2].words) = 1
        /\ Len(s[3].words) = 1 /\ Len(s[4].words) = 1
    BY DEF LocSignatures, Sig
  <2> HIDE DEF s
  <2>4. /\ \A k \in 1 .. 4 : Len(s[k].words) = IF k = 1 THEN 2 ELSE 1
        /\ \A k \in 1 .. 4 : k < 1 => s[k].type = "none"
    <3>1. \A k \in 1 .. 4 : k = 1 \/ k = 2 \/ k = 3 \/ k = 4
      OBVIOUS
    <3>2. QED
      BY <2>3, <3>1
  <2>5. QED
    BY <2>1, <2>2, <2>4, ShortList
<1>3. CASE label = "ORG"
  <2> DEFINE s == OrgSignatures
  <2>1. SignaturesFor(label) = s
    BY <1>3 DEF SignaturesFor
  <2>2. s \in Seq(Range(s)) /\ DOMAIN s = 1 .. 1
    BY RangeIs DEF OrgSignatures
  <2>3. Len(s[1].words) = 1
    BY DEF OrgSignatures, Sig
  <2> HIDE DEF s
  <2>4. /\ \A k \in 1 .. 1 : Len(s[k].words) = IF k = 0 THEN 2 ELSE 1
        /\ \A k \in 1 .. 1 : k < 0 => s[k].type = "none"
    BY <2>3
  <2>5. QED
    BY <2>1, <2>2, <2>4, ShortList
<1>4. QED
  BY <1>1, <1>2, <1>3 DEF Labelled

\* Where a signature stands, and the places nearest to either end.
LEMMA PlacesAre ==
    ASSUME NEW part, IsPart(part), NEW s, Len(s.words) \in Nat \ {0}
    PROVE  /\ \A p \in Places(part, s) : p \in 0 .. Len(part) /\ p + Len(s.words) <= Len(part)
           /\ Places(part, s) # {} =>
                 \E p \in Places(part, s) :
                    /\ DistBefore(part, s) = Len(part) - p - Len(s.words)
                    /\ \A q \in Places(part, s) : q <= p
           /\ Places(part, s) # {} =>
                 /\ DistAfter(part, s) \in Places(part, s)
                 /\ \A q \in Places(part, s) : DistAfter(part, s) <= q
<1> DEFINE n == Len(part)
           w == Len(s.words)
           S == Places(part, s)
<1>1. n \in Nat /\ w \in Nat \ {0} /\ \A p \in S : p \in 0 .. n - w
  BY DEF IsPart, Places
<1>2. DistBefore(part, s) = n - Max(S) - w /\ DistAfter(part, s) = Min(S)
  BY DEF DistBefore, DistAfter
<1> HIDE DEF n, w, S
<1>3. \A p \in S : p \in 0 .. n /\ p + w <= n
  BY <1>1
<1>4. S # {} => Max(S) \in S /\ \A q \in S : q <= Max(S)
  <2>1. S \in SUBSET (0 .. n)
    BY <1>3
  <2>2. QED
    BY <1>1, <2>1, MaxIs
<1>5. S # {} => Min(S) \in S /\ \A q \in S : Min(S) <= q
  <2>1. S \in SUBSET Nat
    BY <1>3
  <2>2. QED
    BY <2>1, MinIs
<1>6. QED
  BY <1>2, <1>3, <1>4, <1>5 DEF n, w, S

\* Of some hits the nearest one, and the first of those that are as near.
AreHits(hits, sigs, F, D) == hits = {Hit(sigs, k, D[k]) : k \in F}
IsFirst(h, sigs, F, k, D) ==
    h = Hit(sigs, k, D[k]) /\ \A j \in F : D[k] < D[j] \/ (D[k] = D[j] /\ k <= j)

\* The nearest hit is one of them.
LEMMA NearestIs ==
    ASSUME NEW sigs, NEW F \in SUBSET Nat, F # {}, NEW D \in [F -> Nat],
           NEW hits, AreHits(hits, sigs, F, D)
    PROVE  \E k \in F : IsFirst(Nearest(hits), sigs, F, k, D)
<1>0. hits = {Hit(sigs, k, D[k]) : k \in F}
  BY DEF AreHits
<1>1. PICK d \in {D[k] : k \in F} : \A c \in {D[k] : k \in F} : d <= c
  <2> DEFINE S == {D[k] : k \in F}
  <2>1. S \in SUBSET Nat /\ S # {}
    OBVIOUS
  <2> HIDE DEF S
  <2>2. QED
    BY <2>1, LeastInNat DEF S
<1>2. PICK k \in {i \in F : D[i] = d} : \A j \in {i \in F : D[i] = d} : k <= j
  <2> DEFINE S == {i \in F : D[i] = d}
  <2>1. S \in SUBSET Nat /\ S # {}
    BY <1>1
  <2> HIDE DEF S
  <2>2. QED
    BY <2>1, LeastInNat DEF S
<1>3. k \in F /\ D[k] = d /\ d \in Nat /\ \A j \in F : d < D[j] \/ (d = D[j] /\ k <= j)
  BY <1>1, <1>2
<1> DEFINE IsBest(g) == \A h \in hits : Nearer(g, h)
           g0 == Hit(sigs, k, D[k])
<1>4. \A i \in F : Hit(sigs, i, D[i]).dist = D[i] /\ Hit(sigs, i, D[i]).rank = i
  BY DEF Hit
<1>5. g0 \in hits /\ IsBest(g0)
  <2>1. g0 \in hits
    BY <1>0, <1>3
  <2>2. ASSUME NEW h \in hits PROVE Nearer(g0, h)
    <3>1. PICK i \in F : h = Hit(sigs, i, D[i])
      BY <1>0, <2>2
    <3>2. QED
      <4>1. h.dist = D[i] /\ h.rank = i /\ g0.dist = D[k] /\ g0.rank = k
        BY <1>3, <1>4, <3>1
      <4>2. QED
        BY <1>3, <4>1 DEF Nearer
  <2>3. QED
    BY <2>1, <2>2
<1>6. hits # {} /\ Nearest(hits) = CHOOSE g \in hits : IsBest(g)
  BY <1>5 DEF Nearest
<1>7. Nearest(hits) \in hits /\ IsBest(Nearest(hits))
  <2> HIDE DEF IsBest
  <2> QED BY <1>5, <1>6
<1>8. PICK m \in F : Nearest(hits) = Hit(sigs, m, D[m])
  BY <1>0, <1>7
<1>9. \A j \in F : D[m] < D[j] \/ (D[m] = D[j] /\ m <= j)
  <2> SUFFICES ASSUME NEW j \in F PROVE D[m] < D[j] \/ (D[m] = D[j] /\ m <= j)
    OBVIOUS
  <2> DEFINE h == Hit(sigs, j, D[j])
  <2>1. h \in hits
    BY <1>0
  <2> HIDE DEF h
  <2>2. Nearer(Hit(sigs, m, D[m]), h)
    BY <1>7, <1>8, <2>1
  <2>3. QED
    BY <1>4, <2>2 DEF Nearer, h
<1>10. QED
  BY <1>8, <1>9 DEF IsFirst

\* The nearest signature of a list, of those that stand in a part.
IsNearest(h, part, sigs, k, D) ==
    /\ k \in Found(part, sigs) /\ h = Hit(sigs, k, D[k])
    /\ \A j \in Found(part, sigs) : D[k] < D[j] \/ (D[k] = D[j] /\ k <= j)

\* Of the signatures found in a part, or none if none is.
LEMMA NearestHits ==
    ASSUME NEW part, IsPart(part), NEW sigs, IsList(sigs),
           NEW B, B = [k \in Found(part, sigs) |-> DistBefore(part, sigs[k])],
           NEW A, A = [k \in Found(part, sigs) |-> DistAfter(part, sigs[k])]
    PROVE  /\ B \in [Found(part, sigs) -> Nat] /\ A \in [Found(part, sigs) -> Nat]
           /\ Found(part, sigs) = {} =>
                 NearestBefore(part, sigs) = NoHit /\ NearestAfter(part, sigs) = NoHit
           /\ Found(part, sigs) # {} =>
                 /\ \E k \in DOMAIN sigs : IsNearest(NearestBefore(part, sigs), part, sigs, k, B)
                 /\ \E k \in DOMAIN sigs : IsNearest(NearestAfter(part, sigs), part, sigs, k, A)
<1> DEFINE F == Found(part, sigs)
<1>1. F \subseteq DOMAIN sigs /\ F \in SUBSET Nat /\ \A k \in F : Places(part, sigs[k]) # {}
  BY DEF Found, IsList
<1>2. ASSUME NEW k \in F
      PROVE  DistBefore(part, sigs[k]) \in Nat /\ DistAfter(part, sigs[k]) \in Nat
  <2> DEFINE s == sigs[k]
  <2>1. Len(s.words) \in Nat \ {0} /\ Places(part, s) # {}
    BY <1>1 DEF IsList
  <2> HIDE DEF s
  <2>2. /\ \A p \in Places(part, s) : p \in 0 .. Len(part) /\ p + Len(s.words) <= Len(part)
        /\ \E p \in Places(part, s) : DistBefore(part, s) = Len(part) - p - Len(s.words)
        /\ DistAfter(part, s) \in Places(part, s)
    BY <2>1, PlacesAre
  <2>3. PICK p \in Places(part, s) : DistBefore(part, s) = Len(part) - p - Len(s.words)
    BY <2>2
  <2> DEFINE n == Len(part)  w == Len(s.words)
  <2>4. n \in Nat /\ p \in Nat /\ p + w <= n /\ w \in Nat /\ DistBefore(part, s) = n - p - w
    BY <2>1, <2>2, <2>3 DEF IsPart
  <2>5. DistAfter(part, s) \in Nat
    BY <2>2
  <2> HIDE DEF n, w
  <2>6. DistBefore(part, s) \in Nat
    BY <2>4
  <2>7. QED
    BY <2>5, <2>6 DEF s
<1>3. B \in [F -> Nat] /\ A \in [F -> Nat]
  BY <1>2
<1>4. /\ NearestBefore(part, sigs) = Nearest({Hit(sigs, k, B[k]) : k \in F})
      /\ NearestAfter(part, sigs) = Nearest({Hit(sigs, k, A[k]) : k \in F})
  <2>1. \A k \in F : B[k] = DistBefore(part, sigs[k]) /\ A[k] = DistAfter(part, sigs[k])
    OBVIOUS
  <2>2. /\ {Hit(sigs, k, B[k]) : k \in F} = {Hit(sigs, k, DistBefore(part, sigs[k])) : k \in F}
        /\ {Hit(sigs, k, A[k]) : k \in F} = {Hit(sigs, k, DistAfter(part, sigs[k])) : k \in F}
    BY <2>1
  <2>3. QED
    BY <2>2 DEF NearestBefore, NearestAfter
<1> HIDE DEF F
<1>5. CASE F = {}
  BY <1>3, <1>4, <1>5 DEF Nearest, F
<1>6. CASE F # {}
  <2>1. ASSUME NEW D \in [F -> Nat]
        PROVE  \E k \in DOMAIN sigs :
                  IsNearest(Nearest({Hit(sigs, i, D[i]) : i \in F}), part, sigs, k, D)
    <3> DEFINE hits == {Hit(sigs, i, D[i]) : i \in F}
    <3>1. AreHits(hits, sigs, F, D)
      BY DEF AreHits
    <3> HIDE DEF hits
    <3>2. PICK k \in F : IsFirst(Nearest(hits), sigs, F, k, D)
      BY <1>1, <1>6, <3>1, NearestIs
    <3>3. IsNearest(Nearest(hits), part, sigs, k, D)
      BY <3>2 DEF IsFirst, IsNearest, F
    <3>4. QED
      BY <1>1, <3>3 DEF hits
  <2>2. QED
    BY <1>3, <1>4, <1>6, <2>1 DEF F
<1>7. QED
  BY <1>5, <1>6

\* A hit: what it hits counts only as a whole, and nothing stands nearer.
HitsBefore(h, part, label, k) ==
    LET sigs == SignaturesFor(label)
        Dist(j, p) == Len(part) - p - Len(sigs[j].words)
    IN  /\ h.ok /\ h.sig = sigs[k] /\ h.dist \in Nat
        /\ \E p \in Places(part, sigs[k]) :
              /\ h.dist = Dist(k, p)
              /\ sigs[k].type # "none" => p \in WholePlaces(part, sigs[k], label)
        /\ \A j \in DOMAIN sigs : \A q \in Places(part, sigs[j]) : h.dist <= Dist(j, q)
HitsAfter(h, part, label, k) ==
    LET sigs == SignaturesFor(label)
    IN  /\ h.ok /\ h.sig = sigs[k] /\ h.dist \in Nat
        /\ h.dist \in Places(part, sigs[k])
        /\ sigs[k].type # "none" => h.dist \in WholePlaces(part, sigs[k], label)
        /\ \A j \in DOMAIN sigs : \A q \in Places(part, sigs[j]) : h.dist <= q

\* The nearest one before the candidate is whole: a longer one that contains it would end
\* where it ends, and stand before it in the list;
LEMMA HitBeforeIs ==
    ASSUME NEW part, IsPart(part), NEW label \in Labelled, NEW h,
           h = NearestBefore(part, SignaturesFor(label))
    PROVE  \/ h = NoHit /\ \A k \in DOMAIN SignaturesFor(label) :
                               Places(part, SignaturesFor(label)[k]) = {}
           \/ \E k \in DOMAIN SignaturesFor(label) : HitsBefore(h, part, label, k)
<1> DEFINE sigs == SignaturesFor(label)
           n == Len(part)
           w(j) == Len(sigs[j].words)
           F == Found(part, sigs)
           D == [k \in F |-> DistBefore(part, sigs[k])]
           A == [k \in F |-> DistAfter(part, sigs[k])]
<1>1. IsList(sigs)
  BY SignaturesAre
<1>2. /\ n \in Nat /\ \A j \in DOMAIN sigs : j \in Nat /\ w(j) \in Nat \ {0}
      /\ \A j \in DOMAIN sigs : j \in F <=> Places(part, sigs[j]) # {}
      /\ F \subseteq DOMAIN sigs
  BY <1>1 DEF IsList, Found, IsPart
<1>3. CASE F = {}
  <2>1. h = NoHit
    <3> HIDE DEF sigs
    <3>1. D = [k \in Found(part, sigs) |-> DistBefore(part, sigs[k])]
          /\ A = [k \in Found(part, sigs) |-> DistAfter(part, sigs[k])]
      OBVIOUS
    <3> HIDE DEF D, A
    <3>2. NearestBefore(part, sigs) = NoHit
      BY <1>1, <1>3, <3>1, NearestHits
    <3>3. QED
      BY <3>2 DEF sigs
  <2>2. QED
    BY <1>2, <1>3, <2>1
<1>4. CASE F # {}
  <2>1. D \in [F -> Nat] /\ \E k \in DOMAIN sigs : IsNearest(h, part, sigs, k, D)
    <3> HIDE DEF sigs
    <3>1. D = [k \in Found(part, sigs) |-> DistBefore(part, sigs[k])]
          /\ A = [k \in Found(part, sigs) |-> DistAfter(part, sigs[k])]
      OBVIOUS
    <3> HIDE DEF D, A
    <3>2. D \in [F -> Nat]
          /\ \E k \in DOMAIN sigs : IsNearest(NearestBefore(part, sigs), part, sigs, k, D)
      BY <1>1, <1>4, <3>1, NearestHits
    <3>3. QED
      BY <3>2 DEF sigs
  <2>2. PICK k \in DOMAIN sigs : IsNearest(h, part, sigs, k, D)
    BY <2>1
  <2>3. /\ k \in F /\ h = Hit(sigs, k, D[k])
        /\ \A j \in F : D[k] < D[j] \/ (D[k] = D[j] /\ k <= j)
    BY <2>2 DEF IsNearest
  <2> DEFINE dist == DistBefore(part, sigs[k])
  <2>4. /\ h.ok /\ h.sig = sigs[k] /\ h.dist = dist /\ dist \in Nat
        /\ \A j \in F : dist < DistBefore(part, sigs[j])
                        \/ (dist = DistBefore(part, sigs[j]) /\ k <= j)
        /\ \A j \in F : DistBefore(part, sigs[j]) \in Nat
    <3>1. \A j \in F : D[j] = DistBefore(part, sigs[j]) /\ D[j] \in Nat
      BY <2>1
    <3> HIDE DEF D, F
    <3>2. h.ok /\ h.sig = sigs[k] /\ h.dist = D[k]
      BY <2>3 DEF Hit
    <3>3. QED
      BY <2>3, <3>1, <3>2
  <2> HIDE DEF sigs, n, w, F, D
  <2>5. ASSUME NEW j \in F
        PROVE  /\ \A q \in Places(part, sigs[j]) : q \in 0 .. n /\ q + w(j) <= n
               /\ \E p \in Places(part, sigs[j]) :
                     DistBefore(part, sigs[j]) = n - p - w(j)
                     /\ \A q \in Places(part, sigs[j]) : q <= p
    <3> DEFINE s == sigs[j]
    <3>1. Len(s.words) \in Nat \ {0} /\ Places(part, s) # {}
      BY <1>2, <2>5 DEF w
    <3> HIDE DEF s
    <3>2. /\ \A p \in Places(part, s) : p \in 0 .. Len(part) /\ p + Len(s.words) <= Len(part)
          /\ \E p \in Places(part, s) :
                /\ DistBefore(part, s) = Len(part) - p - Len(s.words)
                /\ \A q \in Places(part, s) : q <= p
      BY <3>1, PlacesAre
    <3>3. QED
      BY <3>2 DEF s, n, w
  <2>6. ASSUME NEW j \in DOMAIN sigs, NEW q \in Places(part, sigs[j])
        PROVE  j \in F /\ q \in 0 .. n /\ DistBefore(part, sigs[j]) <= n - q - w(j)
               /\ dist <= n - q - w(j)
    <3>1. j \in F /\ w(j) \in Nat /\ n \in Nat
      BY <1>2, <2>6
    <3>2. PICK p \in Places(part, sigs[j]) :
             DistBefore(part, sigs[j]) = n - p - w(j)
             /\ \A r \in Places(part, sigs[j]) : r <= p
      BY <2>5, <3>1
    <3>3. p \in 0 .. n /\ q \in 0 .. n /\ q <= p
      BY <2>5, <2>6, <3>1, <3>2
    <3> DEFINE db == DistBefore(part, sigs[j])  v == w(j)
    <3>4. db = n - p - v /\ v \in Nat /\ db \in Nat /\ dist <= db
      BY <2>4, <3>1, <3>2
    <3> HIDE DEF db, v, dist
    <3>5. db <= n - q - v /\ dist <= n - q - v
      BY <2>4, <3>1, <3>3, <3>4
    <3>6. QED
      BY <3>1, <3>3, <3>5 DEF db, v
  <2>7. PICK p \in Places(part, sigs[k]) : dist = n - p - w(k)
    BY <2>3, <2>5
  <2>8. ASSUME sigs[k].type # "none" PROVE p \in WholePlaces(part, sigs[k], label)
    <3> SUFFICES ASSUME NEW l \in Range(sigs), NEW q \in 0 .. Len(part),
                        Covers(part, sigs[k], p, l, q)
                 PROVE  FALSE
      BY <2>7 DEF WholePlaces, sigs
    <3>1. PICK j \in DOMAIN sigs : l = sigs[j]
      BY RangeIs
    <3>2. q \in Places(part, sigs[j]) /\ w(j) > w(k) /\ q <= p /\ p + w(k) <= q + w(j)
      BY <3>1 DEF Covers, w
    <3>3. j \in F /\ DistBefore(part, sigs[j]) <= n - q - w(j) /\ q \in 0 .. n
      BY <2>6, <3>2
    <3>4. j < k /\ j \in Nat /\ k \in Nat
      BY <1>1, <1>2, <2>8, <3>2 DEF IsList, w
    <3>5. p \in 0 .. n
      BY <2>3, <2>5
    <3> DEFINE db == DistBefore(part, sigs[j])  v == w(j)  u == w(k)
    <3>6. /\ db \in Nat /\ v \in Nat /\ u \in Nat /\ db <= n - q - v /\ dist = n - p - u
          /\ p + u <= q + v /\ (dist < db \/ (dist = db /\ k <= j)) /\ dist \in Nat
      BY <1>2, <2>4, <2>7, <3>2, <3>3
    <3> HIDE DEF db, v, u, dist
    <3>7. QED
      BY <1>2, <3>3, <3>4, <3>5, <3>6
  <2>9. HitsBefore(h, part, label, k)
    BY <2>4, <2>6, <2>7, <2>8 DEF HitsBefore, n, w, sigs
  <2>10. QED
    BY <2>9 DEF sigs
<1>5. QED
  BY <1>3, <1>4

\* and the one after it.
LEMMA HitAfterIs ==
    ASSUME NEW part, IsPart(part), NEW label \in Labelled, NEW h,
           h = NearestAfter(part, SignaturesFor(label))
    PROVE  \/ h = NoHit /\ \A k \in DOMAIN SignaturesFor(label) :
                               Places(part, SignaturesFor(label)[k]) = {}
           \/ \E k \in DOMAIN SignaturesFor(label) : HitsAfter(h, part, label, k)
<1> DEFINE sigs == SignaturesFor(label)
           w(j) == Len(sigs[j].words)
           F == Found(part, sigs)
           B == [k \in F |-> DistBefore(part, sigs[k])]
           D == [k \in F |-> DistAfter(part, sigs[k])]
<1>1. IsList(sigs)
  BY SignaturesAre
<1>2. /\ \A j \in DOMAIN sigs : j \in Nat /\ w(j) \in Nat \ {0}
      /\ \A j \in DOMAIN sigs : j \in F <=> Places(part, sigs[j]) # {}
      /\ F \subseteq DOMAIN sigs
  BY <1>1 DEF IsList, Found
<1>3. CASE F = {}
  <2>1. h = NoHit
    <3> HIDE DEF sigs
    <3>1. B = [k \in Found(part, sigs) |-> DistBefore(part, sigs[k])]
          /\ D = [k \in Found(part, sigs) |-> DistAfter(part, sigs[k])]
      OBVIOUS
    <3> HIDE DEF B, D
    <3>2. NearestAfter(part, sigs) = NoHit
      BY <1>1, <1>3, <3>1, NearestHits
    <3>3. QED
      BY <3>2 DEF sigs
  <2>2. QED
    BY <1>2, <1>3, <2>1
<1>4. CASE F # {}
  <2>1. D \in [F -> Nat] /\ \E k \in DOMAIN sigs : IsNearest(h, part, sigs, k, D)
    <3> HIDE DEF sigs
    <3>1. B = [k \in Found(part, sigs) |-> DistBefore(part, sigs[k])]
          /\ D = [k \in Found(part, sigs) |-> DistAfter(part, sigs[k])]
      OBVIOUS
    <3> HIDE DEF B, D
    <3>2. D \in [F -> Nat]
          /\ \E k \in DOMAIN sigs : IsNearest(NearestAfter(part, sigs), part, sigs, k, D)
      BY <1>1, <1>4, <3>1, NearestHits
    <3>3. QED
      BY <3>2 DEF sigs
  <2>2. PICK k \in DOMAIN sigs : IsNearest(h, part, sigs, k, D)
    BY <2>1
  <2>3. /\ k \in F /\ h = Hit(sigs, k, D[k])
        /\ \A j \in F : D[k] < D[j] \/ (D[k] = D[j] /\ k <= j)
    BY <2>2 DEF IsNearest
  <2> DEFINE dist == DistAfter(part, sigs[k])
  <2>4. /\ h.ok /\ h.sig = sigs[k] /\ h.dist = dist /\ dist \in Nat
        /\ \A j \in F : dist < DistAfter(part, sigs[j])
                        \/ (dist = DistAfter(part, sigs[j]) /\ k <= j)
        /\ \A j \in F : DistAfter(part, sigs[j]) \in Nat
    <3>1. \A j \in F : D[j] = DistAfter(part, sigs[j]) /\ D[j] \in Nat
      BY <2>1
    <3> HIDE DEF D, F
    <3>2. h.ok /\ h.sig = sigs[k] /\ h.dist = D[k]
      BY <2>3 DEF Hit
    <3>3. QED
      BY <2>3, <3>1, <3>2
  <2> HIDE DEF sigs, w, F, D
  <2>5. ASSUME NEW j \in F
        PROVE  /\ \A q \in Places(part, sigs[j]) : q \in Nat
               /\ DistAfter(part, sigs[j]) \in Places(part, sigs[j])
               /\ \A q \in Places(part, sigs[j]) : DistAfter(part, sigs[j]) <= q
    <3> DEFINE s == sigs[j]
    <3>1. Len(s.words) \in Nat \ {0} /\ Places(part, s) # {}
      BY <1>2, <2>5 DEF w
    <3> HIDE DEF s
    <3>2. /\ \A p \in Places(part, s) : p \in 0 .. Len(part)
          /\ DistAfter(part, s) \in Places(part, s)
          /\ \A q \in Places(part, s) : DistAfter(part, s) <= q
      BY <3>1, PlacesAre
    <3>3. QED
      BY <3>2 DEF s
  <2>6. ASSUME NEW j \in DOMAIN sigs, NEW q \in Places(part, sigs[j])
        PROVE  j \in F /\ q \in Nat /\ DistAfter(part, sigs[j]) <= q /\ dist <= q
    <3>1. j \in F
      BY <1>2, <2>6
    <3>2. q \in Nat /\ DistAfter(part, sigs[j]) <= q
      BY <2>5, <3>1
    <3> DEFINE da == DistAfter(part, sigs[j])
    <3>3. da \in Nat /\ dist <= da /\ da <= q /\ dist \in Nat
      BY <2>4, <3>1, <3>2
    <3> HIDE DEF da, dist
    <3>4. dist <= q
      BY <3>2, <3>3
    <3>5. QED
      BY <3>1, <3>2, <3>4
  <2>7. dist \in Places(part, sigs[k])
    BY <2>3, <2>5
  <2>8. ASSUME sigs[k].type # "none" PROVE dist \in WholePlaces(part, sigs[k], label)
    <3> SUFFICES ASSUME NEW l \in Range(sigs), NEW q \in 0 .. Len(part),
                        Covers(part, sigs[k], dist, l, q)
                 PROVE  FALSE
      BY <2>7 DEF WholePlaces, sigs
    <3>1. PICK j \in DOMAIN sigs : l = sigs[j]
      BY RangeIs
    <3>2. q \in Places(part, sigs[j]) /\ w(j) > w(k) /\ q <= dist
      BY <3>1 DEF Covers, w
    <3>3. j \in F /\ DistAfter(part, sigs[j]) <= q /\ q \in Nat
      BY <2>6, <3>2
    <3>4. j < k /\ j \in Nat /\ k \in Nat
      BY <1>1, <1>2, <2>8, <3>2 DEF IsList, w
    <3> DEFINE da == DistAfter(part, sigs[j])
    <3>5. da \in Nat /\ da <= q /\ (dist < da \/ (dist = da /\ k <= j)) /\ dist \in Nat
      BY <2>4, <3>3
    <3> HIDE DEF da, dist
    <3>6. QED
      BY <3>2, <3>3, <3>4, <3>5
  <2>9. HitsAfter(h, part, label, k)
    BY <2>4, <2>6, <2>7, <2>8 DEF HitsAfter, sigs
  <2>10. QED
    BY <2>9 DEF sigs
<1>5. QED
  BY <1>3, <1>4
-----------------------------------------------------------------------------
\* Clauses and sentences.
LEMMA ClauseStartIs ==
    ASSUME NEW t, Len(t) \in Nat, NEW p \in 0 .. Len(t)
    PROVE  /\ ClauseStart(t, p) \in 0 .. p
           /\ ClauseStart(t, p) = 0 \/ t[ClauseStart(t, p)] \in ClauseMarks
           /\ \A i \in ClauseStart(t, p) + 1 .. p : t[i] \notin ClauseMarks
<1> DEFINE Start(i) == i = 0 \/ t[i] \in ClauseMarks
           S == {i \in 0 .. p : Start(i)}
           m == Max(S)
<1>1. S \in SUBSET (0 .. p) /\ 0 \in S /\ p \in Nat
  OBVIOUS
<1>2. m \in S /\ \A i \in S : i <= m
  <2> HIDE DEF S
  <2> QED BY <1>1, MaxIs
<1>3. m = ClauseStart(t, p)
  BY DEF ClauseStart
<1> HIDE DEF m
<1>4. \A i \in m + 1 .. p : ~Start(i)
  BY <1>2
<1>5. QED
  BY <1>2, <1>3, <1>4

\* A clause goes up to the next mark,
LEMMA ClauseEndIs ==
    ASSUME NEW t, Len(t) \in Nat, NEW p \in 0 .. Len(t)
    PROVE  /\ ClauseEnd(t, p) \in p .. Len(t)
           /\ ClauseEnd(t, p) = Len(t) \/ t[ClauseEnd(t, p) + 1] \in ClauseMarks
           /\ \A i \in p + 1 .. ClauseEnd(t, p) : t[i] \notin ClauseMarks
<1> DEFINE Stop(i) == i = Len(t) \/ t[i + 1] \in ClauseMarks
           S == {i \in p .. Len(t) : Stop(i)}
           u == Min(S)
<1>1. S \in SUBSET Nat /\ Len(t) \in S
  OBVIOUS
<1>2. u \in S /\ \A i \in S : u <= i
  <2> HIDE DEF S
  <2> QED BY <1>1, MinIs
<1>3. u = ClauseEnd(t, p)
  BY DEF ClauseEnd
<1> HIDE DEF u
<1>4. u \in p .. Len(t) /\ Stop(u)
  BY <1>2
<1>5. ASSUME NEW i \in p + 1 .. u PROVE t[i] \notin ClauseMarks
  <2> DEFINE q == i - 1
  <2>1. q \in p .. Len(t) /\ ~(u <= q) /\ q + 1 = i
    BY <1>4
  <2> HIDE DEF q
  <2>2. ~Stop(q)
    BY <1>2, <2>1
  <2>3. QED
    BY <2>1, <2>2
<1>6. QED
  BY <1>3, <1>4, <1>5

\* and a sentence up to the next end of one.
LEMMA SentenceEndIs ==
    ASSUME NEW t, Len(t) \in Nat, NEW p \in 0 .. Len(t)
    PROVE  /\ SentenceEnd(t, p) \in p .. Len(t)
           /\ SentenceEnd(t, p) = Len(t) \/ t[SentenceEnd(t, p) + 1] \in SentenceMarks
           /\ \A i \in p + 1 .. SentenceEnd(t, p) : t[i] \notin SentenceMarks
<1> DEFINE Stop(i) == i = Len(t) \/ t[i + 1] \in SentenceMarks
           S == {i \in p .. Len(t) : Stop(i)}
           u == Min(S)
<1>1. S \in SUBSET Nat /\ Len(t) \in S
  OBVIOUS
<1>2. u \in S /\ \A i \in S : u <= i
  <2> HIDE DEF S
  <2> QED BY <1>1, MinIs
<1>3. u = SentenceEnd(t, p)
  BY DEF SentenceEnd
<1> HIDE DEF u
<1>4. u \in p .. Len(t) /\ Stop(u)
  BY <1>2
<1>5. ASSUME NEW i \in p + 1 .. u PROVE t[i] \notin SentenceMarks
  <2> DEFINE q == i - 1
  <2>1. q \in p .. Len(t) /\ ~(u <= q) /\ q + 1 = i
    BY <1>4
  <2> HIDE DEF q
  <2>2. ~Stop(q)
    BY <1>2, <2>1
  <2>3. QED
    BY <2>1, <2>2
<1>6. QED
  BY <1>3, <1>4, <1>5

\* Going back over marks ends at the last other atom.
LEMMA BackIs ==
    ASSUME NEW t, Len(t) \in Nat, NEW p \in 0 .. Len(t), NEW marks
    PROVE  /\ Back(t, p, marks) \in 0 .. p
           /\ Back(t, p, marks) = 0 \/ t[Back(t, p, marks)] \notin marks
           /\ \A i \in Back(t, p, marks) + 1 .. p : t[i] \in marks
<1> DEFINE Start(i) == i = 0 \/ t[i] \notin marks
           S == {i \in 0 .. p : Start(i)}
           m == Max(S)
<1>1. S \in SUBSET (0 .. p) /\ 0 \in S /\ p \in Nat
  OBVIOUS
<1>2. m \in S /\ \A i \in S : i <= m
  <2> HIDE DEF S
  <2> QED BY <1>1, MaxIs
<1>3. m = Back(t, p, marks)
  BY DEF Back
<1> HIDE DEF m
<1>4. \A i \in m + 1 .. p : ~Start(i)
  BY <1>2
<1>5. QED
  BY <1>2, <1>3, <1>4

\* A piece of a text.
LEMMA PieceIs ==
    ASSUME NEW t, IsPart(t), NEW a \in 0 .. Len(t), NEW b \in a .. Len(t)
    PROVE  /\ IsPart(Piece(t, a, b)) /\ Piece(t, a, b) \in Seq(Range(t))
           /\ Len(Piece(t, a, b)) = b - a
           /\ \A i \in 1 .. b - a : Piece(t, a, b)[i] = t[a + i]
<1> DEFINE s == Piece(t, a, b)
<1>1. t \in Seq(Range(t)) /\ Len(t) \in Nat
  BY DEF IsPart
<1>2. /\ s \in Seq(Range(t)) /\ Len(s) = b - a
      /\ \A i \in 1 .. b - a : s[i] = t[a + 1 + i - 1]
  <2>1. a + 1 \in 1 .. Len(t) + 1 /\ b \in (a + 1) - 1 .. Len(t) /\ b - (a + 1) + 1 = b - a
    BY <1>1
  <2>2. QED
    BY <1>1, <2>1, SubSeqProperties DEF Piece
<1>3. \A i \in 1 .. b - a : a + 1 + i - 1 = a + i
  BY <1>1
<1> HIDE DEF s
<1>4. s \in Seq(Range(s))
  BY <1>2, InOwnRange
<1>5. Len(s) \in Nat
  BY <1>1, <1>2
<1>6. QED
  BY <1>2, <1>3, <1>4, <1>5 DEF s, IsPart
-----------------------------------------------------------------------------
\* What the decision looks at are pieces of the text.
LEMMA PartsAre ==
    ASSUME NEW t, NEW c, IsCandidate(t, c)
    PROVE  /\ IsPart(Piece(t, ClauseStart(t, c.start), c.start))
           /\ IsPart(Piece(t, c.end, ClauseEnd(t, c.end)))
           /\ IsPart(Appositive(t, c))
<1> DEFINE a == c.start  b == c.end
<1>1. /\ IsPart(t) /\ Len(t) \in Nat /\ a \in 0 .. Len(t) /\ b \in 0 .. Len(t)
  BY DEF IsCandidate, IsPart
<1> HIDE DEF a, b
<1>2. IsPart(Piece(t, ClauseStart(t, a), a))
  <2>1. ClauseStart(t, a) \in 0 .. Len(t) /\ a \in ClauseStart(t, a) .. Len(t)
    <3>1. ClauseStart(t, a) \in 0 .. a
      BY <1>1, ClauseStartIs
    <3>2. QED
      BY <1>1, <3>1
  <2>2. QED
    BY <1>1, <2>1, PieceIs
<1>3. IsPart(Piece(t, b, ClauseEnd(t, b)))
  <2>1. ClauseEnd(t, b) \in b .. Len(t)
    BY <1>1, ClauseEndIs
  <2>2. QED
    BY <1>1, <2>1, PieceIs
<1> DEFINE q == Back(t, a, {"nl"})
           p == q - 1
<1>4. Appositive(t, c) = IF q > 0 /\ t[q] = "comma" THEN Piece(t, ClauseStart(t, p), p) ELSE <<>>
  BY DEF Appositive, a
<1>5. q \in 0 .. a
  BY <1>1, BackIs
<1> HIDE DEF q
<1>6. CASE q > 0 /\ t[q] = "comma"
  <2>1. p \in 0 .. Len(t)
    BY <1>1, <1>5, <1>6
  <2> HIDE DEF p
  <2>2. ClauseStart(t, p) \in 0 .. Len(t) /\ p \in ClauseStart(t, p) .. Len(t)
    <3>1. ClauseStart(t, p) \in 0 .. p
      BY <1>1, <2>1, ClauseStartIs
    <3>2. QED
      BY <1>1, <2>1, <3>1
  <2>3. IsPart(Piece(t, ClauseStart(t, p), p))
    BY <1>1, <2>1, <2>2, PieceIs
  <2>4. QED
    BY <1>2, <1>3, <1>4, <1>6, <2>3 DEF a, b
<1>7. CASE ~(q > 0 /\ t[q] = "comma")
  <2>1. Appositive(t, c) = <<>>
    BY <1>4, <1>7
  <2>2. IsPart(<<>>)
    BY DEF IsPart
  <2>3. QED
    BY <1>2, <1>3, <2>1, <2>2 DEF a, b
<1>8. QED
  BY <1>6, <1>7

\* The decision follows the nearest whole signature.
LEMMA NearestDecides ==
    ASSUME IsCandidate(text, cand), verdict # "none", verdict = Decide(text, cand)
    PROVE  \E s \in Range(SignaturesFor(cand.label)) :
              /\ s.type = verdict
              /\ \/ cand.label = "PER" /\ Lead(s)
                 \/ \E d \in WholeAt(s) : \A l \in Range(SignaturesFor(cand.label)) :
                       l.type # verdict => \A e \in WholeAt(l) : d <= e
<1> DEFINE label == cand.label
           sigs == SignaturesFor(label)
           App == Appositive(text, cand)
           own == NearestBefore(Left, sigs)
           bridge == NearestBefore(App, sigs)
           bridged == ~own.ok /\ label = "PER" /\ bridge.ok /\ bridge.dist = 0
           left == IF bridged THEN bridge ELSE own
           right == NearestAfter(Right, sigs)
           isLeft == left.ok /\ (right.ok => left.dist <= right.dist)
           hit == IF isLeft THEN left ELSE right
           w(j) == Len(sigs[j].words)
<1>1. verdict = hit.sig.type /\ hit.ok
  <2>1. verdict = DecideBySignature(text, cand)
    BY DEF Decide
  <2>2. QED
    BY <2>1 DEF DecideBySignature, Left, Right
<1>2. label \in Labelled /\ IsPart(Left) /\ IsPart(Right) /\ IsPart(App)
  BY PartsAre DEF IsCandidate, Left, Right
<1>3. /\ IsList(sigs) /\ \A j \in DOMAIN sigs : sigs[j] \in Range(sigs)
      /\ \A l \in Range(sigs) : \E j \in DOMAIN sigs : l = sigs[j]
  BY <1>2, SignaturesAre, RangeIs
<1>4. \/ own = NoHit /\ \A k \in DOMAIN sigs : Places(Left, sigs[k]) = {}
      \/ \E k \in DOMAIN sigs : HitsBefore(own, Left, label, k)
  BY <1>2, HitBeforeIs
<1>5. bridge = NoHit \/ \E k \in DOMAIN sigs : HitsBefore(bridge, App, label, k)
  BY <1>2, HitBeforeIs
<1>6. \/ right = NoHit /\ \A k \in DOMAIN sigs : Places(Right, sigs[k]) = {}
      \/ \E k \in DOMAIN sigs : HitsAfter(right, Right, label, k)
  BY <1>2, HitAfterIs
<1>7. ~NoHit.ok
  BY DEF NoHit
<1>8. Len(Left) \in Nat /\ Len(App) \in Nat /\ \A j \in DOMAIN sigs : w(j) \in Nat
  BY <1>2, <1>3 DEF IsPart, IsList
\* Where whole signatures stand.
<1>9. ASSUME NEW j \in DOMAIN sigs, NEW e \in WholeAt(sigs[j])
      PROVE  \/ e \in Places(Right, sigs[j])
             \/ \E p \in Places(Left, sigs[j]) : e = Len(Left) - p - w(j)
  BY DEF WholeAt, WholePlaces
<1> HIDE DEF sigs, App, own, bridge, right, w
<1>10. CASE isLeft /\ bridged
  <2>1. hit = bridge /\ bridge.ok /\ bridge.dist = 0 /\ label = "PER"
    BY <1>10
  <2>2. PICK k \in DOMAIN sigs : HitsBefore(bridge, App, label, k)
    BY <1>5, <1>7, <2>1
  <2>3. bridge.sig = sigs[k] /\ verdict = sigs[k].type
    BY <1>1, <2>1, <2>2 DEF HitsBefore, sigs
  <2>4. PICK p \in WholePlaces(App, sigs[k], label) : bridge.dist = Len(App) - p - w(k)
    BY <2>2, <2>3 DEF HitsBefore, sigs, w
  <2>5. p + w(k) = Len(App)
    <3>1. p \in Nat
      BY <2>4 DEF WholePlaces, Places
    <3>2. QED
      BY <1>8, <2>1, <2>4, <3>1
  <2>6. Lead(sigs[k])
    BY <2>4, <2>5 DEF Lead, App, w
  <2>7. QED
    BY <1>3, <2>1, <2>3, <2>6 DEF sigs
<1>11. CASE isLeft /\ ~bridged
  <2>1. hit = own /\ own.ok /\ (right.ok => own.dist <= right.dist)
    BY <1>11
  <2>2. PICK k \in DOMAIN sigs : HitsBefore(own, Left, label, k)
    BY <1>4, <1>7, <2>1
  <2>3. own.sig = sigs[k] /\ verdict = sigs[k].type /\ own.dist \in Nat
        /\ \A j \in DOMAIN sigs : \A q \in Places(Left, sigs[j]) :
              own.dist <= Len(Left) - q - w(j)
    BY <1>1, <2>1, <2>2 DEF HitsBefore, sigs, w
  <2>4. PICK p \in WholePlaces(Left, sigs[k], label) : own.dist = Len(Left) - p - w(k)
    BY <2>2, <2>3 DEF HitsBefore, sigs, w
  <2>5. own.dist \in WholeAt(sigs[k])
    BY <2>4 DEF WholeAt, w
  <2>6. ASSUME NEW j \in DOMAIN sigs, NEW e \in WholeAt(sigs[j]) PROVE own.dist <= e
    <3>1. CASE e \in Places(Right, sigs[j])
      <4>1. PICK i \in DOMAIN sigs : HitsAfter(right, Right, label, i)
        BY <1>6, <3>1
      <4>2. right.ok /\ right.dist \in Nat /\ right.dist <= e
        BY <3>1, <4>1 DEF HitsAfter, sigs
      <4>3. e \in Nat
        BY <3>1 DEF Places
      <4>4. QED
        BY <2>1, <2>3, <4>2, <4>3
    <3>2. CASE \E q \in Places(Left, sigs[j]) : e = Len(Left) - q - w(j)
      BY <2>3, <3>2
    <3>3. QED
      BY <1>9, <2>6, <3>1, <3>2
  <2>7. \A l \in Range(sigs) : \A e \in WholeAt(l) : own.dist <= e
    BY <1>3, <2>6
  <2>8. QED
    BY <1>3, <2>3, <2>5, <2>7 DEF sigs
<1>12. CASE ~isLeft
  <2>1. hit = right /\ right.ok
    BY <1>1, <1>12
  <2>2. PICK k \in DOMAIN sigs : HitsAfter(right, Right, label, k)
    BY <1>6, <1>7, <2>1
  <2>3. /\ right.sig = sigs[k] /\ verdict = sigs[k].type /\ right.dist \in Nat
        /\ right.dist \in WholePlaces(Right, sigs[k], label)
        /\ \A j \in DOMAIN sigs : \A q \in Places(Right, sigs[j]) : right.dist <= q
    BY <1>1, <2>1, <2>2 DEF HitsAfter, sigs
  <2>4. right.dist \in WholeAt(sigs[k])
    BY <2>3 DEF WholeAt
  <2>5. ~bridged
    BY <1>12, <2>1, <2>3
  <2>6. own.ok => ~(own.dist <= right.dist)
    BY <1>12, <2>1, <2>5
  <2>7. ASSUME NEW j \in DOMAIN sigs, NEW e \in WholeAt(sigs[j]) PROVE right.dist <= e
    <3>1. CASE e \in Places(Right, sigs[j])
      BY <2>3, <3>1
    <3>2. CASE \E q \in Places(Left, sigs[j]) : e = Len(Left) - q - w(j)
      <4>1. PICK q \in Places(Left, sigs[j]) : e = Len(Left) - q - w(j)
        BY <3>2
      <4>2. PICK i \in DOMAIN sigs : HitsBefore(own, Left, label, i)
        BY <1>4, <4>1
      <4>3. own.ok /\ own.dist \in Nat /\ own.dist <= e
        BY <4>1, <4>2 DEF HitsBefore, sigs, w
      <4>4. q \in Int
        BY <4>1 DEF Places
      <4> DEFINE n == Len(Left)  v == w(j)
      <4>5. n \in Nat /\ v \in Nat /\ e = n - q - v
        BY <1>8, <4>1
      <4> HIDE DEF n, v
      <4>6. e \in Int
        BY <4>4, <4>5
      <4>7. QED
        BY <2>3, <2>6, <4>3, <4>6
    <3>3. QED
      BY <1>9, <2>7, <3>1, <3>2
  <2>8. \A l \in Range(sigs) : \A e \in WholeAt(l) : right.dist <= e
    BY <1>3, <2>7
  <2>9. QED
    BY <1>3, <2>3, <2>4, <2>8 DEF sigs
<1>13. QED
  BY <1>10, <1>11, <1>12, SMTT(30)

\* The nearest signature decides, read as a whole, for every text and candidate
\* (nearestBefore and nearestAfter, validate.go:383-418).
THEOREM NearestWholeDecidesHolds == ValidatorSpec => []NearestWholeDecides
<1>1. VInv => NearestWholeDecides
  BY NearestDecides DEF VInv, NearestWholeDecides, Decided
<1>2. QED
  BY <1>1, InitVInv, NextVInv, PTL DEF ValidatorSpec
-----------------------------------------------------------------------------
\* s is a sentence of t, the atoms lo + 1 .. hi, or several of them.
IsSentence(t, lo, hi, s) ==
    /\ IsPart(t) /\ lo \in 0 .. Len(t) /\ hi \in lo .. Len(t) /\ s = Piece(t, lo, hi)
    /\ lo = 0 \/ t[lo] \in SentenceMarks
    /\ hi = Len(t) \/ t[hi + 1] \in SentenceMarks

\* Every place of the sentence is one of the text.
Shifted(t, lo, hi, s) ==
    /\ Len(t) \in Nat /\ lo \in Nat /\ hi \in Nat /\ lo <= hi /\ hi <= Len(t)
    /\ IsPart(s) /\ Len(s) = hi - lo
    /\ \A i \in 1 .. hi - lo : s[i] = t[lo + i]
    /\ \A i \in lo + 1 .. hi : s[i - lo] = t[i]

LEMMA ShiftedIs ==
    ASSUME NEW t, NEW lo, NEW hi, NEW s, IsSentence(t, lo, hi, s)
    PROVE  Shifted(t, lo, hi, s)
<1>1. /\ IsPart(t) /\ lo \in 0 .. Len(t) /\ hi \in lo .. Len(t) /\ s = Piece(t, lo, hi)
      /\ Len(t) \in Nat
  BY DEF IsSentence, IsPart
<1>2. IsPart(s) /\ Len(s) = hi - lo /\ \A i \in 1 .. hi - lo : s[i] = t[lo + i]
  BY <1>1, PieceIs
<1>3. ASSUME NEW i \in lo + 1 .. hi PROVE s[i - lo] = t[i]
  <2> DEFINE k == i - lo
  <2>1. k \in 1 .. hi - lo /\ lo + k = i
    BY <1>1
  <2> HIDE DEF k
  <2>2. QED
    BY <1>2, <2>1 DEF k
<1>4. QED
  BY <1>1, <1>2, <1>3 DEF Shifted

\* Every piece of the sentence is a piece of the text,
LEMMA ShiftPiece ==
    ASSUME NEW t, NEW lo, NEW hi, NEW s, IsSentence(t, lo, hi, s),
           NEW a \in lo .. hi, NEW b \in a .. hi
    PROVE  Piece(s, a - lo, b - lo) = Piece(t, a, b)
<1> DEFINE k == a - lo
           l == b - lo
           u == Piece(s, k, l)
           v == Piece(t, a, b)
<1>1. /\ IsPart(t) /\ IsPart(s) /\ Shifted(t, lo, hi, s)
  <2>1. Shifted(t, lo, hi, s)
    BY ShiftedIs
  <2>2. IsPart(t)
    BY DEF IsSentence
  <2>3. IsPart(s)
    BY <2>1 DEF Shifted
  <2>4. QED
    BY <2>1, <2>2, <2>3
<1>2. /\ Len(t) \in Nat /\ lo \in Nat /\ hi \in Nat /\ lo <= hi /\ hi <= Len(t)
      /\ Len(s) = hi - lo /\ \A i \in 1 .. hi - lo : s[i] = t[lo + i]
  BY <1>1 DEF Shifted
<1>3. /\ k \in 0 .. Len(s) /\ l \in k .. Len(s) /\ l - k = b - a
      /\ a \in 0 .. Len(t) /\ b \in a .. Len(t) /\ b - a \in Nat
  BY <1>2
<1>4. v \in Seq(Range(t)) /\ Len(v) = b - a /\ \A i \in 1 .. b - a : v[i] = t[a + i]
  <2> HIDE DEF k, l
  <2> QED BY <1>1, <1>3, PieceIs
<1>5. u \in Seq(Range(s)) /\ Len(u) = l - k /\ \A i \in 1 .. l - k : u[i] = s[k + i]
  <2> HIDE DEF k, l
  <2> QED BY <1>1, <1>3, PieceIs
<1> HIDE DEF u, v
<1>6. ASSUME NEW i \in 1 .. b - a PROVE u[i] = v[i]
  <2>1. k + i \in 1 .. hi - lo /\ lo + (k + i) = a + i
    BY <1>2
  <2>2. s[k + i] = t[a + i]
    BY <1>2, <2>1
  <2>3. QED
    BY <1>3, <1>4, <1>5, <2>2
<1> HIDE DEF k, l
<1>7. /\ u \in Seq(Range(s) \cup Range(t)) /\ v \in Seq(Range(s) \cup Range(t))
      /\ Len(u) = b - a /\ Len(v) = b - a
  BY <1>3, <1>4, <1>5
<1>8. u = v
  BY <1>6, <1>7, SeqEqual
<1>9. QED
  BY <1>8 DEF u, v, k, l

\* a clause within the sentence starts in it,
LEMMA ShiftStart ==
    ASSUME NEW t, NEW lo, NEW hi, NEW s, IsSentence(t, lo, hi, s), NEW p \in lo .. hi
    PROVE  /\ ClauseStart(t, p) \in lo .. p
           /\ ClauseStart(s, p - lo) = ClauseStart(t, p) - lo
<1> DEFINE m == ClauseStart(t, p)
           r == p - lo
           k == ClauseStart(s, r)
<1>1. /\ Len(t) \in Nat /\ lo \in Nat /\ hi \in Nat /\ lo <= hi /\ hi <= Len(t)
      /\ Len(s) = hi - lo /\ \A i \in 1 .. hi - lo : s[i] = t[lo + i]
      /\ \A i \in lo + 1 .. hi : s[i - lo] = t[i]
      /\ Len(s) \in Nat
  BY ShiftedIs DEF Shifted, IsPart
<1>2. lo = 0 \/ t[lo] \in ClauseMarks
  BY DEF IsSentence, ClauseMarks
<1>3. p \in 0 .. Len(t) /\ r \in 0 .. Len(s) /\ lo + r = p
  BY <1>1
<1>4. m \in 0 .. p /\ (m = 0 \/ t[m] \in ClauseMarks) /\ \A i \in m + 1 .. p : t[i] \notin ClauseMarks
  BY <1>1, <1>3, ClauseStartIs
<1> HIDE DEF r
<1>5. k \in 0 .. r /\ (k = 0 \/ s[k] \in ClauseMarks) /\ \A i \in k + 1 .. r : s[i] \notin ClauseMarks
  BY <1>1, <1>3, ClauseStartIs
<1> HIDE DEF m, k
<1>6. m \in lo .. p
  <2> SUFFICES ASSUME m < lo PROVE FALSE
    BY <1>1, <1>4
  <2>1. lo \in m + 1 .. p /\ lo # 0
    BY <1>1, <1>4
  <2>2. QED
    BY <1>2, <1>4, <2>1
<1>7. ~(lo + k < m)
  <2> SUFFICES ASSUME lo + k < m PROVE FALSE
    OBVIOUS
  <2>1. m \in lo + 1 .. hi /\ m - lo \in k + 1 .. r /\ m # 0
    BY <1>1, <1>3, <1>4, <1>5
  <2>2. s[m - lo] = t[m]
    BY <1>1, <2>1
  <2>3. QED
    BY <1>4, <1>5, <2>1, <2>2
<1>8. ~(m < lo + k)
  <2> SUFFICES ASSUME m < lo + k PROVE FALSE
    OBVIOUS
  <2>1. k # 0 /\ k \in 1 .. hi - lo /\ lo + k \in m + 1 .. p
    BY <1>1, <1>3, <1>4, <1>5, <1>6
  <2>2. s[k] = t[lo + k]
    BY <1>1, <2>1
  <2>3. QED
    BY <1>4, <1>5, <2>1, <2>2
<1>9. k = m - lo
  BY <1>1, <1>3, <1>4, <1>5, <1>7, <1>8
<1>10. QED
  BY <1>6, <1>9 DEF m, k, r

\* and ends in it,
LEMMA ShiftEnd ==
    ASSUME NEW t, NEW lo, NEW hi, NEW s, IsSentence(t, lo, hi, s), NEW p \in lo .. hi
    PROVE  /\ ClauseEnd(t, p) \in p .. hi
           /\ ClauseEnd(s, p - lo) = ClauseEnd(t, p) - lo
<1> DEFINE m == ClauseEnd(t, p)
           r == p - lo
           k == ClauseEnd(s, r)
<1>1. /\ Len(t) \in Nat /\ lo \in Nat /\ hi \in Nat /\ lo <= hi /\ hi <= Len(t)
      /\ Len(s) = hi - lo /\ \A i \in 1 .. hi - lo : s[i] = t[lo + i]
      /\ \A i \in lo + 1 .. hi : s[i - lo] = t[i]
      /\ Len(s) \in Nat
  BY ShiftedIs DEF Shifted, IsPart
<1>2. hi = Len(t) \/ t[hi + 1] \in ClauseMarks
  BY DEF IsSentence, ClauseMarks
<1>3. p \in 0 .. Len(t) /\ r \in 0 .. Len(s) /\ lo + r = p
  BY <1>1
<1>4. /\ m \in p .. Len(t) /\ (m = Len(t) \/ t[m + 1] \in ClauseMarks)
      /\ \A i \in p + 1 .. m : t[i] \notin ClauseMarks
  BY <1>1, <1>3, ClauseEndIs
<1> HIDE DEF r
<1>5. /\ k \in r .. Len(s) /\ (k = Len(s) \/ s[k + 1] \in ClauseMarks)
      /\ \A i \in r + 1 .. k : s[i] \notin ClauseMarks
  BY <1>1, <1>3, ClauseEndIs
<1> HIDE DEF m, k
<1>6. m \in p .. hi
  <2> SUFFICES ASSUME hi < m PROVE FALSE
    BY <1>1, <1>4
  <2>1. hi + 1 \in p + 1 .. m /\ hi # Len(t)
    BY <1>1, <1>4
  <2>2. QED
    BY <1>2, <1>4, <2>1
<1>7. ~(m < lo + k)
  <2> SUFFICES ASSUME m < lo + k PROVE FALSE
    OBVIOUS
  <2> DEFINE n == m + 1
  <2>1. n \in lo + 1 .. hi /\ n - lo \in r + 1 .. k /\ m # Len(t)
    BY <1>1, <1>3, <1>4, <1>5
  <2> HIDE DEF n
  <2>2. s[n - lo] = t[n]
    BY <1>1, <2>1
  <2>3. QED
    BY <1>4, <1>5, <2>1, <2>2 DEF n
<1>8. ~(lo + k < m)
  <2> SUFFICES ASSUME lo + k < m PROVE FALSE
    OBVIOUS
  <2> DEFINE n == k + 1
  <2>1. k # Len(s) /\ n \in 1 .. hi - lo /\ lo + n \in p + 1 .. m
    BY <1>1, <1>3, <1>4, <1>5, <1>6
  <2> HIDE DEF n
  <2>2. s[n] = t[lo + n]
    BY <1>1, <2>1
  <2>3. QED
    BY <1>4, <1>5, <2>1, <2>2 DEF n
<1>9. k = m - lo
  <2>1. lo \in Nat /\ p \in Nat /\ m \in Nat /\ r \in Nat /\ Len(s) \in Nat
    BY <1>1, <1>3, <1>6
  <2>2. k \in Nat
    BY <1>5, <2>1
  <2>3. QED
    BY <1>7, <1>8, <2>1, <2>2
<1>10. QED
  BY <1>6, <1>9 DEF m, k, r

\* and so does a sentence.
LEMMA ShiftSentenceEnd ==
    ASSUME NEW t, NEW lo, NEW hi, NEW s, IsSentence(t, lo, hi, s), NEW p \in lo .. hi
    PROVE  /\ SentenceEnd(t, p) \in p .. hi
           /\ SentenceEnd(s, p - lo) = SentenceEnd(t, p) - lo
<1> DEFINE m == SentenceEnd(t, p)
           r == p - lo
           k == SentenceEnd(s, r)
<1>1. /\ Len(t) \in Nat /\ lo \in Nat /\ hi \in Nat /\ lo <= hi /\ hi <= Len(t)
      /\ Len(s) = hi - lo /\ \A i \in 1 .. hi - lo : s[i] = t[lo + i]
      /\ \A i \in lo + 1 .. hi : s[i - lo] = t[i]
      /\ Len(s) \in Nat
  BY ShiftedIs DEF Shifted, IsPart
<1>2. hi = Len(t) \/ t[hi + 1] \in SentenceMarks
  BY DEF IsSentence
<1>3. p \in 0 .. Len(t) /\ r \in 0 .. Len(s) /\ lo + r = p
  BY <1>1
<1>4. /\ m \in p .. Len(t) /\ (m = Len(t) \/ t[m + 1] \in SentenceMarks)
      /\ \A i \in p + 1 .. m : t[i] \notin SentenceMarks
  BY <1>1, <1>3, SentenceEndIs
<1> HIDE DEF r
<1>5. /\ k \in r .. Len(s) /\ (k = Len(s) \/ s[k + 1] \in SentenceMarks)
      /\ \A i \in r + 1 .. k : s[i] \notin SentenceMarks
  BY <1>1, <1>3, SentenceEndIs
<1> HIDE DEF m, k
<1>6. m \in p .. hi
  <2> SUFFICES ASSUME hi < m PROVE FALSE
    BY <1>1, <1>4
  <2>1. hi + 1 \in p + 1 .. m /\ hi # Len(t)
    BY <1>1, <1>4
  <2>2. QED
    BY <1>2, <1>4, <2>1
<1>7. ~(m < lo + k)
  <2> SUFFICES ASSUME m < lo + k PROVE FALSE
    OBVIOUS
  <2> DEFINE n == m + 1
  <2>1. n \in lo + 1 .. hi /\ n - lo \in r + 1 .. k /\ m # Len(t)
    BY <1>1, <1>3, <1>4, <1>5
  <2> HIDE DEF n
  <2>2. s[n - lo] = t[n]
    BY <1>1, <2>1
  <2>3. QED
    BY <1>4, <1>5, <2>1, <2>2 DEF n
<1>8. ~(lo + k < m)
  <2> SUFFICES ASSUME lo + k < m PROVE FALSE
    OBVIOUS
  <2> DEFINE n == k + 1
  <2>1. k # Len(s) /\ n \in 1 .. hi - lo /\ lo + n \in p + 1 .. m
    BY <1>1, <1>3, <1>4, <1>5, <1>6
  <2> HIDE DEF n
  <2>2. s[n] = t[lo + n]
    BY <1>1, <2>1
  <2>3. QED
    BY <1>4, <1>5, <2>1, <2>2 DEF n
<1>9. k = m - lo
  <2>1. lo \in Nat /\ p \in Nat /\ m \in Nat /\ r \in Nat /\ Len(s) \in Nat
    BY <1>1, <1>3, <1>6
  <2>2. k \in Nat
    BY <1>5, <2>1
  <2>3. QED
    BY <1>7, <1>8, <2>1, <2>2
<1>10. QED
  BY <1>6, <1>9 DEF m, k, r

\* Going back over marks within the sentence is going back in the text, unless it reaches
\* the start of the sentence.
LEMMA ShiftBack ==
    ASSUME NEW t, NEW lo, NEW hi, NEW s, IsSentence(t, lo, hi, s), NEW r \in 0 .. hi - lo,
           NEW marks
    PROVE  /\ Back(s, r, marks) \in 0 .. r
           /\ Back(s, r, marks) > 0 => Back(t, lo + r, marks) = lo + Back(s, r, marks)
           /\ Back(s, r, marks) = 0 => Back(t, lo + r, marks) <= lo
           /\ Back(t, lo + r, marks) \in Nat
<1> DEFINE p == lo + r
           m == Back(t, p, marks)
           k == Back(s, r, marks)
<1>1. /\ Len(t) \in Nat /\ lo \in Nat /\ hi \in Nat /\ lo <= hi /\ hi <= Len(t)
      /\ Len(s) = hi - lo /\ \A i \in 1 .. hi - lo : s[i] = t[lo + i]
      /\ \A i \in lo + 1 .. hi : s[i - lo] = t[i]
      /\ Len(s) \in Nat
  BY ShiftedIs DEF Shifted, IsPart
<1>2. p \in 0 .. Len(t) /\ r \in 0 .. Len(s) /\ p <= hi
  BY <1>1
<1> HIDE DEF p
<1>3. m \in 0 .. p /\ (m = 0 \/ t[m] \notin marks) /\ \A i \in m + 1 .. p : t[i] \in marks
  BY <1>1, <1>2, BackIs
<1>4. k \in 0 .. r /\ (k = 0 \/ s[k] \notin marks) /\ \A i \in k + 1 .. r : s[i] \in marks
  BY <1>1, <1>2, BackIs
<1> HIDE DEF m, k
<1>5. m > lo => ~(lo + k < m)
  <2> SUFFICES ASSUME m > lo, lo + k < m PROVE FALSE
    OBVIOUS
  <2>1. m \in lo + 1 .. hi /\ m - lo \in k + 1 .. r /\ m # 0
    BY <1>1, <1>2, <1>3, <1>4 DEF p
  <2>2. s[m - lo] = t[m]
    BY <1>1, <2>1
  <2>3. QED
    BY <1>3, <1>4, <2>1, <2>2
<1>6. k > 0 => ~(m < lo + k)
  <2> SUFFICES ASSUME k > 0, m < lo + k PROVE FALSE
    OBVIOUS
  <2>1. k \in 1 .. hi - lo /\ lo + k \in m + 1 .. p
    BY <1>1, <1>3, <1>4 DEF p
  <2>2. s[k] = t[lo + k]
    BY <1>1, <2>1
  <2>3. QED
    BY <1>3, <1>4, <2>1, <2>2
<1>7. k \in Nat /\ m \in Nat /\ lo \in Nat
  BY <1>1, <1>2, <1>3, <1>4
<1>8. (k > 0 => m = lo + k) /\ (k = 0 => m <= lo)
  BY <1>5, <1>6, <1>7
<1>9. QED
  BY <1>4, <1>7, <1>8 DEF m, k, p

\* So the name before a verb is the same one.
LEMMA ShiftSubject ==
    ASSUME NEW t, NEW lo, NEW hi, NEW s, IsSentence(t, lo, hi, s), NEW k \in 1 .. hi - lo,
           Subject(s, k) > 0
    PROVE  Subject(s, k) \in 1 .. k - 1 /\ Subject(t, lo + k) = lo + Subject(s, k)
<1> DEFINE r == k - 1
           r1 == Back(s, r, {"nl"})
           r2 == Back(s, r1, {"comma"})
           r3 == Back(s, r2, {"dot"})
           r4 == Back(s, r3, {"colon"})
<1>1. Subject(s, k) = r4 /\ r4 > 0
  BY DEF Subject
<1>2. lo \in Nat /\ hi \in Nat /\ r \in 0 .. hi - lo /\ lo + k - 1 = lo + r
  BY ShiftedIs DEF Shifted
<1> HIDE DEF r
<1>3. r1 \in 0 .. r /\ (r1 > 0 => Back(t, lo + r, {"nl"}) = lo + r1)
  BY <1>2, ShiftBack
<1> HIDE DEF r1
<1>4. r2 \in 0 .. r1 /\ (r2 > 0 => Back(t, lo + r1, {"comma"}) = lo + r2)
  <2>1. r1 \in 0 .. hi - lo
    BY <1>2, <1>3
  <2>2. QED
    BY <2>1, ShiftBack
<1> HIDE DEF r2
<1>5. r3 \in 0 .. r2 /\ (r3 > 0 => Back(t, lo + r2, {"dot"}) = lo + r3)
  <2>1. r2 \in 0 .. hi - lo
    BY <1>2, <1>3, <1>4
  <2>2. QED
    BY <2>1, ShiftBack
<1> HIDE DEF r3
<1>6. r4 \in 0 .. r3 /\ (r4 > 0 => Back(t, lo + r3, {"colon"}) = lo + r4)
  <2>1. r3 \in 0 .. hi - lo
    BY <1>2, <1>3, <1>4, <1>5
  <2>2. QED
    BY <2>1, ShiftBack
<1> HIDE DEF r4
<1>7. r3 > 0 /\ r2 > 0 /\ r1 > 0 /\ r4 \in 1 .. r
  BY <1>1, <1>2, <1>3, <1>4, <1>5, <1>6
<1>8. Subject(t, lo + k) = lo + r4
  BY <1>1, <1>2, <1>3, <1>4, <1>5, <1>6, <1>7 DEF Subject
<1>9. QED
  BY <1>1, <1>7, <1>8 DEF r

\* The sentence of a candidate and the same candidate in it.  If nothing but line ends
\* stands before him in it, no comma stands before it.
NoCommaBefore(t, lo, q) == q > lo \/ q = 0 \/ t[q] # "comma"
Moved(t, c, lo, hi, s, d) ==
    /\ IsSentence(t, lo, hi, s) /\ NoCommaBefore(t, lo, Back(t, c.start, {"nl"}))
    /\ c.start \in lo .. hi /\ c.end \in c.start .. hi
    /\ d.label = c.label /\ d.start = c.start - lo /\ d.end = c.end - lo

\* The last of some places of a sentence is the last of those of the text.
AreMoved(A, n, B, lo) ==
    /\ lo \in Nat /\ n \in Nat /\ A # {}
    /\ A \in SUBSET (1 .. n) /\ B \in SUBSET (1 .. lo + n)
    /\ \A i \in A : lo + i \in B
    /\ \A j \in B : j > lo => j - lo \in A

LEMMA ShiftMax ==
    ASSUME NEW A, NEW n, NEW B, NEW lo, AreMoved(A, n, B, lo)
    PROVE  Max(A) \in A /\ B # {} /\ Max(B) = lo + Max(A)
<1> USE DEF AreMoved
<1> DEFINE a == Max(A)
           b == Max(B)
<1>1. a \in A /\ \A i \in A : i <= a
  <2>1. A \in SUBSET (0 .. n)
    OBVIOUS
  <2>2. QED
    BY <2>1, MaxIs
<1>2. B # {}
  BY <1>1
<1>3. b \in B /\ \A j \in B : j <= b
  <2>1. B \in SUBSET (0 .. lo + n) /\ lo + n \in Nat
    OBVIOUS
  <2>2. QED
    BY <1>2, <2>1, MaxIs
<1> HIDE DEF a, b
<1>4. a \in 1 .. n /\ b \in 1 .. lo + n /\ lo + a <= b
  BY <1>1, <1>3
<1>5. b - lo \in A
  BY <1>3, <1>4
<1>6. b - lo <= a
  BY <1>1, <1>5
<1>7. QED
  BY <1>1, <1>2, <1>4, <1>6 DEF a, b

\* The first of those after a place, too.
LEMMA ShiftMin ==
    ASSUME NEW lo \in Nat, NEW A \in SUBSET Nat, A # {},
           NEW B \in SUBSET Nat, NEW m \in Nat, \A i \in A : i <= m /\ lo + i \in B,
           \A j \in B : j > lo /\ (j <= lo + m => j - lo \in A)
    PROVE  Min(A) \in A /\ B # {} /\ Min(B) = lo + Min(A)
<1> DEFINE a == Min(A)
           b == Min(B)
<1>1. a \in A /\ \A i \in A : a <= i
  BY MinIs
<1>2. B # {}
  BY <1>1
<1>3. b \in B /\ \A j \in B : b <= j
  BY <1>2, MinIs
<1> HIDE DEF a, b
<1>4. a \in Nat /\ b \in Nat /\ b <= lo + a /\ a <= m
  BY <1>1, <1>3
<1>5. b - lo \in A
  BY <1>3, <1>4
<1>6. a <= b - lo
  BY <1>1, <1>5
<1>7. QED
  BY <1>1, <1>2, <1>4, <1>6 DEF a, b

LEMMA MovedIs ==
    ASSUME NEW t, NEW c, NEW lo, NEW hi, NEW s, NEW d, Moved(t, c, lo, hi, s, d)
    PROVE  /\ Len(t) \in Nat /\ lo \in Nat /\ hi \in Nat /\ lo <= hi /\ hi <= Len(t)
           /\ c.start \in lo .. hi /\ c.end \in c.start .. hi
           /\ IsPart(t) /\ IsPart(s) /\ Len(s) = hi - lo
           /\ \A i \in 1 .. hi - lo : s[i] = t[lo + i]
           /\ \A i \in lo + 1 .. hi : s[i - lo] = t[i]
           /\ (lo = 0 \/ t[lo] \in SentenceMarks)
           /\ (hi = Len(t) \/ t[hi + 1] \in SentenceMarks)
<1>1. Shifted(t, lo, hi, s)
  BY ShiftedIs DEF Moved
<1>2. /\ IsPart(t) /\ (lo = 0 \/ t[lo] \in SentenceMarks)
      /\ (hi = Len(t) \/ t[hi + 1] \in SentenceMarks)
  BY DEF Moved, IsSentence
<1>3. c.start \in lo .. hi /\ c.end \in c.start .. hi
  BY DEF Moved
<1>4. QED
  BY <1>1, <1>2, <1>3 DEF Shifted

\* Each of the contexts is within the sentence: the e-mail address,
LEMMA MovedEmail ==
    ASSUME NEW t, NEW c, NEW lo, NEW hi, NEW s, NEW d, Moved(t, c, lo, hi, s, d)
    PROVE  InsideEmail(s, d) <=> InsideEmail(t, c)
<1> DEFINE a == c.start
           b == c.end + 1
<1>1. /\ Len(t) \in Nat /\ lo \in Nat /\ hi \in Nat /\ lo <= hi /\ hi <= Len(t)
      /\ a \in lo .. hi /\ b \in a + 1 .. hi + 1
      /\ Len(s) = hi - lo /\ \A i \in lo + 1 .. hi : s[i - lo] = t[i]
      /\ (lo = 0 \/ t[lo] # "at") /\ (hi = Len(t) \/ t[hi + 1] # "at")
  BY MovedIs DEF SentenceMarks
<1>2. d.start = a - lo /\ d.end + 1 = b - lo
  BY <1>1 DEF Moved
<1>3. DOMAIN t = 1 .. Len(t) /\ DOMAIN s = 1 .. Len(s)
  BY MovedIs DEF IsPart
<1>4. InsideEmail(t, c) <=> \E i \in {a, b} : i \in 1 .. Len(t) /\ t[i] = "at"
  BY <1>3 DEF InsideEmail
<1>5. InsideEmail(s, d) <=> \E i \in {a - lo, b - lo} : i \in 1 .. Len(s) /\ s[i] = "at"
  BY <1>2, <1>3 DEF InsideEmail
<1> HIDE DEF a, b
<1>6. ASSUME NEW i \in {a, b}
      PROVE  i - lo \in 1 .. Len(s) /\ s[i - lo] = "at" <=> i \in 1 .. Len(t) /\ t[i] = "at"
  <2>1. i \in lo .. hi + 1
    BY <1>1
  <2>2. CASE i = lo \/ i = hi + 1
    BY <1>1, <2>2
  <2>3. CASE i \in lo + 1 .. hi
    <3>1. i - lo \in 1 .. Len(s) /\ i \in 1 .. Len(t)
      BY <1>1, <2>3
    <3>2. QED
      BY <1>1, <2>3, <3>1
  <2>4. QED
    BY <1>1, <2>1, <2>2, <2>3
<1>7. QED
  BY <1>4, <1>5, <1>6

\* Two reach further; found in the sentence, they are found in the text: the key of an author,
LEMMA MovedAuthor ==
    ASSUME NEW t, NEW c, NEW lo, NEW hi, NEW s, NEW d, Moved(t, c, lo, hi, s, d),
           IsPublicAuthorValue(s, d)
    PROVE  IsPublicAuthorValue(t, c)
<1> DEFINE a == c.start
           n == a - lo
           A == {i \in 1 .. n : s[i] = "author_key"}
           B == {i \in 1 .. a : t[i] = "author_key"}
           k == Max(A)
           m == Max(B)
<1>1. /\ Len(t) \in Nat /\ lo \in Nat /\ hi \in Nat /\ lo <= hi /\ hi <= Len(t)
      /\ a \in lo .. hi /\ \A i \in 1 .. hi - lo : s[i] = t[lo + i]
      /\ \A i \in lo + 1 .. hi : s[i - lo] = t[i]
  BY MovedIs
<1>2. d.start = n /\ IsSentence(t, lo, hi, s)
  BY DEF Moved
<1>3. /\ A # {} /\ ~HasAny(Piece(s, k, n), {"brace"})
      /\ \E i \in k + 1 .. n : s[i] = "colon" /\ \A j \in k + 1 .. i - 1 : s[j] = "nl"
  BY <1>2 DEF IsPublicAuthorValue
<1>4. n \in Nat /\ lo + n = a /\ n <= hi - lo
  BY <1>1
<1>5. A \in SUBSET (1 .. n) /\ B \in SUBSET (1 .. lo + n)
  BY <1>4
<1>6. \A i \in A : lo + i \in B
  BY <1>1, <1>4
<1>7. \A j \in B : j > lo => j - lo \in A
  BY <1>1, <1>4
<1>8. /\ B # {} /\ ~HasAny(Piece(t, m, a), {"brace"})
      /\ \E i \in m + 1 .. a : t[i] = "colon" /\ \A j \in m + 1 .. i - 1 : t[j] = "nl"
      => IsPublicAuthorValue(t, c)
  BY DEF IsPublicAuthorValue
<1> HIDE DEF A, B, n, a
<1>9. k \in A /\ B # {} /\ m = lo + k
  <2>1. lo \in Nat /\ n \in Nat /\ A # {}
    BY <1>1, <1>3, <1>4
  <2>2. AreMoved(A, n, B, lo)
    BY <1>5, <1>6, <1>7, <2>1 DEF AreMoved
  <2>3. QED
    BY <2>2, ShiftMax
<1>10. k \in 1 .. n
  BY <1>5, <1>9
<1> HIDE DEF k, m
<1>11. m \in lo .. hi /\ a \in m .. hi /\ m - lo = k /\ a - lo = n
  BY <1>1, <1>4, <1>9, <1>10
<1>12. Piece(s, k, n) = Piece(t, m, a)
  <2>1. Piece(s, m - lo, a - lo) = Piece(t, m, a)
    BY <1>2, <1>11, ShiftPiece
  <2>2. QED
    BY <1>11, <2>1
<1>13. \E i \in m + 1 .. a : t[i] = "colon" /\ \A j \in m + 1 .. i - 1 : t[j] = "nl"
  <2>1. PICK i \in k + 1 .. n : s[i] = "colon" /\ \A j \in k + 1 .. i - 1 : s[j] = "nl"
    BY <1>3
  <2> DEFINE q == lo + i
  <2>2. q \in m + 1 .. a /\ i \in 1 .. hi - lo
    BY <1>1, <1>4, <1>9, <1>10
  <2>3. t[q] = "colon"
    BY <1>1, <2>1, <2>2
  <2>4. ASSUME NEW j \in m + 1 .. q - 1 PROVE t[j] = "nl"
    <3>1. j \in lo + 1 .. hi /\ j - lo \in k + 1 .. i - 1
      BY <1>1, <1>4, <1>9, <1>10, <2>2
    <3>2. s[j - lo] = t[j]
      BY <1>1, <3>1
    <3>3. QED
      BY <2>1, <3>1, <3>2
  <2> HIDE DEF q
  <2>5. QED
    BY <2>2, <2>3, <2>4
<1>14. QED
  BY <1>3, <1>8, <1>9, <1>12, <1>13

\* and the client who was born there.
LEMMA MovedBirthplace ==
    ASSUME NEW t, NEW c, NEW lo, NEW hi, NEW s, NEW d, Moved(t, c, lo, hi, s, d),
           BirthplaceOfClient(s, d)
    PROVE  BirthplaceOfClient(t, c)
<1> DEFINE a == c.start
           n == a - lo
           A == {i \in 1 .. n : s[i] = "born"}
           B == {i \in 1 .. a : t[i] = "born"}
           C == {i \in n + 1 .. Len(s) : s[i] = "client_fio"}
           D == {i \in a + 1 .. Len(t) : t[i] = "client_fio"}
           k == Max(A)
           m == Max(B)
           e == Subject(s, k)
           f == Subject(t, m)
           x == Min(C)
           y == Min(D)
<1>1. /\ Len(t) \in Nat /\ lo \in Nat /\ hi \in Nat /\ lo <= hi /\ hi <= Len(t)
      /\ a \in lo .. hi /\ \A i \in 1 .. hi - lo : s[i] = t[lo + i]
      /\ \A i \in lo + 1 .. hi : s[i - lo] = t[i]
      /\ Len(s) = hi - lo
  BY MovedIs
<1>2. d.start = n /\ IsSentence(t, lo, hi, s) /\ IsPart(t)
  BY DEF Moved, IsSentence
<1>3. /\ A # {} /\ C # {} /\ e > 0 /\ s[e] = "Ann"
      /\ HasAny(Piece(s, x, Len(s)), {"Ann"})
  BY <1>2 DEF BirthplaceOfClient
<1>4. n \in Nat /\ lo + n = a /\ n <= hi - lo
  BY <1>1
<1>5. A \in SUBSET (1 .. n) /\ B \in SUBSET (1 .. lo + n)
  BY <1>4
<1>6. \A i \in A : lo + i \in B
  BY <1>1, <1>4, SMTT(30)
<1>7. \A j \in B : j > lo => j - lo \in A
  BY <1>1, <1>4
<1>8. /\ C \in SUBSET Nat /\ D \in SUBSET Nat /\ hi - lo \in Nat
      /\ \A i \in C : i \in 1 .. hi - lo
      /\ \A j \in D : j > lo
  BY <1>1, <1>4, SMTT(30)
<1>9. \A i \in C : i <= hi - lo /\ lo + i \in D
  <2> SUFFICES ASSUME NEW i \in C PROVE i <= hi - lo /\ lo + i \in D
    OBVIOUS
  <2>1. i \in n + 1 .. hi - lo /\ i \in 1 .. hi - lo /\ s[i] = "client_fio"
    BY <1>1, <1>4
  <2>2. t[lo + i] = "client_fio"
    BY <1>1, <2>1
  <2>3. a \in Nat /\ lo + i \in a + 1 .. Len(t)
    <3> HIDE DEF C, D
    <3>1. a \in Nat /\ lo + n = a /\ i >= n + 1 /\ i <= hi - lo
      BY <1>1, <1>4, <2>1
    <3> HIDE DEF n, a
    <3>2. QED
      BY <1>1, <1>4, <2>1, <3>1
  <2>4. i <= hi - lo
    BY <1>1, <2>1
  <2>5. QED
    BY <2>2, <2>3, <2>4
<1>10. \A j \in D : j <= lo + (hi - lo) => j - lo \in C
  <2> SUFFICES ASSUME NEW j \in D, j <= lo + (hi - lo) PROVE j - lo \in C
    OBVIOUS
  <2>1. j \in lo + 1 .. hi /\ j \in a + 1 .. hi /\ t[j] = "client_fio"
    BY <1>1, <1>4
  <2>2. s[j - lo] = "client_fio"
    BY <1>1, <2>1
  <2>3. n \in Nat /\ j - lo \in n + 1 .. Len(s)
    <3> HIDE DEF C, D
    <3>1. a \in Nat /\ lo + n = a /\ j >= a + 1 /\ j <= hi
      BY <1>1, <1>4, <2>1
    <3> HIDE DEF n, a
    <3>2. QED
      BY <1>1, <1>4, <2>1, <3>1
  <2>4. QED
    BY <2>2, <2>3
<1>11. (B # {} /\ D # {} /\ f > 0 /\ t[f] = "Ann" /\ HasAny(Piece(t, y, Len(t)), {"Ann"}))
       => BirthplaceOfClient(t, c)
  BY DEF BirthplaceOfClient
<1> HIDE DEF A, B, C, D, n, a
<1>12. k \in A /\ B # {} /\ m = lo + k
  <2>1. lo \in Nat /\ n \in Nat /\ A # {}
    BY <1>1, <1>3, <1>4
  <2>2. AreMoved(A, n, B, lo)
    BY <1>5, <1>6, <1>7, <2>1 DEF AreMoved
  <2>3. QED
    BY <2>2, ShiftMax
<1>13. x \in C /\ D # {} /\ y = lo + x
  BY <1>1, <1>3, <1>8, <1>9, <1>10, ShiftMin
<1>14. k \in 1 .. n
  BY <1>5, <1>12
<1> HIDE DEF k, m, x, y
<1>15. k \in 1 .. hi - lo
  BY <1>1, <1>4, <1>14
<1>16. e \in 1 .. k - 1 /\ Subject(t, lo + k) = lo + e
  <2> HIDE DEF f
  <2>1. Subject(s, k) > 0
    BY <1>3
  <2>2. QED
    BY <1>2, <1>15, <2>1, ShiftSubject
<1>17. f = lo + e
  BY <1>12, <1>16
<1> HIDE DEF e, f
<1>18. f > 0
  BY <1>1, <1>14, <1>16, <1>17
<1>19. s[e] = "Ann"
  BY <1>3
<1>20. t[f] = "Ann"
  <2>1. e \in 1 .. hi - lo
    BY <1>1, <1>15, <1>16
  <2>2. QED
    BY <1>1, <1>17, <1>19, <2>1
<1>21. HasAny(Piece(t, y, Len(t)), {"Ann"})
  <2> DEFINE u == Piece(s, x, Len(s))
             v == Piece(t, y, Len(t))
  <2>1. /\ x \in 1 .. hi - lo /\ y \in lo .. hi /\ y \in 0 .. Len(t) /\ hi \in y .. hi
        /\ x \in 0 .. Len(s) /\ Len(s) \in x .. Len(s) /\ Len(t) \in y .. Len(t)
        /\ Len(s) - x = hi - y /\ hi - y <= Len(t) - y
    BY <1>1, <1>8, <1>13
  <2>2. IsPart(s)
    BY MovedIs
  <2>3. IsPart(u) /\ Len(u) = hi - y /\ \A i \in 1 .. hi - y : u[i] = s[x + i]
    <3> DEFINE l == Len(s)
    <3>1. IsPart(s) /\ x \in 0 .. Len(s) /\ l \in x .. Len(s) /\ l - x = hi - y
      BY <2>1, <2>2
    <3> HIDE DEF l
    <3>2. /\ IsPart(Piece(s, x, l)) /\ Len(Piece(s, x, l)) = l - x
          /\ \A i \in 1 .. l - x : Piece(s, x, l)[i] = s[x + i]
      BY <3>1, PieceIs
    <3>3. QED
      BY <3>1, <3>2 DEF l
  <2>4. IsPart(v) /\ Len(v) = Len(t) - y /\ \A i \in 1 .. Len(t) - y : v[i] = t[y + i]
    <3>1. IsPart(t) /\ y \in 0 .. Len(t) /\ Len(t) \in y .. Len(t)
      BY <1>2, <2>1
    <3>2. QED
      BY <3>1, PieceIs
  <2> HIDE DEF u, v
  <2>5. "Ann" \in Range(u)
    BY <1>3 DEF HasAny, u
  <2>6. PICK i \in 1 .. hi - y : u[i] = "Ann"
    BY <2>3, <2>5, RangeIs DEF IsPart
  <2>7. x + i \in 1 .. hi - lo /\ lo + (x + i) = y + i /\ i \in 1 .. Len(t) - y
    BY <1>1, <1>13, <2>1
  <2>8. v[i] = "Ann"
    BY <1>1, <2>3, <2>4, <2>6, <2>7
  <2>9. i \in DOMAIN v
    BY <2>4, <2>7 DEF IsPart
  <2>10. "Ann" \in Range(v)
    BY <2>4, <2>8, <2>9, RangeIs DEF IsPart
  <2>11. QED
    BY <2>10 DEF HasAny, v
<1>22. QED
  BY <1>11, <1>12, <1>13, <1>18, <1>20, <1>21

\* the clause,
LEMMA MovedClause ==
    ASSUME NEW t, NEW c, NEW lo, NEW hi, NEW s, NEW d, Moved(t, c, lo, hi, s, d)
    PROVE  /\ Piece(s, ClauseStart(s, d.start), ClauseEnd(s, d.end))
                = Piece(t, ClauseStart(t, c.start), ClauseEnd(t, c.end))
           /\ Piece(s, ClauseStart(s, d.start), d.start)
                = Piece(t, ClauseStart(t, c.start), c.start)
           /\ Piece(s, d.end, ClauseEnd(s, d.end)) = Piece(t, c.end, ClauseEnd(t, c.end))
<1> DEFINE a == c.start
           b == c.end
           m == ClauseStart(t, a)
           n == ClauseEnd(t, b)
<1>1. /\ IsSentence(t, lo, hi, s) /\ a \in lo .. hi /\ b \in a .. hi
      /\ d.start = a - lo /\ d.end = b - lo
  BY DEF Moved
<1>2. lo \in Nat /\ hi \in Nat
  BY MovedIs
<1>3. b \in lo .. hi
  BY <1>1, <1>2
<1> HIDE DEF a, b
<1>4. m \in lo .. a /\ ClauseStart(s, d.start) = m - lo
  BY <1>1, ShiftStart
<1>5. n \in b .. hi /\ ClauseEnd(s, d.end) = n - lo
  BY <1>1, <1>3, ShiftEnd
<1> HIDE DEF m, n
<1>6. m \in lo .. hi /\ n \in m .. hi /\ a \in m .. hi /\ n \in b .. hi
  BY <1>1, <1>2, <1>3, <1>4, <1>5
<1>7. Piece(s, m - lo, n - lo) = Piece(t, m, n)
  BY <1>1, <1>6, ShiftPiece
<1>8. Piece(s, m - lo, a - lo) = Piece(t, m, a)
  BY <1>1, <1>6, ShiftPiece
<1>9. Piece(s, b - lo, n - lo) = Piece(t, b, n)
  BY <1>1, <1>3, <1>6, ShiftPiece
<1>10. QED
  BY <1>1, <1>4, <1>5, <1>7, <1>8, <1>9 DEF a, b, m, n

\* what stands before the comma,
LEMMA MovedAppositive ==
    ASSUME NEW t, NEW c, NEW lo, NEW hi, NEW s, NEW d, Moved(t, c, lo, hi, s, d)
    PROVE  Appositive(s, d) = Appositive(t, c)
<1> DEFINE a == c.start
           r == a - lo
           q == Back(t, a, {"nl"})
           k == Back(s, r, {"nl"})
           p == q - 1
           m == ClauseStart(t, p)
<1>1. /\ Len(t) \in Nat /\ lo \in Nat /\ hi \in Nat /\ lo <= hi /\ hi <= Len(t)
      /\ a \in lo .. hi /\ \A i \in lo + 1 .. hi : s[i - lo] = t[i]
  BY MovedIs
<1>2. IsSentence(t, lo, hi, s) /\ d.start = r /\ NoCommaBefore(t, lo, q)
  BY DEF Moved
<1>3. /\ Appositive(t, c) = IF q > 0 /\ t[q] = "comma"
                            THEN Piece(t, ClauseStart(t, p), p) ELSE <<>>
      /\ Appositive(s, d) = IF k > 0 /\ s[k] = "comma"
                            THEN Piece(s, ClauseStart(s, k - 1), k - 1) ELSE <<>>
  BY <1>2 DEF Appositive
<1>4. r \in 0 .. hi - lo /\ lo + r = a
  BY <1>1
<1> HIDE DEF r
<1>5. k \in 0 .. r /\ (k > 0 => q = lo + k) /\ (k = 0 => q <= lo) /\ q \in Nat
  BY <1>2, <1>4, ShiftBack
<1> HIDE DEF a, q, k
<1>6. CASE k = 0
  <2>1. ~(q > 0 /\ t[q] = "comma") /\ ~(k > 0)
    BY <1>1, <1>2, <1>5, <1>6 DEF NoCommaBefore
  <2>2. QED
    BY <1>3, <2>1
<1>7. CASE k > 0
  <2>1. q > 0 /\ q = lo + k /\ q \in lo + 1 .. hi /\ q - lo = k
    BY <1>1, <1>4, <1>5, <1>7
  <2>2. s[k] = t[q]
    BY <1>1, <2>1
  <2>3. p \in lo .. hi /\ k - 1 = p - lo
    BY <1>1, <2>1
  <2> HIDE DEF p
  <2>4. m \in lo .. p /\ ClauseStart(s, k - 1) = m - lo
    BY <1>2, <2>3, ShiftStart
  <2> HIDE DEF m
  <2>5. m \in lo .. hi /\ p \in m .. hi
    BY <1>1, <2>3, <2>4
  <2>6. Piece(s, m - lo, p - lo) = Piece(t, m, p)
    BY <1>2, <2>5, ShiftPiece
  <2>7. Piece(s, ClauseStart(s, k - 1), k - 1) = Piece(t, m, p)
    BY <2>3, <2>4, <2>6
  <2>8. QED
    BY <1>3, <1>7, <2>1, <2>2, <2>7 DEF m
<1>8. QED
  BY <1>5, <1>6, <1>7

\* the role behind one,
LEMMA MovedPublic ==
    ASSUME NEW t, NEW c, NEW lo, NEW hi, NEW s, NEW d, Moved(t, c, lo, hi, s, d)
    PROVE  PublicAppositiveAfter(s, d) <=> PublicAppositiveAfter(t, c)
<1> DEFINE b == c.end
           p == b + 1
           m == SentenceEnd(t, p)
<1>1. /\ Len(t) \in Nat /\ lo \in Nat /\ hi \in Nat /\ lo <= hi /\ hi <= Len(t)
      /\ b \in lo .. hi /\ (hi = Len(t) \/ t[hi + 1] # "comma")
      /\ Len(s) = hi - lo /\ \A i \in lo + 1 .. hi : s[i - lo] = t[i]
  <2>1. /\ Len(t) \in Nat /\ lo \in Nat /\ hi \in Nat /\ lo <= hi /\ hi <= Len(t)
        /\ c.start \in lo .. hi /\ c.end \in c.start .. hi
        /\ (hi = Len(t) \/ t[hi + 1] # "comma")
        /\ Len(s) = hi - lo /\ \A i \in lo + 1 .. hi : s[i - lo] = t[i]
    BY MovedIs DEF SentenceMarks
  <2>2. c.end \in lo .. hi
    BY <2>1
  <2>3. QED
    BY <2>1, <2>2
<1>2. IsSentence(t, lo, hi, s) /\ d.end = b - lo
  BY DEF Moved
<1>3. CASE b = hi
  <2>1. ~(d.end < Len(s)) /\ (b < Len(t) => t[b + 1] # "comma")
    BY <1>1, <1>2, <1>3
  <2>2. QED
    BY <2>1 DEF PublicAppositiveAfter
<1>4. CASE b < hi
  <2>1. b < Len(t) /\ d.end < Len(s) /\ p \in lo + 1 .. hi /\ p \in lo .. hi
    BY <1>1, <1>2, <1>4
  <2>2. d.end + 1 = p - lo
    BY <1>1, <1>2
  <2>3. s[d.end + 1] = t[c.end + 1]
    BY <1>1, <2>1, <2>2
  <2> HIDE DEF p
  <2>4. m \in p .. hi /\ SentenceEnd(s, d.end + 1) = m - lo
    BY <1>2, <2>1, <2>2, ShiftSentenceEnd
  <2> HIDE DEF m
  <2>5. Piece(s, p - lo, m - lo) = Piece(t, p, m)
    BY <1>2, <2>1, <2>4, ShiftPiece
  <2>6. Piece(s, d.end + 1, SentenceEnd(s, d.end + 1)) = Piece(t, p, m)
    BY <2>2, <2>4, <2>5
  <2>7. Piece(t, p, m) = Piece(t, c.end + 1, SentenceEnd(t, c.end + 1))
    BY DEF m, p, b
  <2>8. c.end < Len(t) /\ d.end < Len(s)
    BY <2>1 DEF b
  <2>9. QED
    BY <2>3, <2>6, <2>7, <2>8 DEF PublicAppositiveAfter
<1>5. QED
  BY <1>1, <1>3, <1>4

\* and the role before the candidate.
LEMMA MovedRole ==
    ASSUME NEW t, NEW c, NEW lo, NEW hi, NEW s, NEW d, Moved(t, c, lo, hi, s, d)
    PROVE  PersonalRoleBefore(s, d) <=> PersonalRoleBefore(t, c)
<1> DEFINE a == c.start
           n == a - lo
           k == ClauseStart(s, n)
           m == ClauseStart(t, a)
           A == {i \in k + 1 .. n : s[i] = "colon"}
           B == {i \in m + 1 .. a : t[i] = "colon"}
           x == IF A = {} THEN k ELSE Max(A)
           y == IF B = {} THEN m ELSE Max(B)
<1>1. /\ Len(t) \in Nat /\ lo \in Nat /\ hi \in Nat /\ lo <= hi /\ hi <= Len(t)
      /\ a \in lo .. hi /\ \A i \in 1 .. hi - lo : s[i] = t[lo + i]
      /\ \A i \in lo + 1 .. hi : s[i - lo] = t[i]
  BY MovedIs
<1>2. d.start = n /\ IsSentence(t, lo, hi, s)
  BY DEF Moved
<1>3. PersonalRoleBefore(s, d) <=> HasAny(Piece(s, x, n), Roles)
  BY <1>2 DEF PersonalRoleBefore
<1>4. PersonalRoleBefore(t, c) <=> HasAny(Piece(t, y, a), Roles)
  BY DEF PersonalRoleBefore
<1> HIDE DEF a
<1>5. m \in lo .. a /\ k = m - lo
  <2>1. a \in lo .. hi /\ IsSentence(t, lo, hi, s)
    BY <1>1, <1>2
  <2>2. QED
    BY <2>1, ShiftStart
<1>6. n \in Nat /\ lo + n = a /\ n <= hi - lo
  BY <1>1
<1> HIDE DEF m, k, n
<1>7. k \in 0 .. n /\ m = lo + k
  BY <1>1, <1>5, <1>6
<1>8. A \in SUBSET (1 .. n) /\ B \in SUBSET (1 .. lo + n)
  BY <1>1, <1>6, <1>7
<1>9. ASSUME NEW i \in A PROVE lo + i \in B
  <2>1. i \in 1 .. hi - lo /\ lo + i \in m + 1 .. a /\ s[i] = "colon"
    BY <1>1, <1>6, <1>7
  <2>2. QED
    BY <1>1, <2>1
<1>10. ASSUME NEW j \in B PROVE j - lo \in A
  <2>1. j \in lo + 1 .. hi /\ j - lo \in k + 1 .. n /\ t[j] = "colon"
    BY <1>1, <1>6, <1>7
  <2>2. QED
    BY <1>1, <2>1
<1>11. y \in lo .. a /\ x = y - lo
  <2>1. CASE A = {}
    <3>1. B = {}
      BY <1>10, <2>1
    <3>2. QED
      BY <1>5, <2>1, <3>1
  <2>2. CASE A # {}
    <3> HIDE DEF A, B
    <3>1. AreMoved(A, n, B, lo)
      BY <1>1, <1>6, <1>8, <1>9, <1>10, <2>2 DEF AreMoved
    <3>2. Max(A) \in A /\ B # {} /\ Max(B) = lo + Max(A)
      BY <3>1, ShiftMax
    <3>3. x = Max(A) /\ y = Max(B)
      BY <2>2, <3>2
    <3>4. x \in 1 .. n /\ y = lo + x
      BY <1>8, <3>2, <3>3
    <3> HIDE DEF x, y
    <3>5. QED
      BY <1>1, <1>6, <3>4
  <2>3. QED
    BY <2>1, <2>2
<1> HIDE DEF x, y
<1>12. Piece(s, x, n) = Piece(t, y, a)
  <2>1. y \in lo .. hi /\ a \in y .. hi /\ n = a - lo
    BY <1>1, <1>6, <1>11
  <2>2. Piece(s, y - lo, a - lo) = Piece(t, y, a)
    BY <1>2, <2>1, ShiftPiece
  <2>3. QED
    BY <1>11, <2>1, <2>2
<1>13. QED
  BY <1>3, <1>4, <1>12

\* A sentence is judged as the text, but for the two contexts beyond it.
LEMMA MovedDecides ==
    ASSUME NEW t, NEW c, NEW lo, NEW hi, NEW s, NEW d, Moved(t, c, lo, hi, s, d),
           ~IsPublicAuthorValue(t, c), ~BirthplaceOfClient(t, c)
    PROVE  Decide(s, d) = Decide(t, c)
<1>1. d.label = c.label
  BY DEF Moved
<1>2. DecideBySignature(s, d) = DecideBySignature(t, c)
  <2>1. Appositive(s, d) = Appositive(t, c)
    BY MovedAppositive
  <2>2. /\ Piece(s, ClauseStart(s, d.start), ClauseEnd(s, d.end))
                = Piece(t, ClauseStart(t, c.start), ClauseEnd(t, c.end))
        /\ Piece(s, ClauseStart(s, d.start), d.start)
                = Piece(t, ClauseStart(t, c.start), c.start)
        /\ Piece(s, d.end, ClauseEnd(s, d.end)) = Piece(t, c.end, ClauseEnd(t, c.end))
    BY MovedClause
  <2>3. QED
    BY <1>1, <2>1, <2>2 DEF DecideBySignature
<1>3. ~IsPublicAuthorValue(s, d) /\ ~BirthplaceOfClient(s, d)
  BY MovedAuthor, MovedBirthplace
<1>4. InsideEmail(s, d) <=> InsideEmail(t, c)
  BY MovedEmail
<1>5. /\ PublicAppositiveAfter(s, d) <=> PublicAppositiveAfter(t, c)
      /\ PersonalRoleBefore(s, d) <=> PersonalRoleBefore(t, c)
  BY MovedPublic, MovedRole
<1>6. Piece(s, ClauseStart(s, d.start), d.start) = Piece(t, ClauseStart(t, c.start), c.start)
  BY MovedClause
<1>7. QED
  BY <1>1, <1>2, <1>3, <1>4, <1>5, <1>6 DEF Decide

\* The sentence of the candidate is one.
LEMMA SentenceIs ==
    ASSUME IsCandidate(text, cand), ~IsPublicAuthorValue(text, cand),
           ~BirthplaceOfClient(text, cand)
    PROVE  Sentence = Decide(text, cand)
<1> DEFINE a == cand.start
           b == cand.end
           q == Back(text, a, {"nl"})
           first == IF q > 0 /\ text[q] = "comma" THEN q ELSE a
           Start(i) == i = 0 \/ text[i] \in SentenceMarks
           S == {i \in 0 .. first : Start(i)}
           lo == Max(S)
           hi == SentenceEnd(text, b)
           s == Piece(text, lo, hi)
           d == [cand EXCEPT !.start = @ - lo, !.end = @ - lo]
<1>1. /\ cand \in [label : Labelled, start : Nat, end : Nat] /\ IsPart(text)
      /\ Len(text) \in Nat /\ a \in Nat /\ b \in Nat /\ a < b /\ b <= Len(text)
  BY DEF IsCandidate, IsPart
<1>2. Sentence = Decide(s, d)
  BY DEF Sentence
<1>3. d.label = cand.label /\ d.start = a - lo /\ d.end = b - lo
  <2> HIDE DEF lo
  <2> QED BY <1>1
<1>4. q \in 0 .. a /\ first \in 0 .. a
  <2> HIDE DEF a
  <2>1. a \in 0 .. Len(text)
    BY <1>1
  <2>2. q \in 0 .. a
    BY <1>1, <2>1, BackIs
  <2> HIDE DEF q
  <2>3. QED
    BY <1>1, <2>2
<1> HIDE DEF q
<1>5. lo \in S
  <2> HIDE DEF first
  <2>1. S \in SUBSET (0 .. first) /\ 0 \in S /\ first \in Nat
    BY <1>4
  <2> HIDE DEF S
  <2>2. QED
    BY <2>1, MaxIs
<1>6. lo \in 0 .. a /\ (lo = 0 \/ text[lo] \in SentenceMarks) /\ lo <= first
  <2> HIDE DEF lo, first
  <2>1. lo \in 0 .. first /\ Start(lo)
    BY <1>5
  <2>2. QED
    BY <1>1, <1>4, <2>1
<1> HIDE DEF S, lo
<1>7. NoCommaBefore(text, lo, q)
  <2> SUFFICES ASSUME q > 0, text[q] = "comma" PROVE q > lo
    BY <1>4, <1>6 DEF NoCommaBefore
  <2>1. lo <= q /\ "comma" \notin SentenceMarks
    BY <1>6 DEF SentenceMarks
  <2>2. lo # q
    BY <1>6, <2>1
  <2>3. QED
    BY <1>4, <1>6, <2>1, <2>2
<1> HIDE DEF first
<1>8. hi \in b .. Len(text) /\ (hi = Len(text) \/ text[hi + 1] \in SentenceMarks)
  <2> HIDE DEF a, b
  <2>1. b \in 0 .. Len(text)
    BY <1>1
  <2>2. QED
    BY <1>1, <2>1, SentenceEndIs
<1> HIDE DEF hi
<1>9. /\ lo \in 0 .. Len(text) /\ hi \in lo .. Len(text)
      /\ a \in lo .. hi /\ b \in a .. hi
  <2> HIDE DEF a, b
  <2> QED BY <1>1, <1>6, <1>8
<1> HIDE DEF d
<1>10. Moved(text, cand, lo, hi, s, d)
  BY <1>1, <1>3, <1>6, <1>7, <1>8, <1>9 DEF Moved, IsSentence, q
<1> HIDE DEF s
<1>11. QED
  BY <1>2, <1>10, MovedDecides

\* What other sentences and lines say changes nothing, for every text and candidate: decide
\* looks beyond its own, and the line before if that ends with a comma, in two contexts only
\* (validate.go:96-178, 333-355).
THEOREM OtherSentencesDoNotMatterHolds == ValidatorSpec => []OtherSentencesDoNotMatter
<1>1. VInv => OtherSentencesDoNotMatter
  BY SentenceIs DEF VInv, OtherSentencesDoNotMatter, Decided
<1>2. QED
  BY <1>1, InitVInv, NextVInv, PTL DEF ValidatorSpec
=============================================================================
