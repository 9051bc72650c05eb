------------------------------ MODULE Chunking ------------------------------
(***************************************************************************)
(* internal/ner/chunk.go: a text longer than chunkSize is cut into chunks  *)
(* that overlap, at separators near the ends where there are any and never *)
(* inside a UTF-8 character.  Split is one iteration of the loop of        *)
(* splitChunks.                                                            *)
(*                                                                         *)
(* A text is the sequence of its bytes, told apart by what the code asks   *)
(* of them: separators, first bytes of other characters, continuations.    *)
(* Offsets count from 0.  Window is 100 in the code.                       *)
(***************************************************************************)
EXTENDS Integers, Sequences, FiniteSets, OneText

CONSTANTS ChunkSize, ChunkOverlap, Window,
          Texts,
          MaxCont           \* continuation bytes of a character: 3 in UTF-8

ASSUME ChunkingAssumption ==
    /\ {ChunkSize, ChunkOverlap, Window, MaxCont} \subseteq Nat
    /\ ChunkOverlap > Window + MaxCont
    /\ ChunkSize > ChunkOverlap + Window + 2 * MaxCont + 1

\* Valid UTF-8, which the JSON decoder of the handler makes of any input; blank
\* texts do not come this far.
ASSUME TextsAssumption ==
    \A t \in Texts :
        /\ t \in Seq({"sep", "lead", "cont"}) /\ t # <<>>
        /\ \A i \in DOMAIN t : t[i] = "cont" =>
              \E j \in i - MaxCont .. i - 1 :
                 j \in DOMAIN t /\ t[j] = "lead" /\ \A k \in j + 1 .. i : t[k] = "cont"

VARIABLES start,       \* where the next chunk starts
          chunks,      \* those made so far, as [start, end]
          splitting    \* is the loop still running

chunkVars == <<text, start, chunks, splitting>>

Length == Len(text)
Byte(p) == text[p + 1]
Seps(a, b) == {p \in a .. b : 0 <= p /\ p < Length /\ Byte(p) = "sep"}
RuneStarts(a, b) == {p \in a .. b : p = 0 \/ p >= Length \/ Byte(p) # "cont"}

Least(S) == CHOOSE p \in S : \A q \in S : p <= q
Greatest(S) == CHOOSE p \in S : \A q \in S : q <= p

\* toUTF8Boundary and toUTF8BoundaryForward.
BackToRune(p) == Greatest(RuneStarts(0, p))
ForwardToRune(p) == Least(RuneStarts(p, Length))

\* The end of a chunk moves back behind a separator, or to the start of a rune.
AdjustBoundaryBytes(end) ==
    LET seps == Seps(end - Window, end - 1)
    IN  IF seps # {} THEN Greatest(seps) + 1 ELSE end
AdjustBoundary(end) ==
    LET seps == Seps(end - Window, end - 1)
    IN  IF seps # {} THEN Greatest(seps) + 1 ELSE BackToRune(end)

\* The start of the next one moves forward likewise.
AdjustForward(p) ==
    LET rune == ForwardToRune(p)
        seps == Seps(rune, rune + Window - 1)
    IN  IF seps # {} THEN Least(seps) + 1 ELSE rune

ChunkEnd == IF start + ChunkSize >= Length THEN Length ELSE AdjustBoundary(start + ChunkSize)

\* Where the chunk after one that ends at end starts: inside the overlap, unless
\* that would not be an advance.
NextStartAtEnd(end) == end
NextStart(end) ==
    LET next == AdjustForward(IF end < ChunkOverlap THEN 0 ELSE end - ChunkOverlap)
    IN  IF next <= start \/ next >= end THEN end ELSE next

SplitInit ==
    /\ text \in Texts
    /\ start = 0 /\ chunks = <<>>
    /\ splitting = TRUE

\* A short text is one chunk: start + ChunkSize >= Length at once.
Split ==
    /\ splitting
    /\ chunks' = Append(chunks, [start |-> start, end |-> ChunkEnd])
    /\ splitting' = (ChunkEnd < Length)
    /\ start' = IF ChunkEnd < Length THEN NextStart(ChunkEnd) ELSE start
    /\ UNCHANGED text

SplitSpec == SplitInit /\ [][Split]_chunkVars
-----------------------------------------------------------------------------
AtRune(p) == p \in RuneStarts(0, Length)

\* No character is cut, whatever its width: chunks start and end at rune starts
\* (chunk.go:5-6); and none is longer than asked for.
ChunksAreWhole ==
    \A i \in DOMAIN chunks :
        /\ AtRune(chunks[i].start) /\ AtRune(chunks[i].end)
        /\ chunks[i].start < chunks[i].end
        /\ chunks[i].end - chunks[i].start <= ChunkSize

Whole == ChunkOverlap - Window - MaxCont
Within(s, e, c) == c.start <= s /\ e <= c.end

\* A span of at most Whole bytes lies in one of the chunks entirely, however the
\* ends were moved (chunk.go:4-6, 20-21): nothing is lost at a boundary.
SpansAreCovered ==
    ~splitting =>
        \A s \in 0 .. Length : \A e \in s .. Length :
            e - s <= Whole => \E i \in DOMAIN chunks : Within(s, e, chunks[i])

\* Every iteration of the loop advances (chunk.go:44-66).
SplitAdvances == [][splitting' => start < start' /\ start' <= Length]_chunkVars

=============================================================================
