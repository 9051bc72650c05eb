------------------------------ MODULE LongText ------------------------------
(***************************************************************************)
(* internal/ner/detector.go on a long text: the chunks go to the model one *)
(* after another, what it finds is moved to offsets of the text, and what  *)
(* it finds again in the overlap is dropped.                               *)
(*                                                                         *)
(* The model is external: it finds a name that is wholly in a chunk, and   *)
(* of one that the chunk cuts either the part that is there or nothing.    *)
(* The name is one the validator accepts, and so are its parts; no rule    *)
(* detector finds anything, so that the result is what Join and Merge     *)
(* of module Fragments make of the candidates.                             *)
(***************************************************************************)
EXTENDS Chunking, Fragments

VARIABLES name,        \* where the name of the text is: a span [start, end]
          sent,        \* chunks that have been answered
          candidates,  \* of detectCandidates
          step,        \* "split", "detect", "done" or "failed"
          result       \* the fragments of the production detector

modelVars == <<name, sent, candidates, step, result>>
longTextVars == <<chunkVars, modelVars>>

Span(s, e) == [start |-> s, end |-> e]

LongTextInit ==
    /\ SplitInit
    /\ \E s, e \in 0 .. Length :
          s < e /\ AtRune(s) /\ AtRune(e) /\ name = Span(s, e)
    /\ sent = 0 /\ candidates = <<>> /\ step = "split" /\ result = <<>>

\* splitChunks.
SplitText ==
    /\ step = "split"
    /\ IF splitting THEN Split /\ UNCHANGED step
                    ELSE step' = "detect" /\ UNCHANGED chunkVars
    /\ UNCHANGED <<name, sent, candidates, result>>

\* What the model may report for chunk c, as offsets into the chunk.
Clipped(n, c) == Span((IF n.start < c.start THEN c.start ELSE n.start) - c.start,
                      (IF n.end > c.end THEN c.end ELSE n.end) - c.start)
Reports(n, c) ==
    CASE Within(n.start, n.end, c) -> {<<Clipped(n, c)>>}
      [] n.end <= c.start \/ c.end <= n.start -> {<<>>}
      [] OTHER -> {<<>>, <<Clipped(n, c)>>}

\* candKey: a candidate that is there already is not added again.
InText(c, f) == Span(c.start + f.start, c.start + f.end)
AddAll(all, new) == all \o new
AddNew(all, new) ==
    LET seen[n \in 0 .. Len(new)] ==
            IF n = 0 THEN all
            ELSE LET s == seen[n - 1] IN IF new[n] \in Range(s) THEN s ELSE Append(s, new[n])
    IN  seen[Len(new)]

DetectChunk ==
    /\ step = "detect" /\ sent < Len(chunks)
    /\ LET c == chunks[sent + 1] IN
       \E found \in Reports(name, c) :
          candidates' = AddNew(candidates, [i \in DOMAIN found |-> InText(c, found[i])])
    /\ sent' = sent + 1
    /\ UNCHANGED <<chunkVars, name, step, result>>

\* The client fails: so does the call, without fragments.
DetectFails ==
    /\ step = "detect" /\ sent < Len(chunks)
    /\ step' = "failed"
    /\ UNCHANGED <<chunkVars, name, sent, candidates, result>>

Finish ==
    /\ step = "detect" /\ sent = Len(chunks)
    /\ result' = Merge(Join(<<>>, candidates))
    /\ step' = "done"
    /\ UNCHANGED <<chunkVars, name, sent, candidates>>

LongTextNext == SplitText \/ DetectChunk \/ DetectFails \/ Finish

LongTextSpec == LongTextInit /\ [][LongTextNext]_longTextVars
-----------------------------------------------------------------------------
Short == name.end - name.start <= Whole

\* Whatever the chunks were, a name that is not too long is a candidate in the
\* end, at its place in the text; no candidate is there twice, and none reaches
\* beyond the name (detector.go:118-149).
NameIsFound ==
    step = "done" =>
        /\ Short => name \in Range(candidates)
        /\ \A i, j \in DOMAIN candidates : candidates[i] = candidates[j] => i = j
        /\ \A i \in DOMAIN candidates : Within(candidates[i].start, candidates[i].end, name)
-----------------------------------------------------------------------------
\* chunk.go:4-5 and 20-21: no name is lost at a boundary, because the overlap is
\* long enough for one of the chunks to hold it whole.
NameIsMasked ==
    step = "done" /\ Short =>
        \E j \in DOMAIN result : Within(name.start, name.end, result[j])

=============================================================================
