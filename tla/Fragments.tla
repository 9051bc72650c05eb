----------------------------- MODULE Fragments -----------------------------
(***************************************************************************)
(* internal/detection/detector.go: fragments, and how the results of       *)
(* several detectors become one list.  Pure operators, used by Detection   *)
(* (which runs the detectors) and by Masking.                              *)
(*                                                                         *)
(* A fragment is [type, start, end]: offsets into the text, start          *)
(* inclusive, end exclusive.                                               *)
(***************************************************************************)
EXTENDS Integers, Sequences, SequencesExt, FiniteSetsExt

Size(f) == f.end - f.start

Overlap(f, g) == f.start < g.end /\ g.start < f.end

\* Does f meet a fragment of s?
BlockedByLast(f, s) == s # <<>> /\ Overlap(f, Last(s))
Blocked(f, s) == \E i \in DOMAIN s : Overlap(f, s[i])

\* sort.SliceStable: one after another the elements of s find their places, each
\* behind everything that it is not ahead of.
Place(t, f, ahead) == Max({0} \cup {i \in DOMAIN t : <<f, t[i]>> \notin ahead})
StableSort(s, ahead) ==
    LET sorted[n \in 0 .. Len(s)] ==
            IF n = 0 THEN <<>>
            ELSE LET t == sorted[n - 1] IN InsertAt(t, Place(t, s[n], ahead) + 1, s[n])
    IN  sorted[Len(s)]

\* The order in which Merge looks at fragments: longer ones first, then earlier ones.
LongerFirst(s) ==
    {p \in Range(s) \X Range(s) :
        \/ Size(p[1]) > Size(p[2])
        \/ Size(p[1]) = Size(p[2]) /\ p[1].start < p[2].start}
EarlierFirst(s) == {p \in Range(s) \X Range(s) : p[1].start < p[2].start}

\* One after another the fragments of s join those in first, unless they meet one
\* that is there already.
TakeApart(first, s) ==
    LET taken[n \in 0 .. Len(s)] ==
            IF n = 0 THEN first
            ELSE LET t == taken[n - 1] IN IF Blocked(s[n], t) THEN t ELSE Append(t, s[n])
    IN  taken[Len(s)]

\* Merge: what the greedy choice takes, from left to right.
Selected(s) == TakeApart(<<>>, StableSort(s, LongerFirst(s)))
Merge(s) == LET selected == Selected(s) IN StableSort(selected, EarlierFirst(selected))

\* PreferredDetector: a fallback fragment joins unless it meets one that is
\* there already, be it a preferred one or a fallback one that joined earlier.
JoinAll(preferred, fallback) == preferred \o fallback
Join(preferred, fallback) == TakeApart(preferred, fallback)

=============================================================================
