--------------------------- MODULE MaskingProofs ---------------------------
(***************************************************************************)
(* Lemmas about the operators of Fragments and Masking: what sorting,      *)
(* Merge and Join return, and what Mask and Restore make of a text, atom   *)
(* by atom.                                                                *)
(***************************************************************************)
EXTENDS Masking, SequenceTheorems, NaturalsInduction, WellFoundedInduction, TLAPS

\* Induction up to N, on a set.
LEMMA Induction ==
    ASSUME NEW N \in Nat, NEW A, 0 \in A, \A n \in 1 .. N : n - 1 \in A => n \in A
    PROVE  \A n \in 0 .. N : n \in A
<1> DEFINE B == (0 .. N) \ A
<1>1. SUFFICES ASSUME B # {} PROVE FALSE
  OBVIOUS
<1>2. PICK p \in B : \A q \in B : ~(<<q, p>> \in OpToRel(<, Nat))
  <2>1. B \subseteq Nat
    OBVIOUS
  <2> HIDE DEF B
  <2>2. QED
    BY <1>1, <2>1, NatLessThanWellFounded, WFMin
<1>3. \A q \in B : ~(q < p)
  <2>1. B \subseteq Nat
    OBVIOUS
  <2> HIDE DEF B
  <2>2. QED
    BY <1>2, <2>1 DEF OpToRel
<1>4. p \in 1 .. N /\ p - 1 \notin B
  BY <1>3
<1>5. QED
  BY <1>4

\* A function defined by recursion on 0 .. N exists.
IsRecursion(g, S, base, N, step) ==
    /\ g \in [0 .. N -> S]
    /\ g[0] = base
    /\ \A n \in 1 .. N : g[n] = step[<<n, g[n - 1]>>]

LEMMA Recursion ==
    ASSUME NEW S, NEW base \in S, NEW N \in Nat,
           NEW step, \A n \in 1 .. N, s \in S : step[<<n, s>>] \in S
    PROVE  \E g : IsRecursion(g, S, base, N, step)
<1> DEFINE A == {m \in 0 .. N : \E g : IsRecursion(g, S, base, m, step)}
<1>1. 0 \in A
  <2>1. IsRecursion([n \in 0 .. 0 |-> base], S, base, 0, step)
    BY DEF IsRecursion
  <2>2. QED
    BY <2>1
<1>2. ASSUME NEW m \in 1 .. N, m - 1 \in A PROVE m \in A
  <2>1. PICK g : IsRecursion(g, S, base, m - 1, step)
    BY <1>2
  <2> DEFINE h == [n \in 0 .. m |-> IF n = m THEN step[<<m, g[m - 1]>>] ELSE g[n]]
  <2>2. g[m - 1] \in S /\ step[<<m, g[m - 1]>>] \in S
    <3>1. g \in [0 .. m - 1 -> S] /\ m - 1 \in 0 .. m - 1
      BY <2>1 DEF IsRecursion
    <3>2. g[m - 1] \in S
      BY <3>1
    <3>3. QED
      BY <3>2
  <2>3. h \in [0 .. m -> S] /\ h[0] = base
    BY <2>1, <2>2 DEF IsRecursion
  <2>4. h[m] = step[<<m, g[m - 1]>>] /\ \A n \in 0 .. m - 1 : h[n] = g[n]
    OBVIOUS
  <2> HIDE DEF h
  <2>5. ASSUME NEW n \in 1 .. m PROVE h[n] = step[<<n, h[n - 1]>>]
    <3>1. h[n - 1] = g[n - 1]
      BY <2>4
    <3>2. CASE n = m
      BY <2>4, <3>1, <3>2
    <3>3. CASE n # m
      <4>1. n \in 1 .. m - 1 /\ h[n] = g[n]
        BY <2>4, <3>3
      <4>2. QED
        BY <2>1, <3>1, <4>1 DEF IsRecursion
    <3>4. QED
      BY <3>2, <3>3
  <2>6. IsRecursion(h, S, base, m, step)
    BY <2>3, <2>5 DEF IsRecursion
  <2>7. QED
    BY <2>6
<1>3. \A m \in 0 .. N : m \in A
  <2> HIDE DEF A
  <2> QED BY <1>1, <1>2, Induction
<1>4. QED
  BY <1>3

-----------------------------------------------------------------------------
\* FlattenSeq, piece by piece.
IsFlattening(seqs, X, g) ==
    /\ g \in [0 .. Len(seqs) -> Seq(X)]
    /\ g[0] = <<>>
    /\ \A i \in 1 .. Len(seqs) : g[i] = g[i - 1] \o seqs[i]

LEMMA Flattening ==
    ASSUME NEW X, NEW seqs \in Seq(Seq(X))
    PROVE  \E g : IsFlattening(seqs, X, g) /\ FlattenSeq(seqs) = g[Len(seqs)]
<1> DEFINE n == Len(seqs)
           step == [p \in (1 .. n) \X Seq(X) |-> p[2] \o seqs[p[1]]]
<1>1. n \in Nat /\ \A i \in 1 .. n : seqs[i] \in Seq(X)
  OBVIOUS
<1>2. PICK g \in [0 .. n -> Seq(X)] :
         g[0] = <<>> /\ \A i \in 1 .. n : g[i] = g[i - 1] \o seqs[i]
  <2>1. \A i \in 1 .. n, s \in Seq(X) : step[<<i, s>>] \in Seq(X)
    BY <1>1
  <2>2. <<>> \in Seq(X)
    OBVIOUS
  <2>3. \A i \in 1 .. n, s \in Seq(X) : step[<<i, s>>] = s \o seqs[i]
    OBVIOUS
  <2> HIDE DEF n, step
  <2>4. PICK g \in [0 .. n -> Seq(X)] :
           g[0] = <<>> /\ \A i \in 1 .. n : g[i] = step[<<i, g[i - 1]>>]
    <3>1. \E g : IsRecursion(g, Seq(X), <<>>, n, step)
      BY <1>1, <2>1, <2>2, Recursion
    <3>2. QED
      BY <3>1 DEF IsRecursion
  <2>5. \A i \in 1 .. n : g[i - 1] \in Seq(X)
    BY <1>1
  <2>6. QED
    BY <2>3, <2>4, <2>5
<1>3. IsFlattening(seqs, X, g)
  BY <1>2 DEF IsFlattening
<1>4. CASE n = 0
  BY <1>2, <1>3, <1>4 DEF FlattenSeq
<1>5. CASE n # 0
  <2> DEFINE Eq(f) == f = [i \in 1 .. n |-> IF i = 1 THEN seqs[i] ELSE f[i - 1] \o seqs[i]]
             f0 == [i \in 1 .. n |-> g[i]]
             f1 == CHOOSE f : Eq(f)
  <2>1. Eq(f0)
    <3>1. ASSUME NEW i \in 1 .. n
          PROVE  f0[i] = IF i = 1 THEN seqs[i] ELSE f0[i - 1] \o seqs[i]
      <4>1. f0[i] = g[i] /\ (i # 1 => f0[i - 1] = g[i - 1])
        BY <1>1
      <4>2. g[i] = g[i - 1] \o seqs[i] /\ seqs[i] \in Seq(X)
        BY <1>1, <1>2
      <4>3. i = 1 => g[i - 1] = <<>>
        BY <1>2
      <4> HIDE DEF f0
      <4>4. QED
        BY <4>1, <4>2, <4>3, ConcatEmptySeq
    <3>2. QED
      BY <3>1
  <2>2. Eq(f1)
    <3> HIDE DEF Eq
    <3> QED BY <2>1
  <2>3. FlattenSeq(seqs) = f1[n]
    BY <1>5 DEF FlattenSeq
  <2> HIDE DEF f1
  <2> DEFINE A == {i \in 0 .. n : i = 0 \/ f1[i] = g[i]}
  <2>4. \A i \in 1 .. n : i - 1 \in A => i \in A
    <3> SUFFICES ASSUME NEW i \in 1 .. n, i - 1 \in A PROVE f1[i] = g[i]
      OBVIOUS
    <3>1. f1[i] = IF i = 1 THEN seqs[i] ELSE f1[i - 1] \o seqs[i]
      BY <2>2
    <3>2. g[i] = g[i - 1] \o seqs[i] /\ seqs[i] \in Seq(X)
      BY <1>1, <1>2
    <3>3. i # 1 => f1[i - 1] = g[i - 1]
      OBVIOUS
    <3>4. i = 1 => g[i - 1] = <<>>
      BY <1>2
    <3>5. QED
      BY <3>1, <3>2, <3>3, <3>4, ConcatEmptySeq
  <2>5. n \in A
    <3>1. 0 \in A /\ n \in Nat /\ n \in 0 .. n
      BY <1>1
    <3> HIDE DEF A, n
    <3>2. \A i \in 0 .. n : i \in A
      BY <2>4, <3>1, Induction
    <3>3. QED
      BY <3>1, <3>2
  <2>6. QED
    BY <1>3, <1>5, <2>3, <2>5
<1>6. QED
  BY <1>4, <1>5

\* It is one sequence of the same things,
LEMMA FlattenType ==
    ASSUME NEW X, NEW seqs \in Seq(Seq(X))
    PROVE  FlattenSeq(seqs) \in Seq(X)
<1>1. PICK g : IsFlattening(seqs, X, g) /\ FlattenSeq(seqs) = g[Len(seqs)]
  BY Flattening
<1>2. Len(seqs) \in 0 .. Len(seqs)
  <2>1. Len(seqs) \in Nat
    OBVIOUS
  <2>2. QED
    BY <2>1
<1>3. QED
  BY <1>1, <1>2 DEF IsFlattening

\* The elements of a sequence.
LEMMA RangeIs == ASSUME NEW s PROVE Range(s) = {s[i] : i \in DOMAIN s}
  BY DEF Range

\* and has what they have.
LEMMA FlattenRange ==
    ASSUME NEW X, NEW seqs \in Seq(Seq(X)), NEW x
    PROVE  x \in Range(FlattenSeq(seqs)) <=> \E i \in DOMAIN seqs : x \in Range(seqs[i])
<1> DEFINE n == Len(seqs)
<1>1. PICK g : IsFlattening(seqs, X, g) /\ FlattenSeq(seqs) = g[n]
  BY Flattening
<1>2. n \in Nat /\ DOMAIN seqs = 1 .. n /\ \A i \in 1 .. n : seqs[i] \in Seq(X)
  OBVIOUS
<1> HIDE DEF n
<1>3. /\ g[0] = <<>> /\ \A i \in 0 .. n : g[i] \in Seq(X)
      /\ \A i \in 1 .. n : i - 1 \in 0 .. n /\ g[i] = g[i - 1] \o seqs[i]
  <2>1. \A i \in 1 .. n : i - 1 \in 0 .. n
    BY <1>2
  <2>2. QED
    BY <1>1, <2>1 DEF IsFlattening, n
<1> DEFINE A == {k \in 0 .. n : x \in Range(g[k]) <=> \E i \in 1 .. k : x \in Range(seqs[i])}
<1>4. 0 \in A
  <2>1. Range(g[0]) = {}
    BY <1>3, RangeIs
  <2>2. QED
    BY <1>2, <2>1
<1>5. ASSUME NEW k \in 1 .. n, k - 1 \in A PROVE k \in A
  <2>1. Range(g[k]) = Range(g[k - 1]) \cup Range(seqs[k])
    <3>1. g[k - 1] \in Seq(X) /\ seqs[k] \in Seq(X) /\ g[k] = g[k - 1] \o seqs[k]
      BY <1>2, <1>3
    <3>2. QED
      BY <3>1, RangeConcatenation
  <2>2. x \in Range(g[k - 1]) <=> \E i \in 1 .. k - 1 : x \in Range(seqs[i])
    BY <1>5
  <2>3. 1 .. k = (1 .. k - 1) \cup {k}
    BY <1>2
  <2>4. x \in Range(g[k]) <=> \E i \in 1 .. k : x \in Range(seqs[i])
    BY <2>1, <2>2, <2>3
  <2>5. QED
    BY <1>2, <2>4
<1>6. \A k \in 0 .. n : k \in A
  <2> HIDE DEF A
  <2> QED BY <1>2, <1>4, <1>5, Induction
<1>7. n \in A
  BY <1>2, <1>6
<1>8. QED
  BY <1>1, <1>2, <1>7

\* Some numbers have a least one.
LEMMA LeastInNat ==
    ASSUME NEW S \in SUBSET Nat, S # {}
    PROVE  \E p \in S : \A q \in S : p <= q
<1>1. PICK p \in S : \A q \in S : ~(<<q, p>> \in OpToRel(<, Nat))
  BY NatLessThanWellFounded, WFMin
<1>2. \A q \in S : ~(q < p)
  BY <1>1 DEF OpToRel
<1>3. QED
  BY <1>2

\* The smallest of some numbers.
LEMMA MinIs ==
    ASSUME NEW S \in SUBSET Nat, S # {}
    PROVE  Min(S) \in S /\ \A x \in S : Min(S) <= x
<1>1. PICK m \in S : \A x \in S : m <= x
  BY LeastInNat
<1> DEFINE Is(x) == \A y \in S : x =< y
<1>2. Is(m)
  BY <1>1
<1>3. Min(S) = CHOOSE x \in S : Is(x)
  BY DEF Min
<1> HIDE DEF Is
<1>4. Min(S) \in S /\ Is(Min(S))
  BY <1>2, <1>3
<1>5. QED
  BY <1>4 DEF Is

-----------------------------------------------------------------------------
\* The largest of some numbers up to a bound.
LEMMA MaxIs ==
    ASSUME NEW N \in Nat, NEW S \in SUBSET (0 .. N), S # {}
    PROVE  Max(S) \in S /\ \A x \in S : x <= Max(S)
<1> DEFINE D == {N - x : x \in S}
<1>1. D \subseteq Nat /\ D # {}
  <2>1. ASSUME NEW x \in S PROVE N - x \in Nat
    <3>1. x \in 0 .. N
      OBVIOUS
    <3>2. QED
      BY <3>1
  <2>2. QED
    BY <2>1
<1>2. PICK d \in D : \A c \in D : d <= c
  <2> HIDE DEF D
  <2>1. PICK d \in D : \A c \in D : ~(<<c, d>> \in OpToRel(<, Nat))
    BY <1>1, NatLessThanWellFounded, WFMin
  <2>2. \A c \in D : ~(c < d)
    BY <1>1, <2>1 DEF OpToRel
  <2>3. QED
    BY <1>1, <2>2
<1>3. PICK m \in S : d = N - m
  BY <1>2
<1>4. \A x \in S : m >= x
  <2> SUFFICES ASSUME NEW x \in S PROVE m >= x
    OBVIOUS
  <2>1. d <= N - x
    BY <1>2
  <2>2. x \in 0 .. N /\ m \in 0 .. N
    OBVIOUS
  <2>3. QED
    BY <1>3, <2>1, <2>2
<1> DEFINE Is(x) == \A y \in S : x >= y
<1>5. Max(S) = CHOOSE x \in S : Is(x)
  BY DEF Max
<1>6. Is(m)
  BY <1>4
<1> HIDE DEF Is
<1>7. Max(S) \in S /\ Is(Max(S))
  BY <1>5, <1>6
<1>8. QED
  BY <1>7 DEF Is

\* What InsertAt does to a sequence.
IsInsertion(w, X, s, q, e) ==
    /\ w \in Seq(X)
    /\ Len(w) = Len(s) + 1
    /\ \A i \in 1 .. Len(s) + 1 : w[i] = IF i < q THEN s[i] ELSE IF i = q THEN e ELSE s[i - 1]

LEMMA Inserted ==
    ASSUME NEW X, NEW s \in Seq(X), NEW q \in 1 .. Len(s) + 1, NEW e \in X
    PROVE  IsInsertion(InsertAt(s, q, e), X, s, q, e)
<1> DEFINE l == SubSeq(s, 1, q - 1)
           r == SubSeq(s, q, Len(s))
           le == l \o <<e>>
           w == le \o r
<1>0. Len(s) \in Nat /\ q \in 1 .. Len(s) + 1
  OBVIOUS
<1>1. l \in Seq(X) /\ Len(l) = q - 1 /\ \A i \in 1 .. q - 1 : l[i] = s[i]
  BY <1>0, SubSeqProperties
<1>2. r \in Seq(X) /\ Len(r) = Len(s) - (q - 1) /\ \A i \in 1 .. Len(s) - (q - 1) : r[i] = s[q + i - 1]
  BY <1>0, SubSeqProperties
<1>3. <<e>> \in Seq(X) /\ Len(<<e>>) = 1 /\ <<e>>[1] = e
  OBVIOUS
<1>4. InsertAt(s, q, e) = w
  BY DEF InsertAt
<1> HIDE DEF l, r
<1>5. /\ le \in Seq(X) /\ Len(le) = q
      /\ \A i \in 1 .. q : le[i] = IF i <= q - 1 THEN l[i] ELSE <<e>>[i - (q - 1)]
  <2>1. (q - 1) + 1 = q
    BY <1>0
  <2>2. QED
    BY <1>0, <1>1, <1>3, <2>1, ConcatProperties
<1> HIDE DEF le
<1>6. /\ w \in Seq(X) /\ Len(w) = Len(s) + 1
      /\ \A i \in 1 .. Len(s) + 1 : w[i] = IF i <= q THEN le[i] ELSE r[i - q]
  <2>1. q + (Len(s) - (q - 1)) = Len(s) + 1
    BY <1>0
  <2>2. /\ w \in Seq(X) /\ Len(w) = Len(le) + Len(r)
        /\ \A i \in 1 .. Len(le) + Len(r) : w[i] = IF i <= Len(le) THEN le[i] ELSE r[i - Len(le)]
    BY <1>2, <1>5, ConcatProperties
  <2>3. QED
    BY <1>2, <1>5, <2>1, <2>2
<1> HIDE DEF w
<1>7. ASSUME NEW i \in 1 .. Len(s) + 1
      PROVE  w[i] = IF i < q THEN s[i] ELSE IF i = q THEN e ELSE s[i - 1]
  <2>1. CASE i < q
    <3>1. i <= q /\ i \in 1 .. q /\ i <= q - 1 /\ i \in 1 .. q - 1
      BY <1>0, <2>1
    <3>2. QED
      BY <1>1, <1>5, <1>6, <2>1, <3>1
  <2>2. CASE i = q
    <3>1. i <= q /\ i \in 1 .. q /\ ~(i <= q - 1) /\ i - (q - 1) = 1 /\ ~(i < q)
      BY <1>0, <2>2
    <3>2. w[i] = <<e>>[1]
      BY <1>5, <1>6, <3>1
    <3>3. QED
      BY <1>3, <2>2, <3>1, <3>2
  <2>3. CASE i > q
    <3>1. ~(i <= q) /\ ~(i < q) /\ i # q
      BY <1>0, <2>3
    <3>2. i - q \in 1 .. Len(s) - (q - 1) /\ q + (i - q) - 1 = i - 1
      BY <1>0, <2>3
    <3>3. w[i] = r[i - q] /\ r[i - q] = s[i - 1]
      BY <1>2, <1>6, <3>1, <3>2
    <3>4. QED
      BY <3>1, <3>3
  <2>4. QED
    BY <1>0, <2>1, <2>2, <2>3
<1>8. QED
  BY <1>4, <1>6, <1>7 DEF IsInsertion

-----------------------------------------------------------------------------
\* StableSort.  A strict weak order: nothing is ahead of what is ahead of it, and
\* what is ahead of something is ahead of whatever that is not ahead of.
WeakOrder(ahead, X) ==
    /\ \A x, y \in X : <<x, y>> \in ahead => <<y, x>> \notin ahead
    /\ \A x, y, z \in X : <<x, z>> \in ahead => <<x, y>> \in ahead \/ <<y, z>> \in ahead

\* t is s[1 .. n] in order; what s has at from[i], t has at i.
Sorts(s, ahead, n, from, t) ==
    /\ Len(t) = n
    /\ from \in [1 .. n -> 1 .. n]
    /\ \A i, j \in 1 .. n : i # j => from[i] # from[j]
    /\ \A k \in 1 .. n : \E i \in 1 .. n : from[i] = k
    /\ \A i \in 1 .. n : t[i] = s[from[i]]
    /\ \A i, j \in 1 .. n : i < j => <<t[j], t[i]>> \notin ahead
    /\ \A i, j \in 1 .. n : i < j => <<t[i], t[j]>> \in ahead \/ from[i] < from[j]

\* The place of an inserted element.
LEMMA PlaceIs ==
    ASSUME NEW X, NEW t \in Seq(X), NEW f, NEW ahead
    PROVE  /\ Place(t, f, ahead) \in 0 .. Len(t)
           /\ Place(t, f, ahead) # 0 => <<f, t[Place(t, f, ahead)]>> \notin ahead
           /\ \A i \in 1 .. Len(t) : i > Place(t, f, ahead) => <<f, t[i]>> \in ahead
<1> DEFINE B == {0} \cup {i \in DOMAIN t : <<f, t[i]>> \notin ahead}
           p == Max(B)
<1>0. Len(t) \in Nat /\ DOMAIN t = 1 .. Len(t)
  OBVIOUS
<1>1. B \in SUBSET (0 .. Len(t)) /\ B # {}
  BY <1>0
<1>2. p \in B /\ \A x \in B : x <= p
  <2> HIDE DEF B
  <2> QED BY <1>0, <1>1, MaxIs
<1> HIDE DEF p
<1>3. p \in 0 .. Len(t) /\ (p # 0 => <<f, t[p]>> \notin ahead)
  BY <1>0, <1>2
<1>4. ASSUME NEW i \in 1 .. Len(t), i > p PROVE <<f, t[i]>> \in ahead
  <2>1. i \notin B
    BY <1>0, <1>2, <1>3, <1>4
  <2>2. QED
    BY <1>0, <2>1
<1>5. Place(t, f, ahead) = p
  BY DEF Place, p
<1>6. QED
  BY <1>3, <1>4, <1>5

\* One more element.
LEMMA SortsOneMore ==
    ASSUME NEW X, NEW s \in Seq(X), NEW ahead, WeakOrder(ahead, X),
           NEW n \in 1 .. Len(s), NEW t \in Seq(X), NEW from, Sorts(s, ahead, n - 1, from, t),
           NEW w, w = InsertAt(t, Place(t, s[n], ahead) + 1, s[n])
    PROVE  w \in Seq(X) /\ \E to : Sorts(s, ahead, n, to, w)
<1> DEFINE p == Place(t, s[n], ahead)
           to == [i \in 1 .. n |-> IF i <= p THEN from[i] ELSE IF i = p + 1 THEN n ELSE from[i - 1]]
<1>0. Len(s) \in Nat /\ n \in Nat /\ s[n] \in X /\ Len(t) = n - 1
  BY DEF Sorts
<1>1. /\ p \in 0 .. n - 1
      /\ p # 0 => <<s[n], t[p]>> \notin ahead
      /\ \A i \in 1 .. n - 1 : i > p => <<s[n], t[i]>> \in ahead
  BY <1>0, PlaceIs
<1>2. w \in Seq(X) /\ Len(w) = n
      /\ \A i \in 1 .. n : w[i] = IF i < p + 1 THEN t[i] ELSE IF i = p + 1 THEN s[n] ELSE t[i - 1]
  <2> DEFINE q == p + 1
  <2>1. Len(t) + 1 = n /\ q \in 1 .. Len(t) + 1
    BY <1>0, <1>1
  <2>2. w = InsertAt(t, q, s[n])
    OBVIOUS
  <2> HIDE DEF p, q
  <2>3. /\ w \in Seq(X) /\ Len(w) = Len(t) + 1
        /\ \A i \in 1 .. Len(t) + 1 : w[i] = IF i < q THEN t[i] ELSE IF i = q THEN s[n] ELSE t[i - 1]
    <3>1. s[n] \in X /\ t \in Seq(X) /\ q \in 1 .. Len(t) + 1
      BY <1>0, <2>1
    <3>2. IsInsertion(w, X, t, q, s[n])
      BY <2>2, <3>1, Inserted
    <3>3. QED
      BY <3>2 DEF IsInsertion
  <2>4. QED
    BY <2>1, <2>3 DEF q
<1>3. /\ from \in [1 .. n - 1 -> 1 .. n - 1]
      /\ \A i, j \in 1 .. n - 1 : i # j => from[i] # from[j]
      /\ \A k \in 1 .. n - 1 : \E i \in 1 .. n - 1 : from[i] = k
      /\ \A i \in 1 .. n - 1 : t[i] = s[from[i]]
      /\ \A i, j \in 1 .. n - 1 : i < j => <<t[j], t[i]>> \notin ahead
      /\ \A i, j \in 1 .. n - 1 : i < j => <<t[i], t[j]>> \in ahead \/ from[i] < from[j]
      /\ \A i \in 1 .. n - 1 : t[i] \in X
  BY <1>0, SMTT(30) DEF Sorts
<1> HIDE DEF p
\* Everything up to the place may stay before s[n].
<1>4. \A i \in 1 .. n - 1 : i <= p => <<s[n], t[i]>> \notin ahead
  <2> SUFFICES ASSUME NEW i \in 1 .. n - 1, i <= p, <<s[n], t[i]>> \in ahead PROVE FALSE
    OBVIOUS
  <2>1. p \in 1 .. n - 1 /\ <<s[n], t[p]>> \notin ahead /\ i # p
    BY <1>0, <1>1
  <2>2. <<t[p], t[i]>> \notin ahead
    <3>1. i < p
      BY <1>0, <2>1
    <3>2. QED
      BY <1>3, <2>1, <3>1
  <2>3. t[p] \in X /\ t[i] \in X
    BY <1>3, <2>1
  <2>4. QED
    BY <1>0, <2>1, <2>2, <2>3 DEF WeakOrder
<1>5. \A i \in 1 .. n - 1 : i > p => <<t[i], s[n]>> \notin ahead
  BY <1>0, <1>1, <1>3 DEF WeakOrder
\* The indices of t among those of w.
<1> DEFINE old(i) == IF i <= p THEN i ELSE i - 1
<1>6. \A i \in 1 .. n : i # p + 1 =>
         /\ old(i) \in 1 .. n - 1
         /\ w[i] = t[old(i)]
         /\ to[i] = from[old(i)]
         /\ (i <= p <=> old(i) <= p)
  BY <1>0, <1>1, <1>2
<1>7. w[p + 1] = s[n] /\ to[p + 1] = n /\ p + 1 \in 1 .. n
  BY <1>0, <1>1, <1>2
<1>8. \A i, j \in 1 .. n : i # p + 1 /\ j # p + 1 => (i < j <=> old(i) < old(j)) /\ (i # j => old(i) # old(j))
  BY <1>0, <1>1
<1>9. \A k \in 1 .. n - 1 : \E i \in 1 .. n : i # p + 1 /\ old(i) = k
  <2> SUFFICES ASSUME NEW k \in 1 .. n - 1 PROVE \E i \in 1 .. n : i # p + 1 /\ old(i) = k
    OBVIOUS
  <2>1. CASE k <= p
    <3>1. k \in 1 .. n /\ k # p + 1 /\ old(k) = k
      BY <1>0, <1>1, <2>1
    <3>2. QED
      BY <3>1
  <2>2. CASE k > p
    <3>1. k + 1 \in 1 .. n /\ k + 1 # p + 1 /\ old(k + 1) = k
      BY <1>0, <1>1, <2>2
    <3>2. QED
      BY <3>1
  <2>3. QED
    BY <1>1, <2>1, <2>2
<1> HIDE DEF to, old
<1>10. to \in [1 .. n -> 1 .. n]
  <2>1. \A i \in 1 .. n - 1 : i \in 1 .. n
    BY <1>0
  <2>2. \A i \in 1 .. n : to[i] \in 1 .. n
    <3> SUFFICES ASSUME NEW i \in 1 .. n PROVE to[i] \in 1 .. n
      OBVIOUS
    <3>1. CASE i = p + 1
      BY <1>0, <1>7, <3>1
    <3>2. CASE i # p + 1
      BY <1>3, <1>6, <2>1, <3>2
    <3>3. QED
      BY <3>1, <3>2
  <2>3. QED
    BY <2>2 DEF to
<1>11. \A i, j \in 1 .. n : i # j => to[i] # to[j]
  <2> SUFFICES ASSUME NEW i \in 1 .. n, NEW j \in 1 .. n, i # j PROVE to[i] # to[j]
    OBVIOUS
  <2>1. \A k \in 1 .. n - 1 : from[k] # n
    BY <1>0, <1>3
  <2>2. CASE i = p + 1
    BY <1>6, <1>7, <2>1, <2>2
  <2>3. CASE j = p + 1
    BY <1>6, <1>7, <2>1, <2>3
  <2>4. CASE i # p + 1 /\ j # p + 1
    BY <1>3, <1>6, <1>8, <2>4
  <2>5. QED
    BY <2>2, <2>3, <2>4
<1>12. \A k \in 1 .. n : \E i \in 1 .. n : to[i] = k
  <2> SUFFICES ASSUME NEW k \in 1 .. n PROVE \E i \in 1 .. n : to[i] = k
    OBVIOUS
  <2>1. CASE k = n
    BY <1>7, <2>1
  <2>2. CASE k # n
    <3>1. k \in 1 .. n - 1
      BY <1>0, <2>2
    <3>2. PICK m \in 1 .. n - 1 : from[m] = k
      BY <1>3, <3>1
    <3>3. PICK i \in 1 .. n : i # p + 1 /\ old(i) = m
      BY <1>9
    <3>4. QED
      BY <1>6, <3>2, <3>3
  <2>3. QED
    BY <2>1, <2>2
<1>13. \A i \in 1 .. n : w[i] = s[to[i]]
  <2> SUFFICES ASSUME NEW i \in 1 .. n PROVE w[i] = s[to[i]]
    OBVIOUS
  <2>1. CASE i = p + 1
    BY <1>7, <2>1
  <2>2. CASE i # p + 1
    <3>1. old(i) \in 1 .. n - 1 /\ w[i] = t[old(i)] /\ to[i] = from[old(i)]
      BY <1>6, <2>2
    <3>2. t[old(i)] = s[from[old(i)]]
      BY <1>3, <3>1
    <3>3. QED
      BY <3>1, <3>2
  <2>3. QED
    BY <2>1, <2>2
<1>14. \A i, j \in 1 .. n : i < j =>
          <<w[j], w[i]>> \notin ahead /\ (<<w[i], w[j]>> \in ahead \/ to[i] < to[j])
  <2> SUFFICES ASSUME NEW i \in 1 .. n, NEW j \in 1 .. n, i < j
               PROVE <<w[j], w[i]>> \notin ahead /\ (<<w[i], w[j]>> \in ahead \/ to[i] < to[j])
    OBVIOUS
  <2>1. CASE i = p + 1
    <3>1. j # p + 1 /\ ~(j <= p)
      BY <1>0, <1>1, <2>1
    <3>2. old(j) \in 1 .. n - 1 /\ w[j] = t[old(j)] /\ ~(old(j) <= p)
      BY <1>6, <3>1
    <3>3. old(j) > p
      BY <1>0, <1>1, <3>2
    <3>4. QED
      BY <1>1, <1>5, <1>7, <2>1, <3>2, <3>3
  <2>2. CASE j = p + 1
    <3>1. i # p + 1 /\ i <= p
      BY <1>0, <1>1, <2>2
    <3>2. old(i) \in 1 .. n - 1 /\ w[i] = t[old(i)] /\ old(i) <= p /\ to[i] = from[old(i)]
      BY <1>6, <3>1
    <3>3. from[old(i)] < n
      <4>1. from[old(i)] \in 1 .. n - 1
        BY <1>3, <3>2
      <4>2. QED
        BY <1>0, <4>1
    <3>4. QED
      BY <1>4, <1>7, <2>2, <3>2, <3>3
  <2>3. CASE i # p + 1 /\ j # p + 1
    <3>1. old(i) \in 1 .. n - 1 /\ old(j) \in 1 .. n - 1 /\ old(i) < old(j)
      BY <1>6, <1>8, <2>3
    <3> DEFINE a == old(i)  b == old(j)
    <3>2. w[i] = t[a] /\ to[i] = from[a] /\ w[j] = t[b] /\ to[j] = from[b]
      BY <1>6, <2>3
    <3>3. a \in 1 .. n - 1 /\ b \in 1 .. n - 1 /\ a < b
      BY <3>1
    <3> HIDE DEF a, b
    <3>4. <<t[b], t[a]>> \notin ahead /\ (<<t[a], t[b]>> \in ahead \/ from[a] < from[b])
      BY <1>3, <3>3
    <3>5. QED
      BY <3>2, <3>4
  <2>4. QED
    BY <2>1, <2>2, <2>3
<1>15. Sorts(s, ahead, n, to, w)
  BY <1>2, <1>10, <1>11, <1>12, <1>13, <1>14 DEF Sorts
<1>16. QED
  BY <1>2, <1>15

\* Sorting ends, with a sorted permutation.
LEMMA SortIs ==
    ASSUME NEW X, NEW s \in Seq(X), NEW ahead, WeakOrder(ahead, X)
    PROVE  /\ StableSort(s, ahead) \in Seq(X)
           /\ \E from : Sorts(s, ahead, Len(s), from, StableSort(s, ahead))
<1> DEFINE N == Len(s)
           Grow(t, n) == InsertAt(t, Place(t, s[n], ahead) + 1, s[n])
           step == [p \in (1 .. N) \X Seq(X) |-> Grow(p[2], p[1])]
           Eq(f) == f = [n \in 0 .. N |-> IF n = 0 THEN <<>>
                                         ELSE LET t == f[n - 1] IN Grow(t, n)]
           sorted == CHOOSE f : Eq(f)
<1>0. N \in Nat /\ <<>> \in Seq(X) /\ \A n \in 1 .. N : s[n] \in X
  OBVIOUS
<1>1. \A n \in 1 .. N, t \in Seq(X) : Grow(t, n) \in Seq(X)
  <2> SUFFICES ASSUME NEW n \in 1 .. N, NEW t \in Seq(X) PROVE Grow(t, n) \in Seq(X)
    OBVIOUS
  <2> DEFINE q == Place(t, s[n], ahead) + 1
  <2>1. q \in 1 .. Len(t) + 1 /\ s[n] \in X
    <3>1. Len(t) \in Nat
      OBVIOUS
    <3>2. Place(t, s[n], ahead) \in 0 .. Len(t)
      BY PlaceIs
    <3>3. QED
      BY <1>0, <3>1, <3>2
  <2> HIDE DEF q
  <2>2. IsInsertion(InsertAt(t, q, s[n]), X, t, q, s[n])
    BY <2>1, Inserted
  <2>3. QED
    BY <2>2 DEF IsInsertion, q
<1>2. \A n \in 1 .. N, t \in Seq(X) : step[<<n, t>>] = Grow(t, n)
  OBVIOUS
<1> HIDE DEF Grow
<1>3. \E f : Eq(f)
  <2>1. \A n \in 1 .. N, t \in Seq(X) : step[<<n, t>>] \in Seq(X)
    BY <1>1, <1>2
  <2> HIDE DEF step, N
  <2>2. PICK g : IsRecursion(g, Seq(X), <<>>, N, step)
    BY <1>0, <2>1, Recursion
  <2>3. g \in [0 .. N -> Seq(X)] /\ g[0] = <<>> /\ \A n \in 1 .. N : g[n] = step[<<n, g[n - 1]>>]
    BY <2>2 DEF IsRecursion
  <2>4. \A n \in 0 .. N : g[n] = IF n = 0 THEN <<>> ELSE Grow(g[n - 1], n)
    <3> SUFFICES ASSUME NEW n \in 1 .. N PROVE g[n] = Grow(g[n - 1], n)
      BY <1>0, <2>3
    <3>1. n - 1 \in 0 .. N
      BY <1>0
    <3>2. QED
      BY <1>2, <2>3, <3>1
  <2>5. Eq(g)
    BY <2>3, <2>4
  <2>6. QED
    BY <2>5
<1>4. Eq(sorted)
  <2> HIDE DEF Eq
  <2> QED BY <1>3
<1>5. StableSort(s, ahead) = sorted[N]
  BY DEF StableSort, Grow
<1> HIDE DEF sorted
<1>6. /\ sorted[0] = <<>>
      /\ \A n \in 1 .. N : sorted[n] = Grow(sorted[n - 1], n)
  BY <1>0, <1>4
<1> DEFINE A == {n \in 0 .. N : sorted[n] \in Seq(X) /\ \E from : Sorts(s, ahead, n, from, sorted[n])}
<1> HIDE DEF Eq, step
<1>7. 0 \in A
  <2>1. Sorts(s, ahead, 0, <<>>, <<>>)
    BY DEF Sorts
  <2>2. sorted[0] \in Seq(X) /\ Sorts(s, ahead, 0, <<>>, sorted[0])
    BY <1>0, <1>6, <2>1
  <2>3. QED
    BY <1>0, <2>2
<1>8. \A n \in 1 .. N : n - 1 \in A => n \in A
  <2> SUFFICES ASSUME NEW n \in 1 .. N, n - 1 \in A PROVE n \in A
    OBVIOUS
  <2>1. PICK from : Sorts(s, ahead, n - 1, from, sorted[n - 1])
    OBVIOUS
  <2>2. sorted[n - 1] \in Seq(X) /\ sorted[n] = Grow(sorted[n - 1], n)
    BY <1>6
  <2>3. sorted[n] \in Seq(X) /\ \E to : Sorts(s, ahead, n, to, sorted[n])
    BY <2>1, <2>2, SortsOneMore DEF Grow
  <2>4. QED
    BY <1>0, <2>3
<1>9. N \in A
  <2>1. N \in 0 .. N
    BY <1>0
  <2> HIDE DEF A, N
  <2>2. \A n \in 0 .. N : n \in A
    BY <1>0, <1>7, <1>8, Induction
  <2>3. QED
    BY <2>1, <2>2
<1>10. QED
  BY <1>5, <1>9

-----------------------------------------------------------------------------
\* TakeApart.
Apart(s, from) == \A i, j \in 1 .. Len(s) : i # j /\ j > from => ~Overlap(s[i], s[j])

Takes(first, s, X, n, t) ==
    /\ t \in Seq(X)
    /\ Len(first) <= Len(t) /\ \A i \in 1 .. Len(first) : t[i] = first[i]
    /\ \A i \in 1 .. Len(t) : i > Len(first) => \E k \in 1 .. n : t[i] = s[k]
    /\ Apart(t, Len(first))
    /\ \A k \in 1 .. n :
          \/ \E i \in 1 .. Len(t) : t[i] = s[k]
          \/ \E i \in 1 .. Len(t) :
                Overlap(s[k], t[i]) /\ (i <= Len(first) \/ \E l \in 1 .. k - 1 : t[i] = s[l])

LEMMA TakesOneMore ==
    ASSUME NEW X, NEW first \in Seq(X), NEW s \in Seq(X), NEW n \in 1 .. Len(s),
           NEW t, Takes(first, s, X, n - 1, t)
    PROVE  Takes(first, s, X, n, IF Blocked(s[n], t) THEN t ELSE Append(t, s[n]))
<1>0. /\ t \in Seq(X) /\ Len(t) \in Nat /\ Len(first) \in Nat /\ Len(s) \in Nat
      /\ DOMAIN t = 1 .. Len(t) /\ s[n] \in X /\ n \in Nat
      /\ Len(first) <= Len(t)
  BY DEF Takes
<1>1. /\ \A i \in 1 .. Len(first) : t[i] = first[i]
      /\ \A i \in 1 .. Len(t) : i > Len(first) => \E k \in 1 .. n - 1 : t[i] = s[k]
      /\ \A i, j \in 1 .. Len(t) : i # j /\ j > Len(first) => ~Overlap(t[i], t[j])
      /\ \A k \in 1 .. n - 1 :
            \/ \E i \in 1 .. Len(t) : t[i] = s[k]
            \/ \E i \in 1 .. Len(t) :
                  Overlap(s[k], t[i]) /\ (i <= Len(first) \/ \E l \in 1 .. k - 1 : t[i] = s[l])
  BY DEF Takes, Apart
<1>2. \A k \in 1 .. n : k = n \/ k \in 1 .. n - 1
  BY <1>0
<1>3. \A k \in 1 .. n - 1 : k \in 1 .. n
  BY <1>0
<1>4. CASE Blocked(s[n], t)
  <2>1. PICK i \in 1 .. Len(t) : Overlap(s[n], t[i])
    BY <1>0, <1>4 DEF Blocked
  <2>2. i <= Len(first) \/ \E l \in 1 .. n - 1 : t[i] = s[l]
    BY <1>0, <1>1, SMTT(30)
  <2>3. Takes(first, s, X, n, t)
    <3>1. \A j \in 1 .. Len(t) : j > Len(first) => \E k \in 1 .. n : t[j] = s[k]
      BY <1>1, <1>3
    <3>2. \A k \in 1 .. n :
             \/ \E j \in 1 .. Len(t) : t[j] = s[k]
             \/ \E j \in 1 .. Len(t) :
                   Overlap(s[k], t[j]) /\ (j <= Len(first) \/ \E l \in 1 .. k - 1 : t[j] = s[l])
      BY <1>1, <1>2, <2>1, <2>2
    <3>3. QED
      BY <1>0, <1>1, <3>1, <3>2 DEF Takes, Apart
  <2>4. QED
    BY <1>4, <2>3
<1>5. CASE ~Blocked(s[n], t)
  <2> DEFINE w == Append(t, s[n])
  <2>1. /\ w \in Seq(X) /\ Len(w) = Len(t) + 1 /\ w[Len(t) + 1] = s[n]
        /\ \A i \in 1 .. Len(t) : w[i] = t[i] /\ i \in 1 .. Len(t) + 1 /\ i # Len(t) + 1
        /\ \A i \in 1 .. Len(t) + 1 : i \in 1 .. Len(t) \/ i = Len(t) + 1
        /\ Len(t) + 1 \in 1 .. Len(t) + 1
    BY <1>0, AppendProperties
  <2>2. \A i \in 1 .. Len(t) : ~Overlap(s[n], t[i]) /\ ~Overlap(t[i], s[n])
    BY <1>0, <1>5 DEF Blocked, Overlap
  <2> HIDE DEF w
  <2>3. Len(first) <= Len(w) /\ \A i \in 1 .. Len(first) : w[i] = first[i]
    <3>1. \A i \in 1 .. Len(first) : i \in 1 .. Len(t)
      BY <1>0
    <3>2. QED
      BY <1>0, <1>1, <2>1, <3>1
  <2>4. \A i \in 1 .. Len(w) : i > Len(first) => \E k \in 1 .. n : w[i] = s[k]
    <3> SUFFICES ASSUME NEW i \in 1 .. Len(w), i > Len(first) PROVE \E k \in 1 .. n : w[i] = s[k]
      OBVIOUS
    <3>1. n \in 1 .. n
      BY <1>0
    <3>2. CASE i = Len(t) + 1
      BY <2>1, <3>1, <3>2
    <3>3. CASE i \in 1 .. Len(t)
      <4>1. PICK k \in 1 .. n - 1 : t[i] = s[k]
        BY <1>1, <3>3
      <4>2. k \in 1 .. n /\ w[i] = t[i]
        BY <1>3, <2>1, <3>3
      <4>3. QED
        BY <4>1, <4>2
    <3>4. QED
      BY <2>1, <3>2, <3>3
  <2>5. Apart(w, Len(first))
    <3> SUFFICES ASSUME NEW i \in 1 .. Len(w), NEW j \in 1 .. Len(w), i # j, j > Len(first)
                 PROVE ~Overlap(w[i], w[j])
      BY DEF Apart
    <3>1. CASE i \in 1 .. Len(t) /\ j \in 1 .. Len(t)
      BY <1>1, <2>1, <3>1
    <3>2. CASE i = Len(t) + 1 /\ j \in 1 .. Len(t)
      BY <2>1, <2>2, <3>2
    <3>3. CASE i \in 1 .. Len(t) /\ j = Len(t) + 1
      BY <2>1, <2>2, <3>3
    <3>4. QED
      BY <2>1, <3>1, <3>2, <3>3
  <2>6. ASSUME NEW k \in 1 .. n
        PROVE \/ \E i \in 1 .. Len(w) : w[i] = s[k]
              \/ \E i \in 1 .. Len(w) :
                    Overlap(s[k], w[i]) /\ (i <= Len(first) \/ \E l \in 1 .. k - 1 : w[i] = s[l])
    <3>1. CASE k = n
      BY <2>1, <3>1
    <3>2. CASE k \in 1 .. n - 1
      <4>1. CASE \E i \in 1 .. Len(t) : t[i] = s[k]
        BY <2>1, <4>1
      <4>2. CASE \E i \in 1 .. Len(t) :
                  Overlap(s[k], t[i]) /\ (i <= Len(first) \/ \E l \in 1 .. k - 1 : t[i] = s[l])
        BY <2>1, <4>2
      <4>3. QED
        BY <1>1, <3>2, <4>1, <4>2
    <3>3. QED
      BY <1>2, <3>1, <3>2
  <2>7. Takes(first, s, X, n, w)
    BY <2>1, <2>3, <2>4, <2>5, <2>6 DEF Takes
  <2>8. QED
    BY <1>5, <2>7 DEF w
<1>6. QED
  BY <1>4, <1>5

LEMMA TakeApartIs ==
    ASSUME NEW X, NEW first \in Seq(X), NEW s \in Seq(X)
    PROVE  Takes(first, s, X, Len(s), TakeApart(first, s))
<1> DEFINE N == Len(s)
           Grow(t, n) == IF Blocked(s[n], t) THEN t ELSE Append(t, s[n])
           step == [p \in (1 .. N) \X Seq(X) |-> Grow(p[2], p[1])]
           Eq(f) == f = [n \in 0 .. N |-> IF n = 0 THEN first
                                         ELSE LET t == f[n - 1] IN Grow(t, n)]
           taken == CHOOSE f : Eq(f)
<1>0. N \in Nat /\ \A n \in 1 .. N : s[n] \in X
  OBVIOUS
<1>1. \A n \in 1 .. N, t \in Seq(X) : Grow(t, n) \in Seq(X)
  BY <1>0
<1>2. \A n \in 1 .. N, t \in Seq(X) : step[<<n, t>>] = Grow(t, n)
  OBVIOUS
<1> HIDE DEF Grow
<1>3. \E f : Eq(f)
  <2>1. \A n \in 1 .. N, t \in Seq(X) : step[<<n, t>>] \in Seq(X)
    BY <1>1, <1>2
  <2> HIDE DEF step, N
  <2>2. PICK g : IsRecursion(g, Seq(X), first, N, step)
    BY <1>0, <2>1, Recursion
  <2>3. g \in [0 .. N -> Seq(X)] /\ g[0] = first /\ \A n \in 1 .. N : g[n] = step[<<n, g[n - 1]>>]
    BY <2>2 DEF IsRecursion
  <2>4. \A n \in 0 .. N : g[n] = IF n = 0 THEN first ELSE Grow(g[n - 1], n)
    <3> SUFFICES ASSUME NEW n \in 1 .. N PROVE g[n] = Grow(g[n - 1], n)
      BY <1>0, <2>3
    <3>1. n - 1 \in 0 .. N
      BY <1>0
    <3>2. QED
      BY <1>2, <2>3, <3>1
  <2>5. Eq(g)
    BY <2>3, <2>4
  <2>6. QED
    BY <2>5
<1>4. Eq(taken)
  <2> HIDE DEF Eq
  <2> QED BY <1>3
<1>5. TakeApart(first, s) = taken[N]
  BY DEF TakeApart, Grow
<1> HIDE DEF taken
<1>6. /\ taken[0] = first
      /\ \A n \in 1 .. N : taken[n] = Grow(taken[n - 1], n)
  BY <1>0, <1>4
<1> DEFINE A == {n \in 0 .. N : Takes(first, s, X, n, taken[n])}
<1> HIDE DEF Eq, step
<1>7. 0 \in A
  <2>1. Len(first) \in Nat
    OBVIOUS
  <2>2. Takes(first, s, X, 0, first)
    BY <2>1 DEF Takes, Apart
  <2>3. QED
    BY <1>0, <1>6, <2>2
<1>8. \A n \in 1 .. N : n - 1 \in A => n \in A
  <2> SUFFICES ASSUME NEW n \in 1 .. N, n - 1 \in A PROVE n \in A
    OBVIOUS
  <2>1. Takes(first, s, X, n - 1, taken[n - 1])
    OBVIOUS
  <2>2. Takes(first, s, X, n, Grow(taken[n - 1], n))
    BY <2>1, TakesOneMore DEF Grow
  <2>3. QED
    BY <1>0, <1>6, <2>2
<1>9. N \in A
  <2>1. N \in 0 .. N
    BY <1>0
  <2> HIDE DEF A, N
  <2>2. \A n \in 0 .. N : n \in A
    BY <1>0, <1>7, <1>8, Induction
  <2>3. QED
    BY <2>1, <2>2
<1>10. QED
  BY <1>5, <1>9
-----------------------------------------------------------------------------
\* Merge.
Proper(X) == \A f \in X : f.start \in Nat /\ f.end \in Nat /\ f.start < f.end

\* g comes before f in the order of the merge of s, where f is the k-th fragment.
Beats(s, g, k) ==
    /\ <<s[k], g>> \notin LongerFirst(s)
    /\ \E l \in 1 .. Len(s) : g = s[l] /\ (<<g, s[k]>> \in LongerFirst(s) \/ l < k)

Merged(s, m, X) ==
    /\ m \in Seq(X)
    /\ \A i \in 1 .. Len(m) : \E k \in 1 .. Len(s) : m[i] = s[k]
    /\ \A i, j \in 1 .. Len(m) : i < j => m[i].end <= m[j].start
    /\ \A k \in 1 .. Len(s) : \E i \in 1 .. Len(m) :
          m[i] = s[k] \/ (Overlap(s[k], m[i]) /\ Beats(s, m[i], k))

\* Both orders of Merge are orders.
LEMMA LongerIsWeakOrder ==
    ASSUME NEW s, Proper(Range(s))
    PROVE  WeakOrder(LongerFirst(s), Range(s))
<1>1. \A x, y \in Range(s) : <<x, y>> \in LongerFirst(s) <=>
         \/ Size(x) > Size(y)
         \/ Size(x) = Size(y) /\ x.start < y.start
  BY DEF LongerFirst
<1>2. \A x \in Range(s) : Size(x) \in Int /\ x.start \in Nat
  BY DEF Proper, Size
<1> HIDE DEF LongerFirst, Size
<1>3. QED
  BY <1>1, <1>2 DEF WeakOrder

LEMMA EarlierIsWeakOrder ==
    ASSUME NEW s, Proper(Range(s))
    PROVE  WeakOrder(EarlierFirst(s), Range(s))
<1>1. \A x, y \in Range(s) : <<x, y>> \in EarlierFirst(s) <=> x.start < y.start
  BY DEF EarlierFirst
<1>2. \A x \in Range(s) : x.start \in Nat
  BY DEF Proper
<1>3. QED
  BY <1>1, <1>2 DEF WeakOrder

\* A sequence is one of its own elements.
LEMMA InOwnRange ==
    ASSUME NEW X, NEW s \in Seq(X)
    PROVE  /\ s \in Seq(Range(s)) /\ Range(s) \subseteq X
           /\ \A x : x \in Range(s) <=> \E i \in 1 .. Len(s) : x = s[i]
  BY RangeIs

\* The greedy choice.
LEMMA SelectedIs ==
    ASSUME NEW X, Proper(X), NEW s \in Seq(X)
    PROVE  /\ Selected(s) \in Seq(Range(s))
           /\ Apart(Selected(s), 0)
           /\ \A k \in 1 .. Len(s) : \E i \in 1 .. Len(Selected(s)) :
                 \/ Selected(s)[i] = s[k]
                 \/ Overlap(s[k], Selected(s)[i]) /\ Beats(s, Selected(s)[i], k)
<1> DEFINE Y == Range(s)
           N == Len(s)
           u == StableSort(s, LongerFirst(s))
           t == Selected(s)
<1>1. /\ s \in Seq(Y) /\ Proper(Y) /\ N \in Nat
      /\ \A x : x \in Y <=> \E i \in 1 .. N : x = s[i]
  BY InOwnRange DEF Proper
<1>2. u \in Seq(Y) /\ \E from : Sorts(s, LongerFirst(s), N, from, u)
  BY <1>1, LongerIsWeakOrder, SortIs
<1>3. PICK from : Sorts(s, LongerFirst(s), N, from, u)
  BY <1>2
<1>4. /\ Len(u) = N
      /\ \A i \in 1 .. N : from[i] \in 1 .. N /\ u[i] = s[from[i]]
      /\ \A k \in 1 .. N : \E i \in 1 .. N : from[i] = k
      /\ \A i, j \in 1 .. N : i < j => <<u[j], u[i]>> \notin LongerFirst(s)
      /\ \A i, j \in 1 .. N : i < j => <<u[i], u[j]>> \in LongerFirst(s) \/ from[i] < from[j]
  BY <1>3 DEF Sorts
<1>5. t = TakeApart(<<>>, u)
  BY DEF Selected
<1> HIDE DEF Y, N, u, t
<1>6. Takes(<<>>, u, Y, N, t)
  <2>1. <<>> \in Seq(Y)
    OBVIOUS
  <2>2. QED
    BY <1>2, <1>4, <1>5, <2>1, TakeApartIs
<1>7. /\ t \in Seq(Y) /\ Apart(t, 0)
      /\ \A k \in 1 .. N :
            \/ \E i \in 1 .. Len(t) : t[i] = u[k]
            \/ \E i \in 1 .. Len(t) : Overlap(u[k], t[i]) /\ \E l \in 1 .. k - 1 : t[i] = u[l]
  <2>1. Len(<<>>) = 0 /\ \A i \in 1 .. Len(t) : ~(i <= 0)
    OBVIOUS
  <2>2. QED
    BY <1>6, <2>1 DEF Takes
<1>8. ASSUME NEW k \in 1 .. N
      PROVE  \E i \in 1 .. Len(t) :
                 t[i] = s[k] \/ (Overlap(s[k], t[i]) /\ Beats(s, t[i], k))
  <2>1. PICK j \in 1 .. N : from[j] = k
    BY <1>4
  <2>2. u[j] = s[k]
    BY <1>4, <2>1
  <2>3. CASE \E i \in 1 .. Len(t) : t[i] = u[j]
    BY <2>2, <2>3
  <2>4. CASE \E i \in 1 .. Len(t) : Overlap(u[j], t[i]) /\ \E l \in 1 .. j - 1 : t[i] = u[l]
    <3>1. PICK i \in 1 .. Len(t), l \in 1 .. j - 1 : Overlap(u[j], t[i]) /\ t[i] = u[l]
      BY <2>4
    <3>2. l \in 1 .. N /\ l < j
      BY <1>1
    <3>3. from[l] \in 1 .. N /\ t[i] = s[from[l]]
      BY <1>4, <3>1, <3>2
    <3>4. /\ <<s[k], t[i]>> \notin LongerFirst(s)
          /\ <<t[i], s[k]>> \in LongerFirst(s) \/ from[l] < k
      BY <1>4, <2>1, <2>2, <3>1, <3>2
    <3>5. Beats(s, t[i], k)
      BY <3>3, <3>4 DEF Beats, N
    <3>6. QED
      BY <2>2, <3>1, <3>5
  <2>5. QED
    BY <1>7, <2>3, <2>4
<1>9. QED
  BY <1>7, <1>8 DEF Y, N, t

\* What Merge returns.
LEMMA MergeIs ==
    ASSUME NEW X, Proper(X), NEW s \in Seq(X)
    PROVE  Merged(s, Merge(s), X)
<1> DEFINE t == Selected(s)
           Y == Range(t)
           n == Len(t)
           m == StableSort(t, EarlierFirst(t))
<1>1. /\ t \in Seq(Range(s)) /\ Apart(t, 0)
      /\ \A k \in 1 .. Len(s) : \E i \in 1 .. n :
            t[i] = s[k] \/ (Overlap(s[k], t[i]) /\ Beats(s, t[i], k))
  BY SelectedIs
<1>2. m = Merge(s)
  BY DEF Merge
<1> HIDE DEF t
<1>3. /\ t \in Seq(Y) /\ n \in Nat /\ Y \subseteq X /\ Proper(Y)
      /\ \A x \in Y : \E k \in 1 .. Len(s) : x = s[k]
      /\ \A i \in 1 .. n : t[i] \in Y
  <2>1. /\ Range(s) \subseteq X
        /\ \A x : x \in Range(s) <=> \E k \in 1 .. Len(s) : x = s[k]
    BY InOwnRange
  <2>2. t \in Seq(Y) /\ Y \subseteq Range(s)
    BY <1>1, InOwnRange
  <2>3. QED
    BY <2>1, <2>2 DEF Proper
<1>4. m \in Seq(Y) /\ \E from : Sorts(t, EarlierFirst(t), n, from, m)
  BY <1>3, EarlierIsWeakOrder, SortIs
<1>5. PICK from : Sorts(t, EarlierFirst(t), n, from, m)
  BY <1>4
<1>6. /\ Len(m) = n
      /\ \A i \in 1 .. n : from[i] \in 1 .. n /\ m[i] = t[from[i]]
      /\ \A k \in 1 .. n : \E i \in 1 .. n : from[i] = k
      /\ \A i, j \in 1 .. n : i < j => from[i] # from[j] /\ <<m[j], m[i]>> \notin EarlierFirst(t)
  <2>1. \A i, j \in 1 .. n : i < j => i # j
    BY <1>3
  <2> HIDE DEF n, m
  <2>2. Len(m) = n
    BY <1>5 DEF Sorts
  <2>3. from \in [1 .. n -> 1 .. n] /\ \A i \in 1 .. n : m[i] = t[from[i]]
    BY <1>5 DEF Sorts
  <2>4. \A k \in 1 .. n : \E i \in 1 .. n : from[i] = k
    BY <1>5 DEF Sorts
  <2>5. \A i, j \in 1 .. n : i # j => from[i] # from[j]
    BY <1>5 DEF Sorts
  <2>6. \A i, j \in 1 .. n : i < j => <<m[j], m[i]>> \notin EarlierFirst(t)
    BY <1>5 DEF Sorts
  <2>7. \A i \in 1 .. n : from[i] \in 1 .. n /\ m[i] = t[from[i]]
    BY <2>3
  <2>8. ASSUME NEW i \in 1 .. n, NEW j \in 1 .. n, i < j
        PROVE  from[i] # from[j] /\ <<m[j], m[i]>> \notin EarlierFirst(t)
    BY <2>1, <2>5, <2>6, <2>8
  <2>9. QED
    BY <2>2, <2>4, <2>7, <2>8
<1>7. \A x, y \in Y : <<x, y>> \in EarlierFirst(t) <=> x.start < y.start
  BY DEF EarlierFirst
<1>8. \A i \in 1 .. n : m[i] \in Y /\ \E k \in 1 .. Len(s) : m[i] = s[k]
  <2> SUFFICES ASSUME NEW i \in 1 .. n PROVE m[i] \in Y /\ \E k \in 1 .. Len(s) : m[i] = s[k]
    OBVIOUS
  <2>1. m[i] \in Y
    BY <1>3, <1>6
  <2>2. QED
    BY <1>3, <2>1
<1> HIDE DEF Y, n, m
<1>9. ASSUME NEW i \in 1 .. n, NEW j \in 1 .. n, i < j PROVE m[i].end <= m[j].start
  <2>1. ~Overlap(m[i], m[j])
    <3>1. \A k \in 1 .. n, l \in 1 .. n : k # l => ~Overlap(t[k], t[l])
      <4>1. \A k \in 1 .. n : k > 0
        BY <1>3
      <4>2. QED
        BY <1>1, <4>1 DEF Apart, n
    <3>2. /\ from[i] \in 1 .. n /\ from[j] \in 1 .. n /\ from[i] # from[j]
          /\ m[i] = t[from[i]] /\ m[j] = t[from[j]]
      BY <1>6, <1>9
    <3>3. QED
      BY <3>1, <3>2
  <2>2. ~(m[j].start < m[i].start)
    BY <1>6, <1>7, <1>8, <1>9
  <2>3. /\ m[i].start \in Nat /\ m[i].end \in Nat /\ m[i].start < m[i].end
        /\ m[j].start \in Nat /\ m[j].end \in Nat /\ m[j].start < m[j].end
    BY <1>3, <1>8 DEF Proper
  <2>4. QED
    BY <2>1, <2>2, <2>3 DEF Overlap
<1>10. ASSUME NEW k \in 1 .. Len(s)
       PROVE  \E i \in 1 .. n : m[i] = s[k] \/ (Overlap(s[k], m[i]) /\ Beats(s, m[i], k))
  <2>1. PICK i \in 1 .. n : t[i] = s[k] \/ (Overlap(s[k], t[i]) /\ Beats(s, t[i], k))
    BY <1>1
  <2>2. PICK j \in 1 .. n : from[j] = i
    BY <1>6
  <2>3. m[j] = t[i]
    BY <1>6, <2>2
  <2>4. QED
    BY <2>1, <2>3
<1>11. m \in Seq(X)
  BY <1>3, <1>4
<1>12. QED
  BY <1>2, <1>6, <1>8, <1>9, <1>10, <1>11 DEF Merged

\* Fragments that are apart already all stay.
LEMMA MergeKeeps ==
    ASSUME NEW X, Proper(X), NEW s \in Seq(X), Apart(s, 0)
    PROVE  Range(Merge(s)) = Range(s)
<1>1. Merged(s, Merge(s), X)
  BY MergeIs
<1>2. /\ Merge(s) \in Seq(X)
      /\ \A i \in 1 .. Len(Merge(s)) : \E k \in 1 .. Len(s) : Merge(s)[i] = s[k]
      /\ \A k \in 1 .. Len(s) : \E i \in 1 .. Len(Merge(s)) :
            Merge(s)[i] = s[k] \/ (Overlap(s[k], Merge(s)[i]) /\ Beats(s, Merge(s)[i], k))
  BY <1>1 DEF Merged
<1>3. ASSUME NEW k \in 1 .. Len(s) PROVE \E i \in 1 .. Len(Merge(s)) : Merge(s)[i] = s[k]
  <2>1. PICK i \in 1 .. Len(Merge(s)) :
           Merge(s)[i] = s[k] \/ (Overlap(s[k], Merge(s)[i]) /\ Beats(s, Merge(s)[i], k))
    BY <1>2
  <2>2. CASE Overlap(s[k], Merge(s)[i]) /\ Beats(s, Merge(s)[i], k)
    <3>1. PICK l \in 1 .. Len(s) : Merge(s)[i] = s[l]
      BY <2>2 DEF Beats
    <3>2. l = k
      <4>1. l > 0
        OBVIOUS
      <4>2. QED
        BY <2>2, <3>1, <4>1 DEF Apart
    <3>3. QED
      BY <3>1, <3>2
  <2>3. QED
    BY <2>1, <2>2
<1>4. /\ \A x : x \in Range(s) <=> \E i \in 1 .. Len(s) : x = s[i]
      /\ \A x : x \in Range(Merge(s)) <=> \E i \in 1 .. Len(Merge(s)) : x = Merge(s)[i]
  BY <1>2, InOwnRange
<1>5. QED
  BY <1>2, <1>3, <1>4
-----------------------------------------------------------------------------
\* The detectors come one after another: so do the types of what they found.
LEMMA FlattenOrder ==
    ASSUME NEW X, Proper(X), \A f \in X : f.type \in Nat,
           NEW seqs \in Seq(Seq(X)),
           \A d \in 1 .. Len(seqs) : \A i \in 1 .. Len(seqs[d]) : seqs[d][i].type = d
    PROVE  \A i, j \in 1 .. Len(FlattenSeq(seqs)) :
              i < j => FlattenSeq(seqs)[i].type <= FlattenSeq(seqs)[j].type
<1> DEFINE n == Len(seqs)
<1>1. PICK g : IsFlattening(seqs, X, g) /\ FlattenSeq(seqs) = g[n]
  BY Flattening
<1>2. n \in Nat /\ \A i \in 1 .. n : seqs[i] \in Seq(X) /\ Len(seqs[i]) \in Nat
  OBVIOUS
<1> HIDE DEF n
<1>3. /\ g[0] = <<>> /\ \A i \in 0 .. n : g[i] \in Seq(X)
      /\ \A i \in 1 .. n : i - 1 \in 0 .. n /\ g[i] = g[i - 1] \o seqs[i]
  <2>1. \A i \in 1 .. n : i - 1 \in 0 .. n
    BY <1>2
  <2>2. QED
    BY <1>1, <2>1 DEF IsFlattening, n
<1> DEFINE A == {k \in 0 .. n :
                    /\ \A i \in 1 .. Len(g[k]) : g[k][i].type <= k
                    /\ \A i, j \in 1 .. Len(g[k]) : i < j => g[k][i].type <= g[k][j].type}
<1>4. 0 \in A
  BY <1>2, <1>3
<1>5. ASSUME NEW k \in 1 .. n, k - 1 \in A PROVE k \in A
  <2> DEFINE a == g[k - 1]  b == seqs[k]  c == g[k]  la == Len(a)  lb == Len(b)
  <2>0. k - 1 \in 0 .. n
    BY <1>3
  <2>10. k \in Nat /\ k \in 0 .. n
    BY <1>2
  <2>1. a \in Seq(X) /\ b \in Seq(X) /\ c = a \o b /\ k \in Nat /\ k \in 0 .. n
    BY <1>2, <1>3, <2>0, <2>10
  <2>2. /\ \A i \in 1 .. la : a[i].type <= k - 1
        /\ \A i, j \in 1 .. la : i < j => a[i].type <= a[j].type
    BY <1>5
  <2>3. \A i \in 1 .. lb : b[i].type = k
    BY DEF n
  <2> HIDE DEF a, b, c
  <2>4. la \in Nat /\ lb \in Nat /\ (\A i \in 1 .. la : a[i].type \in Nat)
    BY <2>1
  <2>5. /\ Len(c) = la + lb
        /\ \A i \in 1 .. la + lb : c[i] = IF i <= la THEN a[i] ELSE b[i - la]
    BY <2>1, ConcatProperties
  <2> HIDE DEF la, lb
  <2>6. ASSUME NEW i \in 1 .. la + lb
        PROVE  /\ i <= la => i \in 1 .. la /\ c[i] = a[i] /\ c[i].type <= k - 1 /\ c[i].type \in Nat
               /\ ~(i <= la) => c[i].type = k
    <3>1. CASE i <= la
      <4>1. i \in 1 .. la
        BY <2>4, <3>1
      <4>2. QED
        BY <2>2, <2>4, <2>5, <3>1, <4>1
    <3>2. CASE ~(i <= la)
      <4>1. i - la \in 1 .. lb
        BY <2>4, <3>2
      <4>2. QED
        BY <2>3, <2>5, <3>2, <4>1
    <3>3. QED
      BY <3>1, <3>2
  <2>7. \A i \in 1 .. Len(c) : c[i].type <= k
    BY <2>1, <2>5, <2>6, SMTT(30)
  <2>8. \A i, j \in 1 .. Len(c) : i < j => c[i].type <= c[j].type
    <3> SUFFICES ASSUME NEW i \in 1 .. la + lb, NEW j \in 1 .. la + lb, i < j
                 PROVE  c[i].type <= c[j].type
      BY <2>5
    <3>1. CASE j <= la
      <4>1. i <= la
        BY <2>4, <3>1
      <4>2. QED
        BY <2>2, <2>6, <3>1, <4>1
    <3>2. CASE ~(j <= la)
      <4>1. c[j].type = k
        BY <2>6, <3>2
      <4>2. c[i].type \in Nat /\ c[i].type <= k
        <5> DEFINE x == c[i].type
        <5>1. x = k \/ (x \in Nat /\ x <= k - 1)
          BY <2>6
        <5> HIDE DEF x
        <5>2. x \in Nat /\ x <= k
          BY <2>1, <5>1
        <5>3. QED
          BY <5>2 DEF x
      <4>3. QED
        BY <4>1, <4>2
    <3>3. QED
      BY <3>1, <3>2
  <2>9. QED
    BY <2>1, <2>7, <2>8 DEF c
<1>6. \A k \in 0 .. n : k \in A
  <2> HIDE DEF A
  <2> QED BY <1>2, <1>4, <1>5, Induction
<1>7. n \in A
  BY <1>2, <1>6
<1>8. QED
  BY <1>1, <1>7
-----------------------------------------------------------------------------
\* Slices of a text.
LEMMA SliceIs ==
    ASSUME NEW X, NEW t \in Seq(X), NEW a \in 0 .. Len(t), NEW e \in a .. Len(t)
    PROVE  /\ Slice(t, a, e) \in Seq(X)
           /\ Len(Slice(t, a, e)) = e - a
           /\ \A i \in 1 .. e - a : Slice(t, a, e)[i] = t[a + i]
<1>1. Len(t) \in Nat /\ a + 1 \in Int /\ e \in Int /\ \A i \in a + 1 .. e : t[i] \in X
  OBVIOUS
<1>2. /\ SubSeq(t, a + 1, e) \in Seq(X)
      /\ Len(SubSeq(t, a + 1, e)) = IF a + 1 <= e THEN e - (a + 1) + 1 ELSE 0
      /\ \A i \in 1 .. e - (a + 1) + 1 : SubSeq(t, a + 1, e)[i] = t[(a + 1) + i - 1]
  BY <1>1, SubSeqProperties
<1> DEFINE y == Slice(t, a, e)
<1>3. y = SubSeq(t, a + 1, e)
  BY DEF Slice
<1> HIDE DEF y
<1>4. y \in Seq(X) /\ Len(y) = e - a
  BY <1>1, <1>2, <1>3
<1>5. ASSUME NEW i \in 1 .. e - a PROVE y[i] = t[a + i]
  <2>1. i \in 1 .. e - (a + 1) + 1 /\ (a + 1) + i - 1 = a + i
    BY <1>1
  <2>2. SubSeq(t, a + 1, e)[i] = t[(a + 1) + i - 1]
    BY <1>2, <2>1
  <2>3. QED
    BY <1>3, <2>1, <2>2
<1>6. QED
  BY <1>4, <1>5 DEF y

LEMMA SliceGrows ==
    ASSUME NEW X, NEW t \in Seq(X), NEW a \in 0 .. Len(t), NEW e \in a + 1 .. Len(t)
    PROVE  Slice(t, a, e) = Slice(t, a, e - 1) \o <<t[e]>>
<1>1. a + 1 \in 1 .. Len(t)
  OBVIOUS
<1>2. QED
  BY <1>1, SubSeqRecursiveSecond DEF Slice

LEMMA SliceEmpty ==
    ASSUME NEW t, NEW a \in Int
    PROVE  Slice(t, a, a) = <<>>
<1>1. a < a + 1 /\ a + 1 \in Int
  OBVIOUS
<1>2. QED
  BY <1>1, SubSeqEmpty DEF Slice

-----------------------------------------------------------------------------
\* MaskWith, atom by atom.
Covered(fs, i) == \E k \in 1 .. Len(fs) : fs[k].start < i /\ i <= fs[k].end

\* The fragments as MaskWith needs them.
Walkable(fs, n) ==
    /\ \A k \in 1 .. Len(fs) :
          /\ fs[k].start \in Nat /\ fs[k].end \in Nat
          /\ fs[k].start < fs[k].end /\ fs[k].end <= n
    /\ \A k, l \in 1 .. Len(fs) : k < l => fs[k].end <= fs[l].start

MarkOf(fs, mode, nonce, k) == IF mode = "token" THEN TokenFor(fs[k], k - 1, nonce) ELSE Stars

\* The marks of the fragments.
MarksOf(fs, mode, nonce) == {MarkOf(fs, mode, nonce, k) : k \in 1 .. Len(fs)}

\* The atom x of the masked text stands for y: one of the first e atoms of t, or the
\* text of a fragment.
Stands(t, fs, mode, nonce, e, x, y) ==
    \/ \E i \in 1 .. e : ~Covered(fs, i) /\ x = t[i] /\ y = <<t[i]>>
    \/ \E k \in 1 .. Len(fs) :
          x = MarkOf(fs, mode, nonce, k) /\ y = Slice(t, fs[k].start, fs[k].end)

\* a is what masking makes of the first e atoms, b what its atoms stand for.
MaskedAs(t, fs, mode, nonce, e, a, b) ==
    /\ Len(a) = Len(b)
    /\ \A j \in 1 .. Len(a) : Stands(t, fs, mode, nonce, e, a[j], b[j])
    /\ \A i \in 1 .. e : ~Covered(fs, i) => \E j \in 1 .. Len(a) : a[j] = t[i]

LEMMA StandsStill ==
    ASSUME NEW t, NEW fs, NEW mode, NEW nonce, NEW e \in Nat, NEW x, NEW y,
           Stands(t, fs, mode, nonce, e - 1, x, y)
    PROVE  Stands(t, fs, mode, nonce, e, x, y)
<1>1. \A i \in 1 .. e - 1 : i \in 1 .. e
  OBVIOUS
<1>2. QED
  BY <1>1 DEF Stands

LEMMA MaskStays ==
    ASSUME NEW t, NEW fs, NEW mode, NEW nonce, NEW e \in Nat, NEW a, NEW b,
           MaskedAs(t, fs, mode, nonce, e - 1, a, b), Covered(fs, e)
    PROVE  MaskedAs(t, fs, mode, nonce, e, a, b)
<1>1. \A i \in 1 .. e : i = e \/ i \in 1 .. e - 1
  OBVIOUS
<1>2. \A j \in 1 .. Len(a) : Stands(t, fs, mode, nonce, e, a[j], b[j])
  BY StandsStill DEF MaskedAs
<1>3. QED
  BY <1>1, <1>2 DEF MaskedAs

LEMMA MaskGrows ==
    ASSUME NEW t, NEW fs, NEW mode, NEW nonce, NEW e \in Nat,
           NEW Z, NEW a \in Seq(Z), NEW Y, NEW b \in Seq(Y), NEW x \in Z, NEW y \in Y,
           MaskedAs(t, fs, mode, nonce, e - 1, a, b),
           Stands(t, fs, mode, nonce, e, x, y), Covered(fs, e) \/ x = t[e]
    PROVE  MaskedAs(t, fs, mode, nonce, e, a \o <<x>>, b \o <<y>>)
<1> DEFINE c == a \o <<x>>  d == b \o <<y>>  n == Len(a)
<1>1. /\ n \in Nat /\ Len(b) = n
      /\ \A j \in 1 .. n : Stands(t, fs, mode, nonce, e, a[j], b[j])
      /\ \A i \in 1 .. e - 1 : ~Covered(fs, i) => \E j \in 1 .. n : a[j] = t[i]
  BY StandsStill DEF MaskedAs
<1>2. /\ Len(c) = n + 1 /\ c[n + 1] = x /\ \A j \in 1 .. n : c[j] = a[j]
  <2>1. c = Append(a, x)
    BY AppendIsConcat
  <2>2. QED
    BY <2>1, AppendProperties
<1>3. /\ Len(d) = n + 1 /\ d[n + 1] = y /\ \A j \in 1 .. n : d[j] = b[j]
  <2>1. d = Append(b, y)
    BY AppendIsConcat
  <2>2. QED
    BY <1>1, <2>1, AppendProperties
<1> HIDE DEF c, d, n
<1>4. \A j \in 1 .. n + 1 : j \in 1 .. n \/ j = n + 1
  BY <1>1
<1>5. \A j \in 1 .. n : j \in 1 .. n + 1
  BY <1>1
<1>6. n + 1 \in 1 .. n + 1 /\ \A i \in 1 .. e : i = e \/ i \in 1 .. e - 1
  BY <1>1
<1>7. \A j \in 1 .. n + 1 : Stands(t, fs, mode, nonce, e, c[j], d[j])
  <2> SUFFICES ASSUME NEW j \in 1 .. n + 1 PROVE Stands(t, fs, mode, nonce, e, c[j], d[j])
    OBVIOUS
  <2>1. CASE j \in 1 .. n
    BY <1>1, <1>2, <1>3, <2>1
  <2>2. CASE j = n + 1
    BY <1>2, <1>3, <2>2
  <2>3. QED
    BY <1>4, <2>1, <2>2
<1>8. \A i \in 1 .. e : ~Covered(fs, i) => \E j \in 1 .. n + 1 : c[j] = t[i]
  <2> SUFFICES ASSUME NEW i \in 1 .. e, ~Covered(fs, i) PROVE \E j \in 1 .. n + 1 : c[j] = t[i]
    OBVIOUS
  <2>1. CASE i = e
    BY <1>2, <1>6, <2>1
  <2>2. CASE i \in 1 .. e - 1
    <3>1. PICK j \in 1 .. n : a[j] = t[i]
      BY <1>1, <2>2
    <3>2. QED
      BY <1>2, <1>5, <3>1
  <2>3. QED
    BY <1>6, <2>1, <2>2
<1>9. MaskedAs(t, fs, mode, nonce, e, c, d)
  BY <1>2, <1>3, <1>7, <1>8 DEF MaskedAs
<1>10. QED
  BY <1>9 DEF c, d

\* What each atom of t is for the masked text: itself, or the text of a fragment, or
\* nothing when a fragment covers it that began earlier.
ArePieces(pieces, t, fs) ==
    /\ Len(pieces) = Len(t)
    /\ \A e \in 1 .. Len(t) : ~Covered(fs, e) => pieces[e] = << <<t[e]>> >>
    /\ \A k \in 1 .. Len(fs), e \in 1 .. Len(t) :
          fs[k].start < e /\ e <= fs[k].end =>
             pieces[e] = IF e = fs[k].start + 1 THEN <<Slice(t, fs[k].start, fs[k].end)>> ELSE <<>>

\* What Mask returns.
LEMMA MaskIs ==
    ASSUME NEW X, NEW t \in Seq(X), NEW F, NEW fs \in Seq(F), Walkable(fs, Len(t)),
           NEW mode, NEW nonce,
           NEW pieces \in Seq(Seq(Seq(X))), ArePieces(pieces, t, fs)
    PROVE  /\ MaskWith(t, fs, mode, nonce).text \in
                  Seq(X \cup MarksOf(fs, mode, nonce))
           /\ FlattenSeq(pieces) \in Seq(Seq(X))
           /\ MaskedAs(t, fs, mode, nonce, Len(t), MaskWith(t, fs, mode, nonce).text,
                       FlattenSeq(pieces))
<1> DEFINE n == Len(fs)
           N == Len(t)
           Z == X \cup MarksOf(fs, mode, nonce)
           End(k) == PrevEnd(fs, k + 1)
           Gap(k) == Slice(t, PrevEnd(fs, k), fs[k].start)
           Mark(k) == MarkOf(fs, mode, nonce, k)
           seqs == [k \in 1 .. n |-> Append(Gap(k), Mark(k))]
           OK(e, a, b) == MaskedAs(t, fs, mode, nonce, e, a, b)
<1>1. /\ n \in Nat /\ N \in Nat /\ t \in Seq(Z) /\ X \subseteq Z
      /\ \A k \in 1 .. n : Mark(k) \in Z
      /\ \A i \in 1 .. N : t[i] \in X
  BY DEF MarksOf
<1>2. /\ End(0) = 0
      /\ \A k \in 1 .. n : /\ End(k) = fs[k].end /\ End(k - 1) = PrevEnd(fs, k)
                           /\ k - 1 \in 0 .. n
                           /\ fs[k].start \in Nat /\ End(k) \in Nat
                           /\ fs[k].start < End(k) /\ End(k) <= N
  <2>1. End(0) = 0
    BY DEF PrevEnd
  <2>2. ASSUME NEW k \in 1 .. n
        PROVE  End(k) = fs[k].end /\ End(k - 1) = PrevEnd(fs, k) /\ k - 1 \in 0 .. n
    <3>1. k + 1 # 1 /\ (k + 1) - 1 = k /\ (k - 1) + 1 = k
      OBVIOUS
    <3>2. QED
      BY <1>1, <3>1 DEF PrevEnd
  <2> HIDE DEF End
  <2>3. QED
    BY <2>1, <2>2 DEF Walkable
<1>3. \A k \in 0 .. n : End(k) \in 0 .. N
  <2> SUFFICES ASSUME NEW k \in 0 .. n PROVE End(k) \in 0 .. N
    OBVIOUS
  <2>1. CASE k = 0
    BY <1>1, <1>2, <2>1
  <2>2. CASE k # 0
    <3>1. k \in 1 .. n
      BY <1>1, <2>2
    <3> HIDE DEF End
    <3>2. QED
      BY <1>1, <1>2, <3>1
  <2>3. QED
    BY <2>1, <2>2
<1>4. \A k \in 1 .. n : End(k - 1) <= fs[k].start
  <2> SUFFICES ASSUME NEW k \in 1 .. n PROVE End(k - 1) <= fs[k].start
    OBVIOUS
  <2>1. CASE k = 1
    <3>1. k - 1 = 0
      BY <2>1
    <3> HIDE DEF End
    <3>2. QED
      BY <1>2, <3>1
  <2>2. CASE k # 1
    <3>1. k - 1 \in 1 .. n /\ k - 1 < k
      BY <2>2
    <3>2. fs[k - 1].end <= fs[k].start /\ End(k - 1) = fs[k - 1].end
      BY <1>2, <3>1 DEF Walkable
    <3> HIDE DEF End
    <3>3. QED
      BY <3>2
  <2>3. QED
    BY <2>1, <2>2
<1> HIDE DEF End
<1>5. \A k \in 1 .. n : Gap(k) \in Seq(Z)
  <2> SUFFICES ASSUME NEW k \in 1 .. n PROVE Gap(k) \in Seq(Z)
    OBVIOUS
  <2>1. End(k - 1) \in 0 .. N /\ fs[k].start \in End(k - 1) .. N
    BY <1>1, <1>2, <1>3, <1>4
  <2>2. QED
    BY <1>1, <1>2, <2>1, SliceIs
<1>7. MaskWith(t, fs, mode, nonce).text = FlattenSeq(seqs) \o Slice(t, End(n), N)
  <2>1. DOMAIN fs = 1 .. n
    OBVIOUS
  <2>2. MaskWith(t, fs, mode, nonce).text =
           FlattenSeq([k \in DOMAIN fs |-> Append(Slice(t, PrevEnd(fs, k), fs[k].start),
                                                  MarkOf(fs, mode, nonce, k))])
           \o Slice(t, PrevEnd(fs, Len(fs) + 1), Len(t))
    BY DEF MaskWith, MarkOf
  <2>3. QED
    BY <2>1, <2>2 DEF End
<1> HIDE DEF Gap, Mark, Z, n, N
<1>6. /\ seqs \in Seq(Seq(Z)) /\ Len(seqs) = n
      /\ \A k \in 1 .. n : seqs[k] = Append(Gap(k), Mark(k))
  <2>1. \A k \in 1 .. n : Append(Gap(k), Mark(k)) \in Seq(Z)
    BY <1>1, <1>5, AppendProperties
  <2>2. QED
    BY <1>1, <2>1
<1> HIDE DEF seqs
<1>19. \A k \in 1 .. n : fs[k].start \in Nat /\ fs[k].end \in Nat /\ fs[k].start < fs[k].end
  BY <1>2
<1>20. \A k, l \in 1 .. n : k < l => fs[k].end <= fs[l].start
  BY DEF Walkable, n
<1>8. PICK g : IsFlattening(seqs, Z, g) /\ FlattenSeq(seqs) = g[n]
  BY <1>6, Flattening
<1>9. /\ g[0] = <<>> /\ \A k \in 0 .. n : g[k] \in Seq(Z)
      /\ \A k \in 1 .. n : g[k] = (g[k - 1] \o Gap(k)) \o <<Mark(k)>>
  <2>1. /\ g[0] = <<>> /\ \A k \in 0 .. n : g[k] \in Seq(Z)
        /\ \A k \in 1 .. n : g[k] = g[k - 1] \o seqs[k]
    BY <1>6, <1>8 DEF IsFlattening
  <2>2. ASSUME NEW k \in 1 .. n PROVE g[k] = (g[k - 1] \o Gap(k)) \o <<Mark(k)>>
    <3>1. g[k - 1] \in Seq(Z) /\ Gap(k) \in Seq(Z) /\ <<Mark(k)>> \in Seq(Z)
      BY <1>1, <1>2, <1>5, <2>1
    <3>2. seqs[k] = Gap(k) \o <<Mark(k)>>
      BY <1>1, <1>5, <1>6, AppendIsConcat
    <3>3. (g[k - 1] \o Gap(k)) \o <<Mark(k)>> = g[k - 1] \o (Gap(k) \o <<Mark(k)>>)
      <4> DEFINE v == <<Mark(k)>>  u == g[k - 1]  w == Gap(k)
      <4>1. u \in Seq(Z) /\ w \in Seq(Z) /\ v \in Seq(Z)
        BY <3>1
      <4> HIDE DEF u, v, w
      <4>2. (u \o w) \o v = u \o (w \o v)
        BY <4>1, ConcatAssociative, SMTT(30)
      <4>3. QED
        BY <4>2 DEF u, v, w
    <3>4. QED
      BY <2>1, <3>2, <3>3
  <2>3. QED
    BY <2>1, <2>2
<1>10. PICK h : IsFlattening(pieces, Seq(X), h) /\ FlattenSeq(pieces) = h[N]
  BY Flattening DEF ArePieces, N
<1>11. /\ h[0] = <<>> /\ \A e \in 0 .. N : h[e] \in Seq(Seq(X))
       /\ \A e \in 1 .. N : h[e] = h[e - 1] \o pieces[e]
  BY <1>10 DEF IsFlattening, ArePieces, N
<1> DEFINE A == {e \in 0 .. N : \A k \in 0 .. n :
              /\ End(k) <= e /\ (k < n => e <= fs[k + 1].start)
                    => OK(e, g[k] \o Slice(t, End(k), e), h[e])
              /\ k > 0 /\ fs[k].start < e /\ e <= End(k) => OK(e, g[k], h[e])}
<1> HIDE DEF OK
<1>12. 0 \in A
  <2> SUFFICES ASSUME NEW k \in 0 .. n, End(k) <= 0
               PROVE  OK(0, g[k] \o Slice(t, End(k), 0), h[0])
    BY <1>1, <1>2
  <2>1. k = 0
    <3>1. k # 0 => k \in 1 .. n
      BY <1>1
    <3>2. k # 0 => fs[k].start \in Nat /\ fs[k].start < End(k) /\ End(k) \in Nat
      BY <1>2, <3>1
    <3>3. QED
      BY <3>2
  <2>2. g[k] \o Slice(t, End(k), 0) = <<>>
    BY <1>2, <1>9, <2>1, SliceEmpty, ConcatEmptySeq
  <2>3. OK(0, <<>>, <<>>)
    BY DEF OK, MaskedAs
  <2>4. QED
    BY <1>11, <2>2, <2>3
<1>13. ASSUME NEW e \in 1 .. N, e - 1 \in A PROVE e \in A
  <2>0. e \in Nat /\ e - 1 \in 0 .. N /\ e \in 0 .. N
    BY <1>1
  <2>1. ASSUME NEW k \in 0 .. n, k > 0, fs[k].start < e, e <= End(k)
        PROVE  OK(e, g[k], h[e])
    <3>1. k \in 1 .. n
      BY <1>1, <2>1
    <3>2. Covered(fs, e)
      BY <1>2, <2>1, <3>1 DEF Covered, n
    <3>3. pieces[e] = IF e = fs[k].start + 1 THEN <<Slice(t, fs[k].start, fs[k].end)>> ELSE <<>>
      BY <1>2, <2>1, <3>1 DEF ArePieces, n, N
    <3>4. CASE e = fs[k].start + 1
      <4> DEFINE a == g[k - 1] \o Gap(k)
                 y == Slice(t, fs[k].start, fs[k].end)
      <4>1. k - 1 \in 0 .. n /\ e - 1 = fs[k].start /\ (k - 1) + 1 = k
        BY <1>2, <3>1, <3>4
      <4>2. OK(e - 1, a, h[e - 1])
        <5>1. End(k - 1) <= e - 1 /\ e - 1 <= fs[(k - 1) + 1].start
          BY <1>2, <1>4, <3>1, <4>1
        <5>2. OK(e - 1, g[k - 1] \o Slice(t, End(k - 1), e - 1), h[e - 1])
          BY <1>13, <4>1, <5>1
        <5>3. QED
          BY <1>2, <3>1, <4>1, <5>2 DEF Gap
      <4>3. g[k] = a \o <<Mark(k)>> /\ h[e] = h[e - 1] \o <<y>>
        BY <1>9, <1>11, <3>1, <3>3, <3>4
      <4>4. a \in Seq(Z) /\ h[e - 1] \in Seq(Seq(X)) /\ Mark(k) \in Z
        <5>1. g[k - 1] \in Seq(Z) /\ Gap(k) \in Seq(Z)
          BY <1>5, <1>9, <3>1, <4>1
        <5>2. QED
          BY <1>1, <1>11, <2>0, <3>1, <5>1
      <4>5. y \in Seq(X)
        <5>1. fs[k].start \in 0 .. N /\ fs[k].end \in fs[k].start .. N
          BY <1>1, <1>2, <3>1
        <5>2. QED
          BY <5>1, SliceIs DEF N
      <4>6. Stands(t, fs, mode, nonce, e, Mark(k), y)
        BY <3>1 DEF Stands, Mark, n
      <4> HIDE DEF a, y
      <4>7. OK(e, a \o <<Mark(k)>>, h[e - 1] \o <<y>>)
        BY <2>0, <3>2, <4>2, <4>4, <4>5, <4>6, MaskGrows DEF OK
      <4>8. QED
        BY <4>3, <4>7
    <3>5. CASE e # fs[k].start + 1
      <4>1. fs[k].start < e - 1 /\ e - 1 <= End(k)
        <5>1. fs[k].start \in Nat /\ End(k) \in Nat
          BY <1>2, <3>1
        <5> DEFINE from == fs[k].start  to == End(k)
        <5>2. from \in Nat /\ to \in Nat /\ from < e /\ e <= to /\ e # from + 1 /\ e \in Nat
          BY <2>0, <2>1, <3>5, <5>1
        <5> HIDE DEF from, to
        <5>3. from < e - 1 /\ e - 1 <= to
          BY <5>2
        <5>4. QED
          BY <5>3 DEF from, to
      <4>2. OK(e - 1, g[k], h[e - 1])
        BY <1>13, <2>1, <4>1
      <4>3. h[e] = h[e - 1]
        BY <1>11, <2>0, <3>3, <3>5, ConcatEmptySeq
      <4>4. QED
        BY <2>0, <3>2, <4>2, <4>3, MaskStays DEF OK
    <3>6. QED
      BY <3>4, <3>5
  <2>2. ASSUME NEW k \in 0 .. n, End(k) <= e, k < n => e <= fs[k + 1].start
        PROVE  OK(e, g[k] \o Slice(t, End(k), e), h[e])
    <3>1. CASE End(k) = e
      <4>1. k \in 1 .. n
        BY <1>1, <1>2, <2>0, <3>1
      <4>2. OK(e, g[k], h[e])
        BY <1>2, <2>1, <3>1, <4>1, SMTT(30)
      <4>3. Slice(t, End(k), e) = <<>>
        BY <2>0, <3>1, SliceEmpty
      <4>4. g[k] \in Seq(Z)
        BY <1>9
      <4>5. QED
        BY <4>2, <4>3, <4>4, ConcatEmptySeq
    <3>2. CASE End(k) < e
      <4> DEFINE a == g[k] \o Slice(t, End(k), e - 1)
      <4>1. ~Covered(fs, e)
        <5> SUFFICES ASSUME NEW l \in 1 .. n, fs[l].start < e, e <= fs[l].end PROVE FALSE
          BY DEF Covered, n
        <5>0. fs[l].start < e /\ e <= fs[l].end
          OBVIOUS
        <5>1. l > k
          <6> SUFFICES ASSUME l <= k PROVE FALSE
            BY <1>1
          <6>1. k \in 1 .. n /\ (l < k \/ l = k)
            BY <1>1
          <6>2. /\ fs[l].end \in Nat /\ fs[k].end \in Nat /\ fs[k].start \in Nat
                /\ fs[k].start < fs[k].end /\ End(k) = fs[k].end
            BY <1>2, <1>19, <6>1
          <6>3. fs[l].end <= fs[k].end
            <7>1. l < k => fs[l].end <= fs[k].start
              BY <1>20, <6>1
            <7>2. QED
              BY <6>1, <6>2, <7>1
          <6>4. QED
            BY <2>0, <3>2, <5>0, <6>2, <6>3
        <5>2. k < n /\ k + 1 \in 1 .. n /\ (l = k + 1 \/ k + 1 < l)
          BY <1>1, <5>1
        <5>3. /\ fs[k + 1].start \in Nat /\ fs[k + 1].end \in Nat /\ fs[l].start \in Nat
              /\ fs[k + 1].start < fs[k + 1].end
          BY <1>19, <5>2
        <5>4. k + 1 < l => fs[k + 1].end <= fs[l].start
          BY <1>20, <5>2
        <5>5. fs[k + 1].start <= fs[l].start
          BY <5>2, <5>3, <5>4
        <5>6. e <= fs[k + 1].start
          BY <2>2, <5>2
        <5>7. QED
          BY <2>0, <5>0, <5>3, <5>5, <5>6
      <4>2. End(k) <= e - 1 /\ (k < n => e - 1 <= fs[k + 1].start)
        <5>1. End(k) \in Nat
          BY <1>1, <1>3
        <5>2. k < n => fs[k + 1].start \in Nat
          <6>1. k < n => k + 1 \in 1 .. n
            BY <1>1
          <6>2. QED
            BY <1>2, <6>1
        <5>3. QED
          BY <2>0, <2>2, <3>2, <5>1, <5>2
      <4>3. OK(e - 1, a, h[e - 1])
        BY <1>13, <4>2
      <4>4. Slice(t, End(k), e) = Slice(t, End(k), e - 1) \o <<t[e]>>
        <5>1. End(k) \in 0 .. Len(t) /\ e \in End(k) + 1 .. Len(t)
          BY <1>1, <1>3, <3>2 DEF N
        <5>2. QED
          BY <5>1, SliceGrows
      <4>5. g[k] \in Seq(Z) /\ Slice(t, End(k), e - 1) \in Seq(Z) /\ t[e] \in Z /\ t[e] \in X
        <5>1. End(k) \in 0 .. Len(t) /\ e - 1 \in End(k) .. Len(t)
          BY <1>1, <1>3, <3>2 DEF N
        <5>2. Slice(t, End(k), e - 1) \in Seq(Z)
          BY <1>1, <5>1, SliceIs
        <5>3. QED
          BY <1>1, <1>9, <5>2
      <4>6. g[k] \o Slice(t, End(k), e) = a \o <<t[e]>> /\ a \in Seq(Z)
        <5>1. <<t[e]>> \in Seq(Z)
          BY <4>5
        <5>2. QED
          <6>1. (g[k] \o Slice(t, End(k), e - 1)) \o <<t[e]>> =
                   g[k] \o (Slice(t, End(k), e - 1) \o <<t[e]>>)
            <7> DEFINE v == <<t[e]>>  u == g[k]  w == Slice(t, End(k), e - 1)
            <7>1. u \in Seq(Z) /\ w \in Seq(Z) /\ v \in Seq(Z)
              BY <4>5, <5>1
            <7> HIDE DEF u, v, w
            <7>2. (u \o w) \o v = u \o (w \o v)
              BY <7>1, ConcatAssociative, SMTT(30)
            <7>3. QED
              BY <7>2 DEF u, v, w
          <6>2. a \in Seq(Z)
            BY <4>5, ConcatProperties
          <6>3. QED
            BY <4>4, <6>1, <6>2
      <4>7. h[e] = h[e - 1] \o << <<t[e]>> >> /\ h[e - 1] \in Seq(Seq(X)) /\ <<t[e]>> \in Seq(X)
        <5>1. pieces[e] = << <<t[e]>> >>
          BY <4>1 DEF ArePieces, N
        <5>2. h[e] = h[e - 1] \o pieces[e] /\ h[e - 1] \in Seq(Seq(X))
          BY <1>11, <2>0
        <5>3. <<t[e]>> \in Seq(X)
          BY <4>5
        <5>4. QED
          BY <5>1, <5>2, <5>3
      <4>8. Stands(t, fs, mode, nonce, e, t[e], <<t[e]>>)
        <5>1. e \in 1 .. e
          BY <2>0
        <5>2. QED
          BY <4>1, <5>1 DEF Stands
      <4> HIDE DEF a
      <4>9. OK(e, a \o <<t[e]>>, h[e - 1] \o << <<t[e]>> >>)
        BY <2>0, <4>3, <4>5, <4>6, <4>7, <4>8, MaskGrows DEF OK
      <4>10. QED
        BY <4>6, <4>7, <4>9
    <3>3. End(k) \in Nat
      BY <1>1, <1>3
    <3>4. QED
      BY <2>0, <2>2, <3>1, <3>2, <3>3
  <2>3. QED
    BY <2>0, <2>1, <2>2
<1>14. \A e \in 0 .. N : e \in A
  <2> HIDE DEF A
  <2> QED BY <1>1, <1>12, <1>13, Induction
<1>15. N \in 0 .. N /\ n \in 0 .. n /\ End(n) <= N /\ ~(n < n)
  BY <1>1, <1>3
<1>16. OK(N, g[n] \o Slice(t, End(n), N), h[N])
  <2>1. N \in A
    BY <1>14, <1>15
  <2>2. QED
    BY <1>15, <2>1
<1>17. g[n] \o Slice(t, End(n), N) \in Seq(Z)
  <2>1. End(n) \in 0 .. Len(t) /\ N \in End(n) .. Len(t)
    BY <1>1, <1>3, <1>15 DEF N
  <2>2. Slice(t, End(n), N) \in Seq(Z)
    BY <1>1, <2>1, SliceIs
  <2>3. QED
    BY <1>9, <1>15, <2>2
<1>18. QED
  BY <1>7, <1>8, <1>10, <1>11, <1>15, <1>16, <1>17 DEF OK, N, n, Z

-----------------------------------------------------------------------------
\* RemoveAt.
IsRemoval(w, X, s, q) ==
    /\ w \in Seq(X)
    /\ Len(w) = Len(s) - 1
    /\ \A i \in 1 .. Len(s) - 1 : w[i] = IF i < q THEN s[i] ELSE s[i + 1]

LEMMA Removed ==
    ASSUME NEW X, NEW s \in Seq(X), NEW q \in 1 .. Len(s)
    PROVE  IsRemoval(RemoveAt(s, q), X, s, q)
<1> DEFINE l == SubSeq(s, 1, q - 1)
           r == SubSeq(s, q + 1, Len(s))
           w == l \o r
<1>0. Len(s) \in Nat /\ q \in 1 .. Len(s)
  OBVIOUS
<1>1. l \in Seq(X) /\ Len(l) = q - 1 /\ \A i \in 1 .. q - 1 : l[i] = s[i]
  BY <1>0, SubSeqProperties, SMTT(30)
<1>2. r \in Seq(X) /\ Len(r) = Len(s) - q /\ \A i \in 1 .. Len(s) - q : r[i] = s[q + i]
  <2>1. q + 1 \in Int /\ Len(s) \in Int /\ \A i \in q + 1 .. Len(s) : s[i] \in X
    BY <1>0
  <2>2. /\ r \in Seq(X)
        /\ Len(r) = IF q + 1 <= Len(s) THEN Len(s) - (q + 1) + 1 ELSE 0
        /\ \A i \in 1 .. Len(s) - (q + 1) + 1 : r[i] = s[(q + 1) + i - 1]
    BY <2>1, SubSeqProperties
  <2>3. Len(s) - (q + 1) + 1 = Len(s) - q /\ \A i \in 1 .. Len(s) - q : (q + 1) + i - 1 = q + i
    BY <1>0
  <2> HIDE DEF r
  <2>4. Len(r) = Len(s) - q
    BY <1>0, <2>2
  <2>5. QED
    BY <2>2, <2>3, <2>4
<1>3. RemoveAt(s, q) = w
  BY DEF RemoveAt
<1> HIDE DEF l, r
<1>4. /\ w \in Seq(X) /\ Len(w) = Len(l) + Len(r)
      /\ \A i \in 1 .. Len(l) + Len(r) : w[i] = IF i <= Len(l) THEN l[i] ELSE r[i - Len(l)]
  BY <1>1, <1>2, ConcatProperties
<1>5. Len(l) + Len(r) = Len(s) - 1
  BY <1>0, <1>1, <1>2
<1> HIDE DEF w
<1>6. ASSUME NEW i \in 1 .. Len(s) - 1 PROVE w[i] = IF i < q THEN s[i] ELSE s[i + 1]
  <2>1. w[i] = IF i <= q - 1 THEN l[i] ELSE r[i - (q - 1)]
    BY <1>1, <1>4, <1>5
  <2>2. CASE i < q
    <3>1. i <= q - 1 /\ i \in 1 .. q - 1
      BY <1>0, <2>2
    <3>2. QED
      BY <1>1, <2>1, <2>2, <3>1
  <2>3. CASE ~(i < q)
    <3>1. ~(i <= q - 1) /\ i - (q - 1) \in 1 .. Len(s) - q /\ q + (i - (q - 1)) = i + 1
      BY <1>0, <2>3
    <3>2. QED
      BY <1>2, <2>1, <2>3, <3>1
  <2>4. QED
    BY <2>2, <2>3
<1>7. QED
  BY <1>3, <1>4, <1>5, <1>6 DEF IsRemoval

-----------------------------------------------------------------------------
\* A masked text, and per atom what it stands for.
ImageOf(a, ms) == IF IsToken(a) THEN MappedTo(a, ms) ELSE <<a>>

Aligned(a, b, A, B, ms) ==
    /\ a \in Seq(A) /\ b \in Seq(B) /\ Len(a) = Len(b)
    /\ \A i \in 1 .. Len(a) : a[i] = Cut \/ ImageOf(a[i], ms) = b[i]

LEMMA AlignedInsert ==
    ASSUME NEW A, NEW B, NEW ms, NEW a, NEW b, Aligned(a, b, A, B, ms),
           NEW j \in 1 .. Len(a) + 1, NEW x \in A, NEW y \in B, x = Cut \/ ImageOf(x, ms) = y
    PROVE  Aligned(InsertAt(a, j, x), InsertAt(b, j, y), A, B, ms)
<1> DEFINE c == InsertAt(a, j, x)  d == InsertAt(b, j, y)  n == Len(a)
<1>1. /\ a \in Seq(A) /\ b \in Seq(B) /\ n \in Nat /\ Len(b) = n
      /\ \A i \in 1 .. n : a[i] = Cut \/ ImageOf(a[i], ms) = b[i]
  BY DEF Aligned
<1>2. IsInsertion(c, A, a, j, x) /\ IsInsertion(d, B, b, j, y)
  BY <1>1, Inserted
<1> HIDE DEF c, d, n
<1>3. /\ c \in Seq(A) /\ Len(c) = n + 1 /\ d \in Seq(B) /\ Len(d) = n + 1
      /\ \A i \in 1 .. n + 1 : c[i] = IF i < j THEN a[i] ELSE IF i = j THEN x ELSE a[i - 1]
      /\ \A i \in 1 .. n + 1 : d[i] = IF i < j THEN b[i] ELSE IF i = j THEN y ELSE b[i - 1]
  BY <1>1, <1>2 DEF IsInsertion, n
<1>4. ASSUME NEW i \in 1 .. n + 1 PROVE c[i] = Cut \/ ImageOf(c[i], ms) = d[i]
  <2>0. j \in 1 .. n + 1
    BY DEF n
  <2>1. CASE i < j
    <3>1. i \in 1 .. n
      BY <1>1, <2>0, <2>1
    <3>2. QED
      BY <1>1, <1>3, <2>1, <3>1
  <2>2. CASE i = j
    <3>1. ~(i < j)
      BY <1>1, <2>2
    <3>2. QED
      BY <1>3, <2>2, <3>1
  <2>3. CASE i > j
    <3>1. i - 1 \in 1 .. n /\ ~(i < j) /\ i # j
      BY <1>1, <2>0, <2>3
    <3>2. QED
      BY <1>1, <1>3, <3>1
  <2>4. QED
    BY <1>1, <2>0, <2>1, <2>2, <2>3
<1>5. Aligned(c, d, A, B, ms)
  BY <1>3, <1>4 DEF Aligned
<1>6. QED
  BY <1>5 DEF c, d

LEMMA AlignedRemove ==
    ASSUME NEW A, NEW B, NEW ms, NEW a, NEW b, Aligned(a, b, A, B, ms), NEW j \in 1 .. Len(a)
    PROVE  Aligned(RemoveAt(a, j), RemoveAt(b, j), A, B, ms)
<1> DEFINE c == RemoveAt(a, j)  d == RemoveAt(b, j)  n == Len(a)
<1>1. /\ a \in Seq(A) /\ b \in Seq(B) /\ n \in Nat /\ Len(b) = n
      /\ \A i \in 1 .. n : a[i] = Cut \/ ImageOf(a[i], ms) = b[i]
  BY DEF Aligned
<1>2. IsRemoval(c, A, a, j) /\ IsRemoval(d, B, b, j)
  BY <1>1, Removed
<1> HIDE DEF c, d, n
<1>3. /\ c \in Seq(A) /\ Len(c) = n - 1 /\ d \in Seq(B) /\ Len(d) = n - 1
      /\ \A i \in 1 .. n - 1 : c[i] = IF i < j THEN a[i] ELSE a[i + 1]
      /\ \A i \in 1 .. n - 1 : d[i] = IF i < j THEN b[i] ELSE b[i + 1]
  BY <1>1, <1>2 DEF IsRemoval, n
<1>4. ASSUME NEW i \in 1 .. n - 1 PROVE c[i] = Cut \/ ImageOf(c[i], ms) = d[i]
  <2>1. i \in 1 .. n /\ i + 1 \in 1 .. n
    BY <1>1
  <2>2. QED
    BY <1>1, <1>3, <2>1
<1>5. Aligned(c, d, A, B, ms)
  BY <1>3, <1>4 DEF Aligned
<1>6. QED
  BY <1>5 DEF c, d

LEMMA AlignedCut ==
    ASSUME NEW A, NEW B, NEW ms, NEW a, NEW b, Aligned(a, b, A, B, ms),
           NEW j \in 1 .. Len(a), Cut \in A
    PROVE  Aligned(ReplaceAt(a, j, Cut), b, A, B, ms)
<1>1. a \in Seq(A)
  BY DEF Aligned
<1>2. /\ ReplaceAt(a, j, Cut) \in Seq(A) /\ Len(ReplaceAt(a, j, Cut)) = Len(a)
      /\ \A i \in 1 .. Len(a) : ReplaceAt(a, j, Cut)[i] = IF i = j THEN Cut ELSE a[i]
  BY <1>1, ExceptSeq DEF ReplaceAt
<1>3. QED
  BY <1>2 DEF Aligned

-----------------------------------------------------------------------------
\* Mask.  A text is a sequence of any atoms.
IsText(t) == t \in Seq(Range(t))

\* What Mask does with a list of fragments, in whatever order.
LEMMA MaskResult ==
    ASSUME NEW t, IsText(t), NEW F, Proper(F), \A f \in F : f.end <= Len(t),
           NEW fs \in Seq(F), NEW md, NEW nonce, fs # <<>>
    PROVE  /\ Merge(fs) \in Seq(F) /\ Walkable(Merge(fs), Len(t))
           /\ Mask(t, fs, md, nonce) = MaskWith(t, Merge(fs), md, nonce)
<1> DEFINE m == Merge(fs)
<1>1. /\ m \in Seq(F) /\ \A i, j \in 1 .. Len(m) : i < j => m[i].end <= m[j].start
  BY MergeIs DEF Merged
<1> HIDE DEF m
<1>2. \A i \in 1 .. Len(m) : /\ m[i].start \in Nat /\ m[i].end \in Nat
                             /\ m[i].start < m[i].end /\ m[i].end <= Len(t)
  BY <1>1 DEF Proper
<1>3. Walkable(m, Len(t))
  BY <1>1, <1>2 DEF Walkable
<1>4. InBounds(t, m)
  <2> SUFFICES ASSUME NEW i \in 1 .. Len(m)
               PROVE  /\ PrevEnd(m, i) <= m[i].start /\ m[i].start <= m[i].end
                      /\ m[i].end <= Len(t)
    BY <1>1 DEF InBounds
  <2>1. CASE i = 1
    BY <1>2, <2>1 DEF PrevEnd
  <2>2. CASE i # 1
    <3>1. i - 1 \in 1 .. Len(m) /\ i - 1 < i
      BY <2>2
    <3>2. m[i - 1].end <= m[i].start
      BY <1>1, <3>1
    <3>3. QED
      BY <1>2, <2>2, <3>2 DEF PrevEnd
  <2>3. QED
    BY <2>1, <2>2
<1>5. QED
  BY <1>1, <1>3, <1>4 DEF Mask, m

\* The mappings of the fragments fs, and that each token has the text of its fragment.
AreMappings(ms, t, fs, nonce) ==
    ms = {<<TokenFor(fs[i], i - 1, nonce), Slice(t, fs[i].start, fs[i].end)>> : i \in DOMAIN fs}

LEMMA MappingIs ==
    ASSUME NEW t, NEW fs, NEW nonce, NEW ms,
           DOMAIN fs \subseteq Nat, AreMappings(ms, t, fs, nonce)
    PROVE  /\ \A k \in DOMAIN fs :
                 /\ Known(TokenFor(fs[k], k - 1, nonce), ms)
                 /\ MappedTo(TokenFor(fs[k], k - 1, nonce), ms) = Slice(t, fs[k].start, fs[k].end)
           /\ ~Known(Cut, ms)
           /\ \A k \in DOMAIN fs : IsToken(TokenFor(fs[k], k - 1, nonce))
<1>1. ASSUME NEW k \in DOMAIN fs, NEW m \in ms, m[1] = TokenFor(fs[k], k - 1, nonce)
      PROVE  m = <<TokenFor(fs[k], k - 1, nonce), Slice(t, fs[k].start, fs[k].end)>>
  <2>1. PICK i \in DOMAIN fs :
           m = <<TokenFor(fs[i], i - 1, nonce), Slice(t, fs[i].start, fs[i].end)>>
    BY DEF AreMappings
  <2>2. TokenFor(fs[i], i - 1, nonce) = TokenFor(fs[k], k - 1, nonce)
    BY <1>1, <2>1
  <2>3. i - 1 = k - 1
    BY <2>2 DEF TokenFor, Token
  <2>4. i \in Nat /\ k \in Nat
    OBVIOUS
  <2>5. i = k
    BY <2>3, <2>4
  <2>6. QED
    BY <2>1, <2>5
<1>2. ASSUME NEW k \in DOMAIN fs
      PROVE  /\ Known(TokenFor(fs[k], k - 1, nonce), ms)
             /\ MappedTo(TokenFor(fs[k], k - 1, nonce), ms) = Slice(t, fs[k].start, fs[k].end)
  <2> DEFINE a == TokenFor(fs[k], k - 1, nonce)
             y == Slice(t, fs[k].start, fs[k].end)
             Is(m) == m[1] = a
             c == CHOOSE m \in ms : Is(m)
  <2>1. <<a, y>> \in ms /\ Is(<<a, y>>)
    BY DEF AreMappings
  <2>2. c \in ms /\ Is(c)
    <3>1. \E m \in ms : Is(m)
      BY <2>1
    <3> HIDE DEF Is
    <3>2. QED
      BY <3>1
  <2>3. c = <<a, y>>
    BY <1>1, <2>2
  <2>4. MappedTo(a, ms) = c[2]
    BY DEF MappedTo
  <2>5. Known(a, ms)
    BY <2>1 DEF Known
  <2> HIDE DEF c
  <2>6. MappedTo(a, ms) = y
    BY <2>3, <2>4
  <2>7. QED
    BY <2>5, <2>6
<1>3. ~Known(Cut, ms)
  <2>1. \A m \in ms : \E i \in DOMAIN fs : m[1] = TokenFor(fs[i], i - 1, nonce)
    BY DEF AreMappings
  <2>2. \A i \in DOMAIN fs : Cut # TokenFor(fs[i], i - 1, nonce)
    BY DEF Cut, TokenFor, Token
  <2>3. QED
    BY <2>1, <2>2 DEF Known
<1>4. \A k \in DOMAIN fs : IsToken(TokenFor(fs[k], k - 1, nonce))
  BY DEF IsToken, TokenFor, Token
<1>5. QED
  BY <1>2, <1>3, <1>4

-----------------------------------------------------------------------------
\* What the atoms of the masked text stand for, atom by atom of t.
PieceOf(t, fs, i) ==
    IF \A k \in DOMAIN fs : i <= fs[k].start \/ fs[k].end < i
    THEN << <<t[i]>> >>
    ELSE LET f == fs[CHOOSE k \in DOMAIN fs : fs[k].start < i /\ i <= fs[k].end]
         IN  IF i = f.start + 1 THEN <<SubSeq(t, i, f.end)>> ELSE <<>>

LEMMA PiecesAre ==
    ASSUME NEW t, IsText(t), NEW F, NEW fs \in Seq(F), Walkable(fs, Len(t))
    PROVE  \E pieces \in Seq(Seq(Seq(Range(t)))) :
              ArePieces(pieces, t, fs) /\ pieces = [i \in DOMAIN t |-> PieceOf(t, fs, i)]
<1> DEFINE X == Range(t)
           pieces == [i \in DOMAIN t |-> PieceOf(t, fs, i)]
<1>1. /\ t \in Seq(X) /\ DOMAIN t = 1 .. Len(t) /\ Len(t) \in Nat
      /\ \A i \in 1 .. Len(t) : t[i] \in X
      /\ DOMAIN fs = 1 .. Len(fs) /\ Len(fs) \in Nat
  <2>1. t \in Seq(X)
    BY DEF IsText
  <2> HIDE DEF X
  <2>2. QED
    BY <2>1
<1>2. \A k \in 1 .. Len(fs) :
         /\ fs[k].start \in Nat /\ fs[k].end \in Nat /\ fs[k].start < fs[k].end
         /\ fs[k].start \in 0 .. Len(t) /\ fs[k].end \in fs[k].start .. Len(t)
  <2> SUFFICES ASSUME NEW k \in 1 .. Len(fs)
               PROVE  /\ fs[k].start \in Nat /\ fs[k].end \in Nat /\ fs[k].start < fs[k].end
                      /\ fs[k].start \in 0 .. Len(t) /\ fs[k].end \in fs[k].start .. Len(t)
    OBVIOUS
  <2> DEFINE from == fs[k].start  to == fs[k].end
  <2>1. from \in Nat /\ to \in Nat /\ from < to /\ to <= Len(t)
    BY DEF Walkable
  <2> HIDE DEF from, to
  <2>2. from \in 0 .. Len(t) /\ to \in from .. Len(t)
    BY <1>1, <2>1
  <2>3. QED
    BY <2>1, <2>2 DEF from, to
<1> HIDE DEF X
<1>3. ASSUME NEW e \in 1 .. Len(t), ~Covered(fs, e) PROVE PieceOf(t, fs, e) = << <<t[e]>> >>
  <2>1. ASSUME NEW k \in DOMAIN fs PROVE e <= fs[k].start \/ fs[k].end < e
    <3> DEFINE from == fs[k].start  to == fs[k].end
    <3>1. from \in Nat /\ to \in Nat /\ ~(from < e /\ e <= to)
      BY <1>1, <1>2, <1>3 DEF Covered
    <3> HIDE DEF from, to
    <3>2. e <= from \/ to < e
      BY <3>1
    <3>3. QED
      BY <3>2 DEF from, to
  <2>2. QED
    BY <2>1 DEF PieceOf
<1>4. ASSUME NEW e \in 1 .. Len(t), NEW k \in 1 .. Len(fs), fs[k].start < e, e <= fs[k].end
      PROVE  PieceOf(t, fs, e) =
                IF e = fs[k].start + 1 THEN <<Slice(t, fs[k].start, fs[k].end)>> ELSE <<>>
  <2> DEFINE In(l) == fs[l].start < e /\ e <= fs[l].end
             c == CHOOSE l \in DOMAIN fs : In(l)
  <2>1. ASSUME NEW l \in DOMAIN fs, In(l) PROVE l = k
    <3>1. l \in 1 .. Len(fs) /\ l \in Nat /\ k \in Nat
      BY <1>1
    <3> DEFINE from(i) == fs[i].start  to(i) == fs[i].end
    <3>2. /\ from(k) \in Nat /\ to(k) \in Nat /\ from(l) \in Nat /\ to(l) \in Nat
          /\ from(k) < e /\ e <= to(k) /\ from(l) < e /\ e <= to(l)
          /\ (k < l => to(k) <= from(l)) /\ (l < k => to(l) <= from(k))
      BY <1>2, <1>4, <2>1, <3>1 DEF Walkable
    <3> HIDE DEF from, to, In
    <3>3. QED
      BY <3>1, <3>2
  <2>2. c = k
    <3>1. In(k) /\ k \in DOMAIN fs
      BY <1>1, <1>4
    <3> HIDE DEF In
    <3>2. c \in DOMAIN fs /\ In(c)
      BY <3>1
    <3>3. QED
      BY <2>1, <3>2
  <2>3. ~(\A l \in DOMAIN fs : e <= fs[l].start \/ fs[l].end < e)
    <3>1. ~(e <= fs[k].start) /\ ~(fs[k].end < e)
      <4> DEFINE from == fs[k].start  to == fs[k].end
      <4>1. from \in Nat /\ to \in Nat /\ from < e /\ e <= to
        BY <1>2, <1>4
      <4> HIDE DEF from, to
      <4>2. ~(e <= from) /\ ~(to < e)
        BY <4>1
      <4>3. QED
        BY <4>2 DEF from, to
    <3>2. QED
      BY <1>1, <3>1
  <2>4. PieceOf(t, fs, e) = IF e = fs[c].start + 1 THEN <<SubSeq(t, e, fs[c].end)>> ELSE <<>>
    BY <2>3 DEF PieceOf
  <2> HIDE DEF c
  <2>5. QED
    BY <2>2, <2>4 DEF Slice
<1>5. \A e \in 1 .. Len(t) : PieceOf(t, fs, e) \in Seq(Seq(X))
  <2> SUFFICES ASSUME NEW e \in 1 .. Len(t) PROVE PieceOf(t, fs, e) \in Seq(Seq(X))
    OBVIOUS
  <2>1. CASE ~Covered(fs, e)
    <3>1. << <<t[e]>> >> \in Seq(Seq(X))
      BY <1>1
    <3>2. QED
      BY <1>3, <2>1, <3>1
  <2>2. CASE Covered(fs, e)
    <3>1. PICK k \in 1 .. Len(fs) : fs[k].start < e /\ e <= fs[k].end
      BY <2>2 DEF Covered
    <3> DEFINE y == Slice(t, fs[k].start, fs[k].end)
    <3>2. y \in Seq(X)
      BY <1>1, <1>2, SliceIs
    <3> HIDE DEF y
    <3>3. <<y>> \in Seq(Seq(X)) /\ <<>> \in Seq(Seq(X))
      BY <3>2
    <3>4. QED
      BY <1>4, <3>1, <3>3 DEF y
  <2>3. QED
    BY <2>1, <2>2
<1>6. pieces \in Seq(Seq(Seq(X))) /\ Len(pieces) = Len(t)
      /\ \A e \in 1 .. Len(t) : pieces[e] = PieceOf(t, fs, e)
  BY <1>1, <1>5
<1> HIDE DEF pieces
<1>7. ArePieces(pieces, t, fs)
  BY <1>3, <1>4, <1>6 DEF ArePieces
<1>8. QED
  BY <1>6, <1>7 DEF X, pieces
=============================================================================
