----------------------------- MODULE Validator -----------------------------
(***************************************************************************)
(* internal/ner/validate.go: is a candidate of the NER model personal data *)
(* in its context, and of which type.                                      *)
(*                                                                         *)
(* A text is a sequence of words and marks; a candidate [label, start,     *)
(* end] covers the atoms start + 1 .. end.  The lists of the code have     *)
(* many words of few kinds: the model has one word for each kind, and the  *)
(* signatures of several words that contain a shorter one.  Words are      *)
(* equally wide, so that distances compare as those in bytes do.           *)
(*    "comma"  "dot"  the ends of clauses; ; ! ? end them as "dot" does    *)
(*    "nl"            the end of a line, which ends a clause and is skipped *)
(*                    as white space before a comma, a colon or a verb     *)
(*    "colon" "brace" other marks: the colon, the end of an object of JSON *)
(*    "at"            @, which makes an e-mail address of its neighbours   *)
(*    "Ann"       a name of two words; "Spb" a place, "Mvd" an authority   *)
(* The windows of 96 to 512 bytes are wider than the texts of the runs.    *)
(***************************************************************************)
EXTENDS Integers, Sequences, FiniteSets, SequencesExt, OneText

CONSTANTS NegationWindow,    \* in words; 16 bytes before a signature
          Around, Heads,     \* of each label: what may stand around a candidate, and
                             \* what may be one
          MaxContext         \* bound: atoms around it

\* A candidate has a word and a label of the model.
ASSUME ValidatorAssumption ==
    /\ DOMAIN Around \subseteq {"PER", "LOC", "ORG"}
    /\ \A label \in DOMAIN Around : \A h \in Heads[label] : h \in Seq(Range(h)) /\ h # <<>>
    /\ {NegationWindow, MaxContext} \subseteq Nat

VARIABLES cand,
          verdict            \* a type, "none", or "new" before the call

validatorVars == <<text, cand, verdict>>

Roles == {"client"}          \* of persons; all of them are signatures, too
PublicRoles == {"poet"}      \* publicPersonSignatures
SentenceMarks == {"dot", "nl"}
ClauseMarks == SentenceMarks \cup {"comma"}

Sig(words, type) == [words |-> words, type |-> type]
PerSignatures == <<
    Sig(<<"author_key">>, "none"), Sig(<<"name", "holder">>, "card_holder"),
    Sig(<<"client">>, "full_name"), Sig(<<"name">>, "full_name"),
    Sig(<<"poet">>, "none"), Sig(<<"king">>, "none")>>
LocSignatures == <<
    Sig(<<"company", "registered">>, "none"), Sig(<<"born">>, "birth_place"),
    Sig(<<"registered">>, "address"), Sig(<<"office">>, "none")>>
OrgSignatures == <<Sig(<<"issued">>, "passport_issuer")>>
SignaturesFor(label) ==
    CASE label = "PER" -> PerSignatures
      [] label = "LOC" -> LocSignatures
      [] label = "ORG" -> OrgSignatures

Piece(t, from, to) == SubSeq(t, from + 1, to)
HasAny(part, words) == Range(part) \cap words # {}

\* The part of the sentence around an offset; SentenceEnd passes over commas.
ClauseStartAtComma(t, p) == Max({i \in 0 .. p : i = 0 \/ t[i] = "comma"})
ClauseStart(t, p) == Max({i \in 0 .. p : i = 0 \/ t[i] \in ClauseMarks})
ClauseEnd(t, p) == Min({i \in p .. Len(t) : i = Len(t) \/ t[i + 1] \in ClauseMarks})
SentenceEnd(t, p) == Min({i \in p .. Len(t) : i = Len(t) \/ t[i + 1] \in SentenceMarks})
\* The last place up to p that is not one of the marks.
Back(t, p, marks) == Max({i \in 0 .. p : i = 0 \/ t[i] \notin marks})
-----------------------------------------------------------------------------
\* trimCandidateRolePrefix: a role before the name is not part of the name.
TrimRole(t, c) ==
    IF c.label = "PER" /\ c.end - c.start > 1 /\ t[c.start + 1] \in Roles
    THEN [c EXCEPT !.start = @ + 1] ELSE c

InsideEmail(t, c) == \E i \in {c.start, c.end + 1} \cap DOMAIN t : t[i] = "at"

\* "public_author": with nothing but text of the same object up to the candidate.
IsPublicAuthorValue(t, c) ==
    LET keys == {i \in 1 .. c.start : t[i] = "author_key"} IN
    /\ keys # {}
    /\ \E i \in Max(keys) + 1 .. c.start :
          t[i] = "colon" /\ \A j \in Max(keys) + 1 .. i - 1 : t[j] = "nl"
    /\ ~HasAny(Piece(t, Max(keys), c.start), {"brace"})

\* Whoever was born there is named as the client further on.  From the name
\* before the verb commas are trimmed, then full stops, then colons.
Subject(t, born) ==
    Back(t, Back(t, Back(t, Back(t, born - 1, {"nl"}), {"comma"}), {"dot"}), {"colon"})
BirthplaceOfClient(t, c) ==
    LET born == {i \in 1 .. c.start : t[i] = "born"}
        field == {i \in c.start + 1 .. Len(t) : t[i] = "client_fio"}
    IN  /\ born # {} /\ field # {}
        /\ Subject(t, Max(born)) > 0 /\ t[Subject(t, Max(born))] = "Ann"
        /\ HasAny(Piece(t, Min(field), Len(t)), {"Ann"})

PublicAppositiveAfter(t, c) ==
    /\ c.end < Len(t) /\ t[c.end + 1] = "comma"
    /\ HasAny(Piece(t, c.end + 1, SentenceEnd(t, c.end + 1)), PublicRoles)

PersonalRoleBefore(t, c) ==
    LET from == ClauseStart(t, c.start)
        colons == {i \in from + 1 .. c.start : t[i] = "colon"}
    IN  HasAny(Piece(t, IF colons = {} THEN from ELSE Max(colons), c.start), Roles)

\* historicalBirthContext: a year before 1900, or a word like "biography".
HistoricalBirth(before) == HasAny(before, {"1812"})
-----------------------------------------------------------------------------
\* Where a signature stands in a part, and how far from the candidate: places
\* are offsets of its first word.
Places(part, s) ==
    {p \in 0 .. Len(part) - Len(s.words) : Piece(part, p, p + Len(s.words)) = s.words}
DistBefore(part, s) == Len(part) - Max(Places(part, s)) - Len(s.words)
DistAfter(part, s) == Min(Places(part, s))

\* The nearest one; of equally near ones the first in the list.
NoHit == [ok |-> FALSE]
Found(part, sigs) == {k \in DOMAIN sigs : Places(part, sigs[k]) # {}}
Hit(sigs, k, dist) == [ok |-> TRUE, sig |-> sigs[k], dist |-> dist, rank |-> k]
NearerLast(g, h) == g.dist < h.dist \/ (g.dist = h.dist /\ g.rank >= h.rank)
Nearer(g, h) == g.dist < h.dist \/ (g.dist = h.dist /\ g.rank <= h.rank)
Nearest(hits) ==
    IF hits = {} THEN NoHit ELSE CHOOSE g \in hits : \A h \in hits : Nearer(g, h)
NearestBefore(part, sigs) ==
    Nearest({Hit(sigs, k, DistBefore(part, sigs[k])) : k \in Found(part, sigs)})
NearestAfter(part, sigs) ==
    Nearest({Hit(sigs, k, DistAfter(part, sigs[k])) : k \in Found(part, sigs)})

\* What stands before the comma right before a candidate, or at the end of the
\* line before: "the borrower, Ann".
Appositive(t, c) ==
    LET q == Back(t, c.start, {"nl"}) IN
    IF q > 0 /\ t[q] = "comma" THEN Piece(t, ClauseStart(t, q - 1), q - 1) ELSE <<>>

\* "not" between signature and candidate, or within the window before the
\* signature, if that is on the left.
Negated(before, after, hit, isLeft) ==
    LET at == Len(before) - hit.dist - Len(hit.sig.words) IN
    IF isLeft
    THEN \/ HasAny(Piece(before, Len(before) - hit.dist, Len(before)), {"not"})
         \/ HasAny(Piece(before, Max({0, at - NegationWindow}), at), {"not"})
    ELSE HasAny(Piece(after, 0, hit.dist), {"not"})

\* The clause decides: the nearer signature, the left one if both are as near.
DecideBySignature(t, c) ==
    LET sigs == SignaturesFor(c.label)
        clause == Piece(t, ClauseStart(t, c.start), ClauseEnd(t, c.end))
        inClause == Piece(t, ClauseStart(t, c.start), c.start)
        after == Piece(t, c.end, ClauseEnd(t, c.end))
        own == NearestBefore(inClause, sigs)
        bridge == NearestBefore(Appositive(t, c), sigs)
        bridged == ~own.ok /\ c.label = "PER" /\ bridge.ok /\ bridge.dist = 0
        before == IF bridged THEN Appositive(t, c) ELSE inClause
        left == IF bridged THEN bridge ELSE own
        right == NearestAfter(after, sigs)
        isLeft == left.ok /\ (right.ok => left.dist <= right.dist)
        hit == IF isLeft THEN left ELSE right
        exposed == c.label = "LOC" /\ (HasAny(clause, PublicRoles)
                                       \/ /\ hit.sig.type = "birth_place"
                                          /\ HistoricalBirth(inClause))
    IN  IF ~hit.ok THEN "none"
        ELSE IF Negated(before, after, hit, isLeft) \/ exposed THEN "none"
        ELSE hit.sig.type

Decide(t, c) ==
    IF \/ InsideEmail(t, c)
       \/ c.label = "PER" /\ IsPublicAuthorValue(t, c)
       \/ c.label = "LOC" /\ BirthplaceOfClient(t, c)
       \/ c.label = "PER" /\ PublicAppositiveAfter(t, c) /\ ~PersonalRoleBefore(t, c)
       \/ c.label = "PER" /\ HasAny(Piece(t, ClauseStart(t, c.start), c.start), PublicRoles)
    THEN "none" ELSE DecideBySignature(t, c)

Contexts(label, n) == [1 .. n -> Around[label]]
ValidatorInit ==
    /\ \E label \in DOMAIN Around, n \in 0 .. MaxContext :
       \E l \in Contexts(label, n), r \in Contexts(label, MaxContext - n), h \in Heads[label] :
          /\ text = l \o h \o r
          /\ cand = [label |-> label, start |-> n, end |-> n + Len(h)]
    /\ verdict = "new"

\* Validate, of one candidate: they do not depend on each other.
Validate ==
    /\ verdict = "new"
    /\ cand' = TrimRole(text, cand)
    /\ verdict' = Decide(text, cand')
    /\ UNCHANGED text

ValidatorNext == Validate

ValidatorSpec == ValidatorInit /\ [][ValidatorNext]_validatorVars
-----------------------------------------------------------------------------
Decided == verdict # "new"

Covers(part, s, p, l, q) ==
    /\ q \in Places(part, l) /\ Len(l.words) > Len(s.words)
    /\ q <= p /\ p + Len(s.words) <= q + Len(l.words)
WholePlaces(part, s, label) ==
    {p \in Places(part, s) : \A l \in Range(SignaturesFor(label)) :
        \A q \in 0 .. Len(part) : ~Covers(part, s, p, l, q)}
Left == Piece(text, ClauseStart(text, cand.start), cand.start)
Right == Piece(text, cand.end, ClauseEnd(text, cand.end))
WholeAt(s) ==
    {Len(Left) - p - Len(s.words) : p \in WholePlaces(Left, s, cand.label)}
    \cup WholePlaces(Right, s, cand.label)
Lead(s) == \E p \in WholePlaces(Appositive(text, cand), s, cand.label) :
              p + Len(s.words) = Len(Appositive(text, cand))

\* A signature is read as a whole: "the company registered" is no "registered",
\* and no shorter signature inside a longer one decides, on either side of the
\* candidate.  Who is personal data of a type has a whole signature of that type
\* in his own part of the sentence or right before its comma, and no whole one of
\* another type stands nearer (validate.go:9-14, 142).
NearestWholeDecides ==
    Decided /\ verdict # "none" =>
        \E s \in Range(SignaturesFor(cand.label)) :
            /\ s.type = verdict
            /\ \/ cand.label = "PER" /\ Lead(s)
               \/ \E d \in WholeAt(s) : \A l \in Range(SignaturesFor(cand.label)) :
                     l.type # verdict => \A e \in WholeAt(l) : d <= e

\* His sentence or line, with the one before if that ends with a comma.
Sentence ==
    LET q == Back(text, cand.start, {"nl"})
        first == IF q > 0 /\ text[q] = "comma" THEN q ELSE cand.start
        from == Max({i \in 0 .. first : i = 0 \/ text[i] \in SentenceMarks})
    IN  Decide(Piece(text, from, SentenceEnd(text, cand.end)),
               [cand EXCEPT !.start = @ - from, !.end = @ - from])

\* What other sentences and lines say about other people changes nothing: the
\* candidate would be judged the same with his own alone, and the line before
\* it if that ends with the comma of "the borrower," (validate.go:333-355), but
\* for the two contexts that reach further (validate.go:180-194, 196-238).
OtherSentencesDoNotMatter ==
    Decided => \/ verdict = Sentence
               \/ IsPublicAuthorValue(text, cand) \/ BirthplaceOfClient(text, cand)

=============================================================================
