------------------------------ MODULE Masking ------------------------------
(***************************************************************************)
(* internal/masking/masking.go, and the parts of internal/policy that      *)
(* decide what is masked: pure operators.                                  *)
(*                                                                         *)
(* A text is a sequence of atoms; a fragment [start, end] covers the atoms *)
(* start + 1 .. end.  What the code tells apart in a string is             *)
(*    Word(w)         text without personal data and without tokens        *)
(*    Secret(t, v)    personal data of type t                              *)
(*    Token(t, i, n)  a whole token, tokenFor(t, i, nonce)                 *)
(*    Stars           the mask of the mode "mask"                          *)
(*    Cut             a token prefix whose suffix is missing: the code     *)
(*                    fails there, or reads on to the end of a later token *)
(*                    and fails because no mapping has that name.          *)
(***************************************************************************)
EXTENDS Fragments

Word(w) == <<"word", w>>
Secret(t, v) == <<"secret", t, v>>
Token(t, i, n) == <<"token", t, i, n>>
Stars == <<"stars">>
Cut == <<"cut">>

IsToken(a) == a[1] \in {"token", "cut"}
IsSecret(a) == a[1] = "secret"

\* The result of a call that fails.
Failure == [ok |-> FALSE]
Success(text) == [ok |-> TRUE, text |-> text]

Slice(text, from, to) == SubSeq(text, from + 1, to)

\* Fragments of types the policy lists; an empty list means every type.
FilterByPolicy(fragments, types) ==
    FlattenSeq([i \in DOMAIN fragments |->
        IF types = {} \/ fragments[i].type \in types THEN <<fragments[i]>> ELSE <<>>])

\* The token of the i-th fragment; i counts from 0.
TokenFor(f, i, nonce) == Token(f.type, i, nonce)

\* Where the gap before the i-th fragment begins.
PrevStart(fs, i) == IF i = 1 THEN 0 ELSE fs[i - 1].start
PrevEnd(fs, i) == IF i = 1 THEN 0 ELSE fs[i - 1].end

InBounds(text, fs) ==
    \A i \in DOMAIN fs :
        PrevEnd(fs, i) <= fs[i].start /\ fs[i].start <= fs[i].end /\ fs[i].end <= Len(text)

\* The masked text and the mappings for Restore, a set of pairs: two fragments
\* never get the same token.
MaskWith(text, fs, mode, nonce) ==
    LET Mark(i) == IF mode = "token" THEN TokenFor(fs[i], i - 1, nonce) ELSE Stars
        Gap(i) == Slice(text, PrevEnd(fs, i), fs[i].start)
        Rest == Slice(text, PrevEnd(fs, Len(fs) + 1), Len(text))
    IN  [ok |-> TRUE,
         text |-> FlattenSeq([i \in DOMAIN fs |-> Append(Gap(i), Mark(i))]) \o Rest,
         mappings |-> IF mode = "token"
                      THEN {<<Mark(i), Slice(text, fs[i].start, fs[i].end)>> : i \in DOMAIN fs}
                      ELSE {}]

Mask(text, fragments, mode, nonce) ==
    IF fragments = <<>>
    THEN [ok |-> TRUE, text |-> text, mappings |-> {}]
    ELSE LET fs == Merge(fragments) IN
         IF InBounds(text, fs) THEN MaskWith(text, fs, mode, nonce) ELSE Failure

\* Restore(text, mappings): every token is replaced by what it stands for; an
\* unknown or a cut token is an error, unless there are no mappings at all.
Known(a, mappings) == \E m \in mappings : m[1] = a
MappedTo(a, mappings) == (CHOOSE m \in mappings : m[1] = a)[2]

RestoreLeavesUnknown(text, mappings) ==
    Success(FlattenSeq([i \in DOMAIN text |->
        IF Known(text[i], mappings) THEN MappedTo(text[i], mappings) ELSE <<text[i]>>]))
Restore(text, mappings) ==
    IF mappings = {} THEN Success(text)
    ELSE IF \E i \in DOMAIN text : IsToken(text[i]) /\ ~Known(text[i], mappings) THEN Failure
    ELSE Success(FlattenSeq([i \in DOMAIN text |->
            IF IsToken(text[i]) THEN MappedTo(text[i], mappings) ELSE <<text[i]>>]))

=============================================================================
