----------------------------- MODULE LongTexts -----------------------------
\* The long texts of the runs: NRunes characters, at most two of them separators
\* and one of a single byte; the others have two, so that offsets fall inside
\* characters.
EXTENDS Integers, Sequences, FiniteSets, SequencesExt

CONSTANT NRunes

Bytes(rune) == CASE rune = "sep" -> <<"sep">> [] rune = "one" -> <<"lead">>
                 [] OTHER -> <<"lead", "cont">>
AtMost(n, runes, r) == Cardinality({i \in DOMAIN runes : runes[i] = r}) <= n
LongOnes ==
    {FlattenSeq([i \in 1 .. NRunes |-> Bytes(runes[i])]) :
        runes \in {r \in [1 .. NRunes -> {"sep", "one", "two"}] :
                      AtMost(2, r, "sep") /\ AtMost(1, r, "one")}}
=============================================================================
