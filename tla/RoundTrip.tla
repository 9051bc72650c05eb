----------------------------- MODULE RoundTrip -----------------------------
(***************************************************************************)
(* One masking operation and what becomes of its result: a text is masked  *)
(* (masking.go:63-101), the masked text travels through an LLM that may    *)
(* change it, and comes back to be restored (masking.go:105-137).          *)
(*                                                                         *)
(* The fragments are any list, in order or not, overlapping or not: Mask   *)
(* merges them itself.  The LLM drops, repeats and inserts atoms and cuts  *)
(* the end off a token.                                                    *)
(***************************************************************************)
EXTENDS Masking, OneText

CONSTANTS MaskTexts,    \* the texts to be masked
          MaskTypes, MaskModes,
          MaxFragments, \* bound: fragments
          MaxEdits      \* bound: edits

\* A text is a finite sequence of atoms.
ASSUME RoundTripAssumption ==
    /\ {MaxFragments, MaxEdits} \subseteq Nat
    /\ \A t \in MaskTexts : t \in Seq(Range(t))

VARIABLES phase,      \* "new", "masked", "restored"
          fragments, mode,
          masked,     \* the result of Mask
          edited,     \* the masked text after the edits
          wanted,     \* per atom of it, the piece of the text it stands for
          edits,      \* number of edits
          restored    \* the result of Restore

roundTripVars == <<phase, text, fragments, mode, masked, edited, wanted, edits, restored>>

Nonce == "n1"
SpansOf(t) == {s \in (0 .. Len(t)) \X (0 .. Len(t)) : s[1] < s[2]}
FragmentsIn(t) ==
    {[type |-> ty, start |-> s[1], end |-> s[2]] : ty \in MaskTypes, s \in SpansOf(t)}

RoundTripInit ==
    /\ phase = "new"
    /\ text \in MaskTexts
    /\ fragments \in UNION {[1 .. n -> FragmentsIn(text)] : n \in 0 .. MaxFragments}
    /\ mode \in MaskModes
    /\ masked = Failure
    /\ edited = <<>> /\ wanted = <<>>
    /\ edits = 0
    /\ restored = Failure

\* What the atoms of the masked text stand for: a fragment gives one atom, and
\* so does every atom that no fragment covers.
PieceAt(t, fs, i) ==
    IF \A k \in DOMAIN fs : i <= fs[k].start \/ fs[k].end < i
    THEN << <<t[i]>> >>
    ELSE LET f == fs[CHOOSE k \in DOMAIN fs : fs[k].start < i /\ i <= fs[k].end]
         IN  IF i = f.start + 1 THEN <<SubSeq(t, i, f.end)>> ELSE <<>>
Pieces(t, fs) == FlattenSeq([i \in DOMAIN t |-> PieceAt(t, fs, i)])

MaskText ==
    /\ phase = "new"
    /\ phase' = "masked"
    /\ masked' = Mask(text, fragments, mode, Nonce)
    /\ edited' = IF masked'.ok THEN masked'.text ELSE <<>>
    /\ wanted' = IF masked'.ok THEN Pieces(text, Merge(fragments)) ELSE <<>>
    /\ UNCHANGED <<text, fragments, mode, edits, restored>>

\* The LLM changes the masked text; wanted follows.
Edit ==
    /\ phase = "masked" /\ masked.ok /\ edits < MaxEdits
    /\ edits' = edits + 1
    /\ \/ \E i \in DOMAIN edited :
             /\ edited' = RemoveAt(edited, i)
             /\ wanted' = RemoveAt(wanted, i)
       \/ \E i \in DOMAIN edited, j \in 1 .. Len(edited) + 1 :
             /\ edited' = InsertAt(edited, j, edited[i])
             /\ wanted' = InsertAt(wanted, j, wanted[i])
       \/ \E j \in 1 .. Len(edited) + 1 :
             /\ edited' = InsertAt(edited, j, Word("llm"))
             /\ wanted' = InsertAt(wanted, j, <<Word("llm")>>)
       \/ \E i \in DOMAIN edited :
             /\ IsToken(edited[i])
             /\ edited' = ReplaceAt(edited, i, Cut)
             /\ UNCHANGED wanted
    /\ UNCHANGED <<phase, text, fragments, mode, masked, restored>>

RestoreText ==
    /\ phase = "masked" /\ masked.ok
    /\ phase' = "restored"
    /\ restored' = Restore(edited, masked.mappings)
    /\ UNCHANGED <<text, fragments, mode, masked, edited, wanted, edits>>

RoundTripNext == MaskText \/ Edit \/ RestoreText

RoundTripSpec == RoundTripInit /\ [][RoundTripNext]_roundTripVars
-----------------------------------------------------------------------------
HasToken(t) == \E i \in DOMAIN t : IsToken(t[i])

\* What was masked comes back byte for byte (masking.go:9-10), however the
\* fragments overlapped, and a text changed by the LLM token by token: whatever
\* was moved, repeated, inserted or lost, each token that is still whole becomes
\* exactly the piece of the original that it replaced, and nothing else changes.
\* A damaged token is an error; it never comes back half restored or passes for
\* plain text (masking.go:123-132), once there is anything to restore.  So is a
\* token of another operation that the text contained before it was masked.
RestoreIsExact ==
    phase = "restored" /\ masked.mappings # {} =>
        /\ restored.ok <=> \A i \in DOMAIN edited :
                               IsToken(edited[i]) => Known(edited[i], masked.mappings)
        /\ restored.ok /\ ~HasToken(text) => restored.text = FlattenSeq(wanted)

\* Exactly the longest fragments are hidden: an atom of the text survives in the
\* masked text if and only if no fragment that Merge kept covers it.
CoveredIsHidden ==
    phase = "masked" /\ masked.ok /\ edits = 0 =>
        \A i \in DOMAIN text :
            LET covered == \E f \in Range(Merge(fragments)) : f.start < i /\ i <= f.end
            IN  covered <=> text[i] \notin Range(masked.text)

=============================================================================
