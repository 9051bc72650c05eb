------------------------------ MODULE MC_Text ------------------------------
(***************************************************************************)
(* What happens to one text, part by part: the code below has no state     *)
(* that outlives a call, so each part is checked alone, on inputs of its   *)
(* own, and a behaviour is one call of one part.                           *)
(*    detect     the detectors of one text and Merge     (Detection)       *)
(*    roundtrip  masking, an LLM, restoring              (RoundTrip)       *)
(*    long       a long text in chunks through the model (LongText)        *)
(*    fields     a labelled-field detector               (Fields)          *)
(*    validate   a candidate of the model in its context (Validator)       *)
(***************************************************************************)
EXTENDS Detection, RoundTrip, LongText, Fields, Validator, LongTexts

VARIABLE part

\* The variables of each part but for the text.
ofRoundTrip == <<phase, fragments, mode, masked, edited, wanted, edits, restored>>
ofLongText == <<start, chunks, splitting, modelVars>>
ofFields == <<detector, from, fields, pass>>
ofValidator == <<cand, verdict>>
vars == <<part, text, detectionVars, ofRoundTrip, ofLongText, ofFields, ofValidator>>

\* Texts of three different atoms, one of which may be a token of an earlier
\* operation.
Atoms == {Word("w"), Secret("fio", "a"), Secret("tel", "b"), Token("fio", 0, "n0")}
Distinct(s) == \A i, j \in DOMAIN s : i # j => s[i] # s[j]
SomeTexts == {s \in [1 .. 3 -> Atoms] : Distinct(s)}

\* What the texts of each detector are made of, and how long they are.
FieldWords ==
    [full_name |-> {"label", "Ann", "holder", "as", "colon", "comma", "nl"},
     card_holder |-> {"label", "Ann", "num", "colon", "comma"},
     citizenship |-> {"label", "Ann", "owner", "bad", "colon", "comma", "nl"},
     birth_place |-> {"born", "Ann", "owner", "public", "1812", "client_fio", "date",
                      "comma", "dot"},
     address |-> {"label", "client_address", "Ann", "public", "phone", "and_phone", "mail",
                  "bad", "not", "ip", "colon", "comma", "semi"},
     passport_issuer |-> {"label", "issued", "issued_by", "passport", "Mvd", "dept", "date",
                          "comma"},
     birth_date |-> {"label", "born", "date", "public", "owner", "bar", "nl"},
     passport_issue_date |-> {"label", "issued", "passport", "date", "public", "dot"},
     cvv |-> {"label", "num", "public", "long", "colon", "dot"},
     pin |-> {"label", "num", "long", "colon"}]
FieldLengths == [d \in DOMAIN FieldWords |-> IF d = "address" THEN 4 ELSE 5]

\* What stands around a candidate of each label, and the candidates.
Neighbours ==
    [PER |-> {"client", "name", "holder", "poet", "king", "not", "author_key",
              "colon", "brace", "comma", "dot", "nl"},
     LOC |-> {"born", "registered", "company", "office", "poet", "1812", "not",
              "client_fio", "Ann", "at", "comma", "dot", "nl"},
     ORG |-> {"issued", "not", "w", "comma", "dot", "nl"}]
Candidates ==
    [PER |-> {<<"Ann">>, <<"client", "Ann">>}, LOC |-> {<<"Spb">>}, ORG |-> {<<"Mvd">>}]

TypesHere == {"fio", "tel"}
ModesHere == {"token", "mask"}

\* A part that is not the one of this behaviour.
NoDetection ==
    running = 1 /\ found = <<>> /\ preferred = <<>> /\ status = "running" /\ out = <<>>
NoRoundTrip ==
    /\ phase = "new" /\ fragments = <<>> /\ mode = "token" /\ masked = Failure
    /\ edited = <<>> /\ wanted = <<>> /\ edits = 0 /\ restored = Failure
NoLongText ==
    /\ start = 0 /\ chunks = <<>> /\ splitting = TRUE
    /\ name = <<>> /\ sent = 0 /\ candidates = <<>> /\ step = "failed" /\ result = <<>>
NoFields == detector = "pin" /\ from = 0 /\ fields = <<>> /\ pass = "first"
NoCandidate == cand = [label |-> "PER", start |-> 0, end |-> 0] /\ verdict = "new"

Init ==
    \/ /\ part = "detect" /\ DetectionInit /\ text = <<>>
       /\ NoRoundTrip /\ NoLongText /\ NoFields /\ NoCandidate
    \/ /\ part = "roundtrip" /\ RoundTripInit
       /\ NoDetection /\ NoLongText /\ NoFields /\ NoCandidate
    \/ /\ part = "long" /\ LongTextInit
       /\ NoDetection /\ NoRoundTrip /\ NoFields /\ NoCandidate
    \/ /\ part = "fields" /\ FieldsInit
       /\ NoDetection /\ NoRoundTrip /\ NoLongText /\ NoCandidate
    \/ /\ part = "validate" /\ ValidatorInit
       /\ NoDetection /\ NoRoundTrip /\ NoLongText /\ NoFields

Next ==
    \/ /\ part = "detect" /\ DetectionNext
       /\ UNCHANGED <<part, text, ofRoundTrip, ofLongText, ofFields, ofValidator>>
    \/ /\ part = "roundtrip" /\ RoundTripNext
       /\ UNCHANGED <<part, detectionVars, ofLongText, ofFields, ofValidator>>
    \/ /\ part = "long" /\ LongTextNext
       /\ UNCHANGED <<part, detectionVars, ofRoundTrip, ofFields, ofValidator>>
    \/ /\ part = "fields" /\ Search
       /\ UNCHANGED <<part, detectionVars, ofRoundTrip, ofLongText, ofValidator>>
    \/ /\ part = "validate" /\ ValidatorNext
       /\ UNCHANGED <<part, detectionVars, ofRoundTrip, ofLongText, ofFields>>

Spec == Init /\ [][Next]_vars
=============================================================================
