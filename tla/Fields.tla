------------------------------- MODULE Fields -------------------------------
(***************************************************************************)
(* The rule detectors that look for labelled fields: the loops of          *)
(* internal/detection/{full_name,card_holder,citizenship,birth_place,      *)
(* address,passport_issuer,birth_date,passport_issue_date,cvv,pin}.go and  *)
(* the scanners of labeled.go.  FindField is one iteration of a loop, the  *)
(* second pass of three of the detectors is one step.                      *)
(*                                                                         *)
(* A text is a sequence of words and marks; offsets count from 0.          *)
(*    "label" "born" "issued"  labels; "born" and "issued" are verbs       *)
(*    "issued_by" "client_address"  the labels of an authority with the    *)
(*                    verb in them and of an address that can be negated   *)
(*    "owner" "as"    whose field it is; how the field is filled in        *)
(*    "date" "num"    a valid date; digits of a length that fits           *)
(*    "public"        what shows that nobody's field is meant: the role of *)
(*                    a public person, an office, goods, an example        *)
(*    "phone"         the label of another field, "and_phone" with "and"   *)
(*    "nl" "colon" "comma" "semi" "dot" "bar"  marks; "nl" ends a line,    *)
(*                    "semi" is the semicolon                              *)
(* Other words are values: "Ann" a name, "Mvd" and "dept" authorities,     *)
(* "bad" none at all ("unknown").  The windows of 32 to 256 bytes are      *)
(* wider than the texts of the runs.  Left out: "client_name", which is a  *)
(* label only as a key of JSON, and dates in words (scanTextDate).         *)
(***************************************************************************)
EXTENDS Fragments, FiniteSets, OneText

CONSTANTS Alphabet, Lengths,   \* of each detector: its texts in the runs
          NameWords,           \* bound: 4 in the code
          TrimReach            \* in atoms; 16 bytes

ASSUME FieldsAssumption ==
    /\ DOMAIN Alphabet \subseteq
          {"full_name", "card_holder", "citizenship", "birth_place", "address",
           "passport_issuer", "birth_date", "passport_issue_date", "cvv", "pin"}
    /\ \A d \in DOMAIN Alphabet : Lengths[d] \in Nat
    /\ {NameWords, TrimReach} \subseteq Nat

VARIABLES detector,
          from,        \* where the loop looks for the next label
          fields,      \* the fragments so far
          pass         \* "first", "second" or "done"

fieldsVars == <<text, detector, from, fields, pass>>

Marks == {"colon", "comma", "semi", "dot", "nl", "bar"}
Separators == {"colon", "comma", "semi"}      \* of skipSeparators
Ends == {"comma", "semi", "dot", "nl"}        \* of isValueSeparator
Numbers == {"date", "num", "long"}
Labels == CASE detector \in {"birth_date", "birth_place"} -> {"label", "born"}
            [] detector = "passport_issue_date" -> {"label", "issued"}
            [] detector = "passport_issuer" -> {"label", "issued_by"}
            [] detector = "address" -> {"label", "client_address"}
            [] OTHER -> {"label"}

Part(a, b) == SubSeq(text, a + 1, b)
Has(a, b, words) == Range(Part(a, b)) \cap words # {}
At(p, word) == p < Len(text) /\ text[p + 1] = word
\* The first offset from p on where one of the words stands, or the end.
Until(p, words) == Min({i \in p .. Len(text) : i = Len(text) \/ text[i + 1] \in words})
Since(p, words) == Max({i \in 0 .. p : i = 0 \/ text[i] \in words})

Skip(p) == Min({i \in p .. Len(text) : i = Len(text) \/ text[i + 1] \notin Separators})
SkipWord(p, word) == IF At(p, word) THEN Skip(p + 1) ELSE p
\* The check for an office does not pass over commas.
SkipColon(p) == Until(p, (Range(text) \cup {"nl"}) \ {"colon"})
-----------------------------------------------------------------------------
\* Contexts that reject the label that ends at p; contactClauseBefore and the
\* windows of the detectors end at the same marks.
Clause(p) == Since(p, {"dot", "semi", "nl"})
Historical(p) == Has(0, p, {"1812"})
NoLetters == Marks \cup Numbers \cup {"1812"}
BornIsClient(p) ==
    LET born == Max({i \in 1 .. p : text[i] = "born"}) - 1
        name == Max({i \in 0 .. born : i = 0 \/ text[i] \notin NoLetters})
        field == Until(p, {"client_fio"})
    IN  /\ Has(0, p, {"born"})
        /\ name > 0 /\ text[name] = "Ann" /\ ~Has(0, born, {"owner", "client_fio"})
        /\ Has(field, Len(text), {"Ann"})
Rejected(p) ==
    CASE detector = "birth_date" -> Has(Clause(p), p, {"public"}) \/ Historical(p)
      [] detector = "birth_place" -> \/ Has(Clause(p), p, {"public"}) \/ Historical(p)
                                     \/ BornIsClient(p) \/ At(Skip(p), "public")
      [] detector = "address" -> \/ Has(0, p, {"ip"})
                                 \/ p > 1 /\ text[p] = "client_address" /\ text[p - 1] = "not"
                                 \/ Has(Since(p, {"dot", "semi", "nl", "comma"}), p, {"public"})
                                 \/ At(SkipColon(p), "public")
      [] detector = "passport_issue_date" -> Has(Clause(p), p, {"public"})
      [] OTHER -> FALSE

\* fullNameValueStart: "label of the applicant: value".
NameStart(p) ==
    LET s == Skip(p)
        mark == Until(s, Ends \cup {"colon"})
    IN  IF ~Has(p, s, {"colon"}) /\ At(mark, "colon") THEN Skip(mark) ELSE s
\* "issued by" and "issued by passport" are both labels.
IssuerLabelEnd(p) == IF text[p] = "issued_by" /\ At(p, "passport") THEN p + 1 ELSE p
ValueStart(p) ==
    CASE detector = "full_name" -> SkipWord(NameStart(p), "as")
      [] detector \in {"citizenship", "birth_place", "address", "birth_date"} ->
            SkipWord(Skip(p), "owner")
      [] detector = "passport_issuer" -> SkipWord(Skip(IssuerLabelEnd(p)), "as")
      [] OTHER -> Skip(p)
-----------------------------------------------------------------------------
\* Where a value that starts at s ends; s if there is none.
WordsEnd(s) == Min({s + NameWords, Until(s, Marks \cup Numbers)})
TextEnd(s) == Until(s, Ends)

\* A comma ends an address only before another field or an office.
FieldAhead(p) ==
    \/ At(p, "phone") \/ At(p, "public")
    \/ LET mark == Until(p, Marks \cup Numbers) IN mark > p /\ At(mark, "colon")
AddressEnd(s) ==
    Min({i \in s .. Len(text) :
            \/ i = Len(text) \/ text[i + 1] \in {"nl", "semi", "dot", "date", "and_phone"}
            \/ text[i + 1] = "comma" /\ FieldAhead(i + 1)})

\* trimIssuerBeforeDate: up to a date that is near, be it behind the value.
IssuerEndFar(s) ==
    IF Until(s, Ends) > s /\ Until(s, {"date"}) < Len(text) THEN Until(s, {"date"})
    ELSE Until(s, Ends \cup {"date"})
IssuerEnd(s) ==
    LET e == Until(s, Ends \cup {"date"})
        date == Until(s, {"date"})
    IN  IF e > s /\ date < Min({e + TrimReach, Len(text)}) THEN date ELSE e

NearbyDate(s) ==
    LET d == Until(s, {"date", "semi", "nl"}) IN IF At(d, "date") THEN d ELSE Len(text)
Is(s, word) == IF At(s, word) THEN s + 1 ELSE s
ValueEnd(s) ==
    CASE detector \in {"full_name", "card_holder"} -> WordsEnd(s)
      [] detector = "citizenship" -> TextEnd(s)
      [] detector \in {"birth_place", "address"} -> AddressEnd(s)
      [] detector = "passport_issuer" -> IssuerEnd(s)
      [] detector \in {"birth_date", "passport_issue_date"} -> Is(s, "date")
      [] detector \in {"cvv", "pin"} -> Is(s, "num")

Plausible(p, s, e) ==
    CASE detector = "full_name" -> ~Has(p, s, {"holder"}) /\ ~At(s, "holder")
      [] detector = "citizenship" -> ~At(s, "bad") /\ e - s <= NameWords
      [] detector = "birth_place" -> ~At(s, "date")
      [] detector = "address" -> ~At(s, "and_phone") /\ ~Has(s, e, {"bad"})
      [] detector = "passport_issuer" -> ~At(s, "bad")
      [] detector = "cvv" -> ~Has(Clause(s), TextEnd(e), {"public"})
      [] OTHER -> TRUE

Value(s, e) == [start |-> s, end |-> e]
\* The value of the label that ends at p, as a list of at most one.
FieldAt(p) ==
    LET s == ValueStart(p)
        e == ValueEnd(s)
        near == NearbyDate(s)
    IN  IF Rejected(p) \/ (detector = "address" /\ At(s, "mail")) THEN <<>>
        ELSE IF e > s THEN IF Plausible(p, s, e) THEN <<Value(s, e)>> ELSE <<>>
        ELSE IF detector = "birth_date" /\ text[p] = "born" /\ near < Len(text)
        THEN <<Value(near, near + 1)>> ELSE <<>>
-----------------------------------------------------------------------------
FieldsInit ==
    /\ detector \in DOMAIN Alphabet
    /\ text \in [1 .. Lengths[detector] -> Alphabet[detector]]
    /\ from = 0 /\ fields = <<>> /\ pass = "first"

\* The loop goes on behind a value, and right behind a label without one.
ResumeBehindValue(p, found) == ValueEnd(ValueStart(p))
Resume(p, found) == IF found = <<>> THEN p ELSE found[1].end
FindField ==
    LET at == Until(from, Labels) IN
    /\ pass = "first" /\ at < Len(text)
    /\ from' = Resume(at + 1, FieldAt(at + 1))
    /\ fields' = fields \o FieldAt(at + 1)
    /\ UNCHANGED <<text, detector, pass>>

NoMoreLabels ==
    /\ pass = "first" /\ Until(from, Labels) = Len(text)
    /\ pass' = IF detector \in {"birth_date", "passport_issue_date", "passport_issuer"}
               THEN "second" ELSE "done"
    /\ UNCHANGED <<text, detector, from, fields>>

\* A date in the last column of a line about a client.
InClientRow(i) ==
    LET row == Since(i, {"nl"})
        columns == {j \in row + 1 .. i : text[j] = "bar"}
    IN  /\ i > 0 /\ text[i] = "bar" /\ Cardinality(columns) > 1
        /\ Has(row, i, {"owner", "client_fio"})
        /\ \/ i + 1 = Len(text) \/ text[i + 2] \in {"bar", "nl", "dot"}
           \/ text[i + 2] \notin Marks
\* An authority after "issued", with or without the passport and the date before it.
ProseStart(i) == SkipWord(SkipWord(Skip(i + 1), "passport"), "date")
IssuerAfter(i) ==
    LET s == ProseStart(i)
        e == IssuerEnd(s)
        known == Has(s, e, {"Mvd"}) \/ (Has(s, e, {"dept"}) /\ Has(Clause(i), i, {"passport"}))
    IN  (At(i, "issued") \/ At(i, "issued_by")) /\ e > s /\ known
FieldInProse(i) ==
    CASE detector = "birth_date" ->
            IF At(i, "date") /\ InClientRow(i) THEN <<Value(i, i + 1)>> ELSE <<>>
      [] detector = "passport_issue_date" ->
            IF At(i, "date") /\ Has(Clause(i), i, {"passport"}) /\ Has(Clause(i), i, {"issued"})
            THEN <<Value(i, i + 1)>> ELSE <<>>
      [] detector = "passport_issuer" ->
            IF IssuerAfter(i) THEN <<Value(ProseStart(i), IssuerEnd(ProseStart(i)))>> ELSE <<>>
FieldsInProse == FlattenSeq([i \in DOMAIN text |-> FieldInProse(i - 1)])
SecondPass ==
    /\ pass = "second"
    /\ LET all == fields \o FieldsInProse
       IN  fields' = IF detector = "birth_date" THEN all ELSE Merge(all)
    /\ pass' = "done"
    /\ UNCHANGED <<text, detector, from>>

Search == FindField \/ NoMoreLabels \/ SecondPass

FieldsSpec == FieldsInit /\ [][Search]_fieldsVars
-----------------------------------------------------------------------------
\* No field is passed over: whatever stood before it, was rejected or had no
\* value, a label with a value of its own is found, unless it stands inside a
\* value itself (labeled.go:12-37 and the loops of the detectors).
NoFieldIsMissed ==
    pass = "done" =>
        \A p \in {i \in DOMAIN text : text[i] \in Labels} : \A v \in Range(FieldAt(p)) :
            \E j \in DOMAIN fields :
                Overlap(fields[j], v) \/ (fields[j].start < p /\ p <= fields[j].end)

\* What a value of the detector may hold, from s to e.
IsClean(s, e) ==
    CASE detector \in {"full_name", "card_holder"} ->
            e - s <= NameWords /\ ~Has(s, e, Marks \cup Numbers)
      [] detector = "citizenship" -> ~Has(s, e, Ends)
      [] detector \in {"birth_place", "address"} ->
            /\ ~Has(s, e, {"nl", "semi", "dot", "date", "and_phone"})
            /\ \A i \in s + 1 .. e : text[i] = "comma" => ~FieldAhead(i)
      [] detector = "passport_issuer" ->
            /\ ~Has(s, e, {"date"})
            /\ Has(s, e, Ends) => At(e, "date") /\ e < Until(s, Ends) + TrimReach
      [] detector \in {"birth_date", "passport_issue_date"} -> e = s + 1 /\ text[e] = "date"
      [] detector \in {"cvv", "pin"} -> e = s + 1 /\ text[e] = "num"

\* A value is not empty and begins with a word, whichever pass found it and
\* whatever Merge made of it.  A name is at most NameWords words, with no mark
\* or number among them; a citizenship does not run over a comma, a full stop or
\* a line end; an address or a birthplace does not run over the end of a line or
\* sentence, a date or "and the phone", and over a comma only if no other field
\* and no office follows it.  The name of an authority does not run over a date;
\* it runs over a comma, a full stop or a line end only if a date stands right
\* behind it, which is near the first of them (passport_issuer.go:80-101).
ValuesAreClean ==
    \A j \in DOMAIN fields :
        LET f == fields[j] IN
        /\ f.start < f.end /\ f.end <= Len(text)
        /\ text[f.start + 1] \notin Ends \cup {"colon"}
        /\ IsClean(f.start, f.end)

=============================================================================
