----------------------------- MODULE Detection -----------------------------
(***************************************************************************)
(* One call of the production detector (internal/ner/detector.go:45-47):   *)
(* a PreferredDetector whose preferred side is the Composite of the rule   *)
(* detectors and whose fallback side is the NER detector.                  *)
(*                                                                         *)
(* The rule detectors run one after another, then the NER detector; any of *)
(* them may fail, and then the call fails (for a rule detector that is the *)
(* contract of detection.Detector, not something the present ones do).     *)
(* What a detector finds is left open: any list of Findings.  The text is  *)
(* present only through the offsets 0..TextLen.                            *)
(***************************************************************************)
EXTENDS Fragments

CONSTANTS NRules,     \* number of rule detectors, in the order of the registry
          TextLen,
          MaxFound    \* bound: fragments one detector returns

ASSUME DetectionAssumption == {NRules, TextLen, MaxFound} \subseteq Nat

VARIABLES running,    \* the detector that runs next; 1..NRules, then the NER one
          found,      \* what each detector that has returned found
          preferred,  \* the merged result of the Composite, then what joined it
          status,     \* "running", "done" or "failed"
          out         \* the fragments returned

detectionVars == <<running, found, preferred, status, out>>

NER == NRules + 1

\* The fragments detector d may report; the type says which detector it was.
Spans == {s \in (0 .. TextLen) \X (0 .. TextLen) : s[1] < s[2]}
FragmentsOf(d) == {[type |-> d, start |-> s[1], end |-> s[2]] : s \in Spans}
Findings(d) == UNION {[1 .. n -> FragmentsOf(d)] : n \in 0 .. MaxFound}

DetectionInit ==
    /\ running = 1
    /\ found = <<>>
    /\ preferred = <<>>
    /\ status = "running"
    /\ out = <<>>

\* A rule detector returns; after the last one the Composite merges.
RuleReturns ==
    /\ status = "running" /\ running <= NRules
    /\ \E fs \in Findings(running) : found' = Append(found, fs)
    /\ running' = running + 1
    /\ preferred' = IF running = NRules THEN Merge(FlattenSeq(found')) ELSE preferred
    /\ UNCHANGED <<status, out>>

\* The NER detector returns; its fragments join, and the whole is merged.
FallbackReturns ==
    /\ status = "running" /\ running = NER
    /\ \E fs \in Findings(NER) : found' = Append(found, fs)
    /\ out' = Merge(Join(preferred, found'[NER]))
    /\ status' = "done"
    /\ UNCHANGED <<running, preferred>>

\* A detector returns an error: so does the call, without fragments.
DetectorFails ==
    /\ status = "running"
    /\ status' = "failed"
    /\ UNCHANGED <<running, found, preferred, out>>

DetectionNext == RuleReturns \/ FallbackReturns \/ DetectorFails

DetectionSpec == DetectionInit /\ [][DetectionNext]_detectionVars
-----------------------------------------------------------------------------
Done == status = "done"
All == FlattenSeq(found)
ByRules == FlattenSeq(SubSeq(found, 1, NRules))

Outranks(g, f) ==
    \/ Size(g) > Size(f)
    \/ Size(g) = Size(f) /\ g.start < f.start
    \/ Size(g) = Size(f) /\ g.start = f.start /\ g.type <= f.type

\* Nothing that was found stays in the clear by accident, and no byte is replaced
\* twice.  Every detector has answered: none was passed over because it failed
\* (detector.go:36-37).  The fragments are in order and apart, so that a masker
\* may walk them from left to right (detector.go:9-10, 129-132).  What is not in
\* the result meets something that is and that comes before it in the order of
\* the merge: among the rule detectors the longer fragment wins, then the one
\* that starts earlier, then the earlier detector of the registry
\* (detector.go:114-116); an NER fragment may lose to any other.
NothingIsLost ==
    Done =>
        /\ Len(found) = NER
        /\ \A i \in 1 .. Len(out) - 1 : out[i].end <= out[i + 1].start
        /\ \A i \in DOMAIN All : \E j \in DOMAIN out :
              LET f == All[i] g == out[j] IN
              \/ f = g
              \/ Overlap(f, g) /\ (f.type = NER \/ (g.type # NER /\ Outranks(g, f)))

\* An NER span never displaces a structural one, however long it is: what the
\* Composite alone would have returned is all there (detector.go:48-50).
StructuralSurvives ==
    Done => Range(Merge(ByRules)) \subseteq Range(out)

=============================================================================
