------------------------------ MODULE Analysers ------------------------------
(***************************************************************************)
(* The loops of the analysers of an audit over what they find: where each  *)
(* stops at its limit, and whether its run tells of it.  A file is         *)
(* [parsed, list, deeper]: could it be parsed, what there is to find in    *)
(* it, in the order of the visit, and what lies behind as many nodes as    *)
(* the visit of the SaaS rules goes to.  An analyser answers with the      *)
(* status of its run and the list of its findings.                         *)
(***************************************************************************)
EXTENDS Naturals, Sequences, FiniteSets, SequencesExt

CONSTANTS
    MaxFindings,        \* findings of a run
    MaxSaasFiles,       \* files that are read for the SaaS rules
    MaxDocuments        \* documents of an imported result of Axe

ASSUME AnalyserLimits ==
    /\ MaxFindings \in Nat \ {0}
    /\ MaxSaasFiles \in Nat \ {0} /\ MaxDocuments \in Nat \ {0}

Unfound == [status |-> "skipped", list |-> <<>>]

Lists(files) == [f \in DOMAIN files |-> files[f].list]

FirstOf(s, n) == SubSeq(s, 1, IF n < Len(s) THEN n ELSE Len(s))

Bounded(s) == FirstOf(s, MaxFindings)

(* Whole lists are added until the limit is reached.                       *)
AddUnlessFull(found, list) == IF Len(found) >= MaxFindings THEN found ELSE found \o list

UntilFull(lists) == FoldLeft(AddUnlessFull, <<>>, lists)

Outcome(partial, list) ==
    [status |-> IF partial THEN "partial" ELSE "completed", list |-> list]

-----------------------------------------------------------------------------
(* scanPatterns and scanPosture, and the nodes that run them.              *)
Patterns(files, truncated) ==
    LET found == Bounded(FlattenSeq(Lists(files)))
    IN  Outcome(Len(found) >= MaxFindings \/ truncated, found)

Posture(candidates, truncated) ==
    LET found == Bounded(candidates)
    IN  Outcome(Len(found) >= MaxFindings \/ truncated, found)

(* scanAstSecurity: candidates of entry points, of the functions of files, *)
(* of flows across files, and of destinations that are configured.         *)
AstSecurity(entrypoints, files, flows, destinations, profile) ==
    LET found == UntilFull(entrypoints) \o Bounded(UntilFull(Lists(files)))
                    \o Bounded(flows) \o destinations
    IN  IF profile = "unsupported" THEN Unfound
        ELSE Outcome(profile = "partial" \/ Len(found) >= MaxFindings, Bounded(found))

(* Mutant: a list that is as long as the limit was not cut.                *)
SaasSecurityAtLimit(files, profile, truncated) ==
    LET read == FirstOf(files, MaxSaasFiles)
        found == Bounded(FlattenSeq([f \in DOMAIN read |-> Bounded(read[f].list)]))
    IN  IF profile = "unsupported" THEN Unfound
        ELSE Outcome(profile = "partial" \/ truncated \/ Len(read) >= MaxSaasFiles
                        \/ Len(found) > MaxFindings, found)

(* scanSaasSecurity.  What lies deeper in a file is left out.              *)
SaasSecurity(files, profile, truncated) ==
    LET read == FirstOf(files, MaxSaasFiles)
        found == Bounded(FlattenSeq([f \in DOMAIN read |-> Bounded(read[f].list)]))
    IN  IF profile = "unsupported" THEN Unfound
        ELSE Outcome(profile = "partial" \/ truncated \/ Len(read) >= MaxSaasFiles
                        \/ Len(found) >= MaxFindings, found)

(* scanReactSecurity: candidates of the files of client components, and    *)
(* the properties that other files pass to them, element by element.       *)
ReactSecurity(jsx, files, elements, truncated) ==
    LET found == FlattenSeq([f \in DOMAIN files |-> Bounded(files[f].list)])
                    \o UntilFull(elements)
    IN  IF ~jsx THEN Unfound
        ELSE Outcome(truncated \/ Len(found) > MaxFindings, Bounded(found))

(* scanNextSecurity: candidates of entry points, and of nodes of files.    *)
NextSecurity(entrypoints, nodes, next, profile, truncated) ==
    LET found == UntilFull(entrypoints) \o UntilFull(nodes)
    IN  IF ~next THEN Unfound
        ELSE Outcome(profile = "partial" \/ truncated \/ Len(found) > MaxFindings,
                     Bounded(found))

(* The loop of the accessibility, privacy and reliability reviews: a file  *)
(* that cannot be parsed is counted, and the loop ends at the limit.       *)
Review(files, cut) ==
    LET found == Bounded(FlattenSeq(
                    [f \in DOMAIN files |-> IF files[f].parsed THEN files[f].list ELSE <<>>]))
        unparsed == \E f \in DOMAIN files : ~files[f].parsed
    IN  IF files = <<>> THEN Unfound
        ELSE Outcome(cut \/ unparsed \/ Len(found) >= MaxFindings, found)

AccessibilityStatic(files, truncated) == Review(files, truncated)
PrivacyStatic(files, truncated) == Review(files, truncated)
ReliabilityStatic(files, profile, truncated) == Review(files, truncated \/ profile # "complete")

(* importAxeResults: of each document, [valid, entries], as many entries   *)
(* are looked at as there is room for, and those that are no violation are *)
(* passed over.  One document that is not what Axe writes fails the run.   *)
(* Without documents there is no artifact.                                 *)
AddViolation(found, entry) == IF entry.violation THEN Append(found, entry.finding) ELSE found

Import(found, document) ==
    FoldLeft(AddViolation, found, FirstOf(document.entries, MaxFindings - Len(found)))

AxeResults(documents) ==
    LET read == FirstOf(documents, MaxDocuments)
        found == FoldLeft(Import, <<>>, read)
    IN  IF documents = <<>> THEN Unfound
        ELSE IF \E d \in DOMAIN read : ~read[d].valid THEN [status |-> "failed", list |-> <<>>]
        ELSE Outcome(Len(found) >= MaxFindings \/ Len(read) >= MaxDocuments, found)

(* scanWebPosture: at most five for each root of a web application.        *)
WebPosture(roots, truncated) ==
    IF roots = <<>> THEN Unfound ELSE Outcome(truncated, FlattenSeq(roots))

(* scanSupplyChain, in the order of the first of equal candidates.  Its    *)
(* own limit is higher.                                                    *)
SupplyChain(candidates, manifests, truncated) ==
    LET found == Bounded(candidates)
    IN  IF Len(candidates) > Len(found) \/ truncated THEN Outcome(TRUE, found)
        ELSE IF manifests THEN Outcome(FALSE, found) ELSE [Unfound EXCEPT !.list = found]

(* scanEnvironmentContract, of the names that lack a declaration.  Only    *)
(* what it reads is counted when it says whether it is partial.            *)
EnvironmentContract(names, status) ==
    [status |-> status, list |-> Bounded(names)]
=============================================================================
