---------------------------- MODULE AuditAnalysis ----------------------------
(***************************************************************************)
(* What the nodes of an audit do to its state                              *)
(* (src/engine/audit-pipeline.ts): the rounds of AuditPipeline's graph,    *)
(* each node reading what the rounds before it wrote, the normalisation of *)
(* the findings, and the checklist and the coverage of the report.         *)
(* DeterministicPipeline shows why a round is one step: the updates of its *)
(* nodes are merged in the order of registration, whatever order they come *)
(* in.                                                                     *)
(*                                                                         *)
(* What there is to find in a project is one of Cases, of the type below.  *)
(* Findings with equal rule, source and place have one fingerprint.        *)
(***************************************************************************)
EXTENDS AuditPipeline, Analysers, Checklist

CONSTANT Cases

FindingRecords ==
    [rule : STRING \ {"none"}, source : STRING, place : STRING, secret : BOOLEAN, verified : STRING]

Statuses == {"completed", "partial", "failed", "skipped"}

External == {"semgrep", "gitleaks", "http-probe", "osv", "dependency-cruiser", "jscpd",
    "quality-metrics", "knip"}

(* Lists of findings, lists of lists and lists of files, by their analysis. *)
RaisedRecords ==
    LET List == Seq(FindingRecords)
        Files == Seq([parsed : BOOLEAN, list : List, deeper : List])
        Documents ==
            Seq([valid : BOOLEAN, entries : Seq([violation : BOOLEAN, finding : FindingRecords])])
    IN  [patterns : Files, posture : List, boundaries : Seq(List), functions : Files,
         flows : List, destinations : List, saas : Files, clients : Files,
         elements : Seq(List), routes : Seq(List), nodes : Seq(List), markup : Files,
         axe : Documents, roots : Seq(List), personal : Files, calls : Files,
         manifests : List, names : List]

ASSUME CasesAssumption == \A c \in Cases :
    /\ c.raised \in RaisedRecords
    /\ c.contracts \in Statuses
    /\ c.outside \in [External -> [status : Statuses, list : Seq(FindingRecords)]]

VARIABLES
    case,               \* what there is to find, and the modes of the audit
    done,               \* nodes whose updates are merged
    seen,               \* [node -> the nodes whose updates it could read]
    profile,            \* status of the profile, "none" until it is mapped
    runs,               \* [scanner -> status of its run, "none" without]
    findings,
    normalizedFindings,
    checklist           \* of the report, NoChecklist until it is prepared

analysisVars == <<case, done, seen, profile, runs, findings, normalizedFindings, checklist>>

NoChecklist == [c \in {} |-> "UNVERIFIED"]

Scanners == {"builtin", "project-profile", "ast-security", "saas-security", "react-security",
    "next-security", "accessibility-static", "axe-results", "web-posture", "privacy-static",
    "reliability-static", "environment-contract", "test-evidence", "api-contract",
    "database-contract", "webhook-contract", "feature-flags", "dependency-cruiser", "jscpd",
    "supply-chain", "quality-metrics", "knip", "posture", "semgrep", "gitleaks", "http-probe",
    "osv"}

AnalysisInit ==
    /\ case \in Cases
    /\ done = {}
    /\ seen = [n \in {} |-> {}]
    /\ profile = "none"
    /\ runs = [s \in Scanners |-> "none"]
    /\ findings = {} /\ normalizedFindings = {}
    /\ checklist = NoChecklist

-----------------------------------------------------------------------------
(* The scanners of each node, and the modes of which one must be selected. *)
ScannersOf(node) ==
    CASE node = "patterns" -> {"builtin"}
      [] node = "project_profile" -> {"project-profile"}
      [] node = "ast_security" -> {"ast-security"}
      [] node = "saas_security" -> {"saas-security"}
      [] node = "react_security" -> {"react-security"}
      [] node = "next_security" -> {"next-security"}
      [] node = "accessibility_static" -> {"accessibility-static", "axe-results"}
      [] node = "web_posture" -> {"web-posture"}
      [] node = "privacy_static" -> {"privacy-static"}
      [] node = "reliability_static" -> {"reliability-static"}
      [] node = "environment_contract" -> {"environment-contract"}
      [] node = "test_evidence" -> {"test-evidence"}
      [] node = "api_contract" -> {"api-contract"}
      [] node = "database_contract" -> {"database-contract"}
      [] node = "webhook_contract" -> {"webhook-contract"}
      [] node = "feature_flags" -> {"feature-flags"}
      [] node = "architecture" -> {"dependency-cruiser"}
      [] node = "duplication" -> {"jscpd"}
      [] node = "supply_chain" -> {"supply-chain"}
      [] node = "code_quality" -> {"quality-metrics", "knip"}
      [] node = "posture" -> {"posture"}
      [] node = "semgrep" -> {"semgrep"}
      [] node = "gitleaks" -> {"gitleaks"}
      [] node = "http_probe" -> {"http-probe"}
      [] node = "inventory" -> {"osv"}
      [] OTHER -> {}

ModesOf(scanner) ==
    CASE scanner \in {"react-security", "next-security"} -> {"security", "next-react"}
      [] scanner = "saas-security" -> {"saas"}
      [] scanner \in {"accessibility-static", "axe-results"} -> {"accessibility-static"}
      [] scanner = "web-posture" -> {"web-posture"}
      [] scanner = "privacy-static" -> {"privacy"}
      [] scanner = "reliability-static" -> {"reliability"}
      [] scanner \in {"environment-contract", "test-evidence", "api-contract",
            "database-contract", "webhook-contract", "feature-flags"} -> {"release-readiness"}
      [] scanner \in {"dependency-cruiser", "jscpd", "quality-metrics", "knip"} ->
            {"maintainability"}
      [] scanner \in {"supply-chain", "posture"} -> {"security", "release-readiness"}
      [] OTHER -> {"security"}

(* resolveAuditModes, modeEnabled: no selection selects every mode.        *)
Enabled(scanner) ==
    scanner = "project-profile" \/ case.modes = {} \/ case.modes \cap ModesOf(scanner) # {}

(* The run and the findings of a scanner that is enabled.                  *)
Scan(s, mapped) ==
    LET r == case.raised
        cut == case.truncated
    IN  CASE s = "builtin" -> Patterns(r.patterns, cut)
          [] s = "posture" -> Posture(r.posture, cut)
          [] s = "ast-security" ->
                AstSecurity(r.boundaries, r.functions, r.flows, r.destinations, mapped)
          [] s = "saas-security" -> SaasSecurity(r.saas, mapped, cut)
          [] s = "react-security" -> ReactSecurity(case.jsx, r.clients, r.elements, cut)
          [] s = "next-security" -> NextSecurity(r.routes, r.nodes, case.next, mapped, cut)
          [] s = "accessibility-static" -> AccessibilityStatic(r.markup, cut)
          [] s = "axe-results" -> AxeResults(r.axe)
          [] s = "web-posture" -> WebPosture(r.roots, cut)
          [] s = "privacy-static" -> PrivacyStatic(r.personal, cut)
          [] s = "reliability-static" -> ReliabilityStatic(r.calls, mapped, cut)
          [] s = "supply-chain" -> SupplyChain(r.manifests, case.manifests, cut)
          [] s = "environment-contract" ->
                EnvironmentContract(r.names, case.contracts)
          [] s \in External -> case.outside[s]
          [] s = "project-profile" ->
                [status |-> CASE case.profile = "complete" -> "completed"
                              [] case.profile = "partial" -> "partial"
                              [] OTHER -> "skipped",
                 list |-> <<>>]
          [] OTHER -> [status |-> case.contracts, list |-> <<>>]

ScannedBy(nodes) == UNION {ScannersOf(n) : n \in nodes}

Answer(s) == IF Enabled(s) THEN Scan(s, profile) ELSE Unfound

-----------------------------------------------------------------------------
(* preferStructuralFindings.  The files that are mapped are case.mapped.   *)
Structural == {"AST004", "AST009", "NEXT004", "REACT001"}

(* Mutant: whatever a structural rule found at the place goes.             *)
PreferStructuralAnyRule(F) ==
    LET places == {f.place : f \in {g \in F : g.rule \in Structural}}
    IN  {f \in F : /\ ~(f.source \in {"builtin", "posture"} /\ f.place \in places)
                   /\ ~(f.rule = "004" /\ f.place \in case.mapped)}

PreferStructural(F) ==
    LET places == {f.place : f \in {g \in F : g.rule \in Structural}}
    IN  {f \in F : /\ ~(f.rule \in {"001", "005", "P003"} /\ f.place \in places)
                   /\ ~(f.rule = "004" /\ f.place \in case.mapped)}

(* reconcileHttpPosture.  Two rules of the probe may have one counterpart, *)
(* of which the one that is found first is its evidence.                   *)
Counterpart == [H001 |-> "P001", H002 |-> "P002", H003 |-> "P004", H004 |-> "P003",
                H005 |-> "NEXT005", H006 |-> "P005", H007 |-> "P005", H008 |-> "P002"]

CounterpartOf(f) == IF f.rule \in DOMAIN Counterpart THEN Counterpart[f.rule] ELSE "none"

Reconciliations(F) ==
    IF case.probe = NoProbe THEN {F}
    ELSE LET all == {f \in F : f.source = "http-probe"}
             rest == F \ all
             observed == {f \in all : f.place = "first response"}
             Matches(r) == {f \in observed : CounterpartOf(f) = r.rule}
             Verified(r) ==
                IF Matches(r) # {} THEN [r EXCEPT !.verified = "corroborated"]
                ELSE IF r.source = "posture" /\ \E h \in DOMAIN Counterpart : Counterpart[h] = r.rule
                THEN [r EXCEPT !.verified = "observed_safe"] ELSE r
             matched == {r \in rest : Matches(r) # {}}
         IN  {{Verified(r) : r \in rest} \cup (all \ consumed) :
                consumed \in {C \in SUBSET observed :
                    /\ \A r \in matched : \E f \in C : CounterpartOf(f) = r.rule
                    /\ \A f \in C : \E r \in matched : C \cap Matches(r) = {f}}}

-----------------------------------------------------------------------------
(* buildCoverage: the capabilities of a report; the contracts are none.    *)
Capabilities == Scanners \ {"environment-contract", "test-evidence", "api-contract",
    "database-contract", "webhook-contract", "feature-flags"}

Coverage(s) ==
    IF runs[s] = "completed" THEN "COMPLETE"
    ELSE IF runs[s] = "partial" THEN "PARTIAL"
    ELSE IF runs[s] = "failed" THEN "FAILED"
    ELSE IF runs[s] = "skipped" /\ ~Enabled(s) THEN "DISABLED"
    ELSE IF runs[s] = "none" THEN "NOT RUN"
    ELSE IF s = "axe-results" THEN "NOT PERFORMED"
    ELSE IF s \in {"dependency-cruiser", "jscpd", "knip"} THEN "NOT SUPPORTED"
    ELSE IF s \in {"semgrep", "gitleaks", "osv"} THEN "DISABLED" ELSE "NOT RUN"

(* prepare_report: the checklist of the findings that were normalised.     *)
ChecklistInput ==
    [profile |-> profile, next |-> case.next, tenants |-> case.tenants,
     contexts |-> case.contexts, findings |-> normalizedFindings, runs |-> runs,
     probe |-> case.probe, resolved |-> case.resolved]

-----------------------------------------------------------------------------
Starting == {n \in Range(NodeNames) \ done :
                {e[1] : e \in {f \in AuditEdges : f[2] = n}} \subseteq done}

AnalysisRound ==
    /\ Starting # {}
    /\ done' = done \cup Starting
    /\ seen' = [n \in DOMAIN seen \cup Starting |-> IF n \in Starting THEN done ELSE seen[n]]
    /\ profile' = IF "project_profile" \in Starting THEN case.profile ELSE profile
    /\ runs' = [s \in Scanners |->
                    IF s \in ScannedBy(Starting) THEN Answer(s).status ELSE runs[s]]
    /\ findings' = findings \cup UNION {ToSet(Answer(s).list) : s \in ScannedBy(Starting)}
    /\ IF "normalize" \in Starting
       THEN \E F \in Reconciliations(findings) : normalizedFindings' = PreferStructural(F)
       ELSE UNCHANGED normalizedFindings
    /\ checklist' = IF "prepare_report" \in Starting
                    THEN SecurityChecklist(ChecklistInput) ELSE checklist
    /\ UNCHANGED case

AnalysisNext == AnalysisRound

AnalysisSpec == AnalysisInit /\ [][AnalysisNext]_analysisVars

-----------------------------------------------------------------------------
(* No node reads a part of the state before the node that writes it has    *)
(* been merged: no analyser runs on a profile that is still null, and no   *)
(* report is prepared that lacks the findings or the coverage row of an    *)
(* analyser which is still running.                                        *)
NodesSeeWhatTheyRead == \A n \in DOMAIN seen : Reads(n) \subseteq seen[n]

(* What there is to find for a scanner in the files it looks at.           *)
ListedIn(files) == UNION {ToSet(files[f].list) : f \in DOMAIN files}
DeeperIn(files) == UNION {ToSet(files[f].deeper) : f \in DOMAIN files}
ViolationsIn(entries) == {e.finding : e \in {x \in ToSet(entries) : x.violation}}

Findable(s) ==
    LET r == case.raised
        In(lists) == UNION {ToSet(lists[l]) : l \in DOMAIN lists}
    IN  CASE s = "builtin" -> ListedIn(r.patterns)
          [] s = "posture" -> ToSet(r.posture)
          [] s = "ast-security" -> In(r.boundaries) \cup ListedIn(r.functions)
                                    \cup ToSet(r.flows) \cup ToSet(r.destinations)
          [] s = "saas-security" -> ListedIn(r.saas) \cup DeeperIn(r.saas)
          [] s = "react-security" -> ListedIn(r.clients) \cup In(r.elements)
          [] s = "next-security" -> In(r.routes) \cup In(r.nodes)
          [] s = "accessibility-static" -> ListedIn(r.markup)
          [] s = "axe-results" -> UNION {ViolationsIn(r.axe[d].entries) : d \in DOMAIN r.axe}
          [] s = "web-posture" -> In(r.roots)
          [] s = "privacy-static" -> ListedIn(r.personal)
          [] s = "reliability-static" -> ListedIn(r.calls)
          [] s = "supply-chain" -> ToSet(r.manifests)
          [] OTHER -> {}

(* The cuts that the analysers do not tell of: a client file or the routes *)
(* of Next.js that fill the limit exactly, entries of an Axe result that   *)
(* are no violations, and what lies too deep in a file.                    *)
Unspoken(s) ==
    CASE s \in {"react-security", "next-security"} ->
                Len(Scan(s, profile).list) = MaxFindings
      [] s = "axe-results" ->
                \E d \in DOMAIN case.raised.axe : \E e \in ToSet(case.raised.axe[d].entries) : ~e.violation
      [] s = "saas-security" -> DeeperIn(case.raised.saas) # {}
      [] OTHER -> FALSE

(* Coverage that is COMPLETE has told of everything there was to find in   *)
(* the files the scanner looked at, but for the cuts above: no other limit *)
(* is reached, and no file left out, without a word.                       *)
CutsAreTold ==
    \A s \in Capabilities :
        Coverage(s) = "COMPLETE" /\ ~Unspoken(s) => Findable(s) \subseteq findings

(* Nothing an analyser found is lost on the way to the report: a finding   *)
(* is there, or a structural one at its place, or the declaration that it  *)
(* was observed to corroborate; and the pattern of files that are mapped.  *)
InReport(f) ==
    \/ \E g \in normalizedFindings : [g EXCEPT !.verified = f.verified] = f
    \/ f.rule \in {"001", "005", "P003"}
         /\ \E g \in normalizedFindings : g.rule \in Structural /\ g.place = f.place
    \/ f.source = "http-probe"
         /\ \E g \in findings : g.rule = CounterpartOf(f) /\ g.rule # "P003"
                /\ [g EXCEPT !.verified = "corroborated"] \in normalizedFindings
    \/ f.rule = "H004" /\ \E g \in findings : g.rule = "P003"
    \/ f.rule = "004" /\ f.place \in case.mapped

(* Controls that are evidenced by the absence of findings, and the         *)
(* scanners whose rules those are.                                         *)
ShownBy == [AUTHN_001 |-> {"ast-security"}, AUTHN_002 |-> {"next-security"},
            AUTHZ_001 |-> {"ast-security"}, SAAS_BILLING_001 |-> {"saas-security"},
            SECRETS_001 |-> {"gitleaks", "posture"}, DEPS_001 |-> {"osv"},
            RUNTIME_001 |-> {"http-probe"}, NEXT_002 |-> {"next-security"},
            REACT_001 |-> {"react-security"}, REACT_002 |-> {"react-security"}]

(* A control of the report is evidenced only if nothing that contradicts   *)
(* it was found anywhere in the audit, and, where it rests on the absence  *)
(* of findings, if each scanner that looks for them was enabled, ran, and  *)
(* reached the end.  Two exceptions: a probe's finding that became         *)
(* evidence of a declaration is no gap of RUNTIME_001, and a pattern's     *)
(* that a structural rule replaced is none of SECRETS_001.                 *)
EvidenceIsEarned ==
    "prepare_report" \in done =>
        /\ \A f \in findings : InReport(f)
        /\ \A c \in Controls : checklist[c] = "EVIDENCED" =>
            /\ \A f \in findings : f.rule \in GapRules[c] =>
                    f.rule \in {"005", "P003", "H004", "001"}
                      /\ ~\E g \in normalizedFindings : g.rule = f.rule
            /\ c \in DOMAIN ShownBy => \A s \in ShownBy[c] :
                    Enabled(s) /\ runs[s] = "completed"
=============================================================================
