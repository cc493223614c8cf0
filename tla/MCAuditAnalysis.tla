--------------------------- MODULE MCAuditAnalysis ---------------------------
(* Projects for AuditAnalysis: one in which there is nothing to find, and  *)
(* variations of it, in each of which one analyser or two meet something.  *)
EXTENDS AuditAnalysis, TLC

Finding(rule, source, place) ==
    [rule |-> rule, source |-> source, place |-> place, secret |-> FALSE, verified |-> "none"]

Entrypoint(kind, traits, facts) == [kind |-> kind, traits |-> traits, facts |-> facts]

Plain == [
    modes |-> {}, truncated |-> FALSE, profile |-> "complete", next |-> TRUE, jsx |-> TRUE,
    tenants |-> TRUE, contexts |-> {}, probe |-> {}, resolved |-> TRUE, mapped |-> {"x"},
    manifests |-> TRUE, contracts |-> "completed",
    outside |-> [s \in External |-> Outcome(FALSE, <<>>)],
    raised |-> [patterns |-> <<>>, posture |-> <<>>, boundaries |-> <<>>, functions |-> <<>>,
                flows |-> <<>>, destinations |-> <<>>, saas |-> <<>>, clients |-> <<>>,
                elements |-> <<>>, routes |-> <<>>, nodes |-> <<>>, markup |-> <<>>,
                axe |-> <<>>, roots |-> <<>>, personal |-> <<>>, calls |-> <<>>,
                manifests |-> <<>>, names |-> <<>>]]

(* Up to three findings of one rule, in up to two files or lists of them.  *)
Places == <<"u", "v", "w">>
Found(rule, source, from, n) == [k \in 1..n |-> Finding(rule, source, Places[from + k])]

TwoLists(rule, source) ==
    {<<Found(rule, source, 0, m), Found(rule, source, m, n)>> : m \in 0..2, n \in 0..1}

File(parsed, list, deeper) == [parsed |-> parsed, list |-> list, deeper |-> deeper]

Document(valid, list) ==
    [valid |-> valid,
     entries |-> [k \in DOMAIN list |-> [violation |-> list[k].place # "v", finding |-> list[k]]]]

TwoFiles(rule, source) ==
    {<<File(TRUE, lists[1], <<>>), File(parsed, lists[2], deeper)>> :
        lists \in TwoLists(rule, source), parsed \in BOOLEAN,
        deeper \in {<<>>, <<Finding(rule, source, "deep")>>}}

(* Documents of Axe, in which what is found at v is no violation.           *)
TwoDocuments ==
    {<<Document(TRUE, lists[1]), Document(valid, lists[2])>> :
        lists \in TwoLists("axe", "axe-results"), valid \in BOOLEAN}

OneList(rule, source) == {Found(rule, source, 0, n) : n \in 0..3}

Raise(c, analyser, things) == {[c EXCEPT !.raised[analyser] = thing] : thing \in things}

FullOf(c) ==
    Raise(c, "patterns", TwoFiles("004", "builtin"))
    \cup Raise(c, "posture", OneList("P001", "posture"))
    \cup Raise(c, "boundaries", TwoLists("AST001", "ast-security"))
    \cup Raise(c, "functions", TwoFiles("AST002", "ast-security"))
    \cup Raise(c, "flows", OneList("AST004", "ast-security"))
    \cup Raise(c, "destinations", OneList("AST005", "ast-security"))
    \cup Raise(c, "saas", {<<>>} \cup TwoFiles("SAAS001", "saas-security") \cup
                          {[k \in 1..n |-> File(TRUE, <<>>, <<>>)] : n \in 3..4})
    \cup Raise(c, "clients", TwoFiles("REACT001", "react-security"))
    \cup Raise(c, "elements", TwoLists("REACT002", "react-security"))
    \cup Raise(c, "routes", TwoLists("NEXT001", "next-security"))
    \cup Raise(c, "nodes", TwoLists("NEXT004", "next-security"))
    \cup Raise(c, "markup", {<<>>} \cup TwoFiles("A001", "accessibility-static"))
    \cup Raise(c, "axe", {<<>>} \cup TwoDocuments)
    \cup Raise(c, "roots", {<<>>} \cup TwoLists("W001", "web-posture"))
    \cup Raise(c, "personal", TwoFiles("PRIV001", "privacy-static"))
    \cup Raise(c, "calls", TwoFiles("REL001", "reliability-static"))
    \cup Raise([c EXCEPT !.manifests = FALSE], "manifests", OneList("SC001", "supply-chain"))
    \cup Raise(c, "manifests", OneList("SC001", "supply-chain"))
    \cup Raise(c, "names", OneList("ENV001", "environment-contract"))

Full == UNION {FullOf(Plain), FullOf([Plain EXCEPT !.truncated = TRUE]),
               FullOf([Plain EXCEPT !.profile = "partial"]),
               FullOf([Plain EXCEPT !.profile = "unsupported", !.next = FALSE, !.jsx = FALSE]),
               FullOf([Plain EXCEPT !.modes = {"security"}]),
               FullOf([Plain EXCEPT !.modes = {"saas"}])}

(* What the scanners from outside answer.                                  *)
Answered ==
    {[Plain EXCEPT !.outside[s] = [status |-> status, list |-> list], !.resolved = resolved,
                   !.modes = modes] :
        s \in {"semgrep", "gitleaks", "http-probe", "osv", "knip"}, resolved \in BOOLEAN,
        status \in {"completed", "partial", "failed", "skipped"},
        list \in {<<>>, <<Finding("any", "osv", "u")>>,
                  <<[Finding("any", "semgrep", "u") EXCEPT !.secret = TRUE]>>},
        modes \in {{}, {"saas"}}}

(* Findings at one place, and of a file that is mapped.                    *)
Overlapping ==
    {[Plain EXCEPT !.raised.patterns = <<File(TRUE, <<Finding(pattern, "builtin", p)>>, <<>>)>>,
                   !.raised.posture = <<Finding("P003", "posture", p)>>,
                   !.raised.flows = <<Finding(structural, "ast-security", q)>>] :
        pattern \in {"001", "002", "004", "005"}, structural \in {"AST004", "AST001"},
        p \in {"u", "x"}, q \in {"u", "v"}}

(* What the first response and the last show of what the source declares.  *)
Probed ==
    {[Plain EXCEPT !.probe = probe,
                   !.raised.posture = declared,
                   !.raised.routes = <<[k \in 1..1 |-> Finding("NEXT005", "next-security", "u")]>>,
                   !.outside["http-probe"].list = observed] :
        probe \in {NoProbe, {}, PolicyHeaders},
        declared \in {<<>>, <<Finding("P002", "posture", "u")>>, <<Finding("P003", "posture", "u")>>,
                      <<Finding("P002", "posture", "u"), Finding("P005", "posture", "v")>>},
        observed \in {<<>>} \cup
            {<<Finding(h, "http-probe", "first response"), Finding(g, "http-probe", place)>> :
                h \in {"H001", "H002", "H004"}, g \in {"H005", "H006", "H007", "H008"},
                place \in {"first response", "last response"}}}

(* Entry points of a project in which every scan reaches its end, or none. *)
SomeTraits == {{"reading", "dynamic"}, {"mutating", "administrative"}, {"mutating", "webhook"},
               {"mutating", "abuse", "recovery"}, {"oauth"}}
SomeFacts == {{}, {"database"}, {"database", "authentication", "validation", "cookie"},
              {"database", "authorization", "resource-scope", "error-handling", "logging"},
              {"billing-below"}, {"billing", "webhook-verification", "idempotency", "csrf"},
              {"raw-sql", "tenant-scope"}, {"command-execution", "outbound-request", "redirect"}}

Mapped ==
    {[Plain EXCEPT !.contexts = {Entrypoint("next-route", traits, facts),
                                 Entrypoint("server-action", {"mutating"}, others)},
                   !.profile = mapped, !.truncated = (mapped = "partial"),
                   !.raised.flows = flows] :
        traits \in SomeTraits, facts \in SomeFacts, others \in {{}, {"database", "validation"}},
        mapped \in {"complete", "partial"},
        flows \in {<<>>, Found("AST006", "ast-security", 0, 2)}}

SomeCases == Full \cup Answered \cup Overlapping \cup Probed \cup Mapped
=============================================================================
