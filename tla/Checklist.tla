------------------------------ MODULE Checklist ------------------------------
(***************************************************************************)
(* The security checklist of a report (src/domain/checklist.ts): what each *)
(* control says, from the findings of the report, the runs of its          *)
(* scanners, the facts that are mapped for each entry point, and the       *)
(* response that was observed.  The input i is a record of                 *)
(*   profile   "none", "unsupported", "partial" or "complete"              *)
(*   next      is it a Next.js project?                                    *)
(*   tenants   has a fact of the profile a name of the tenant vocabulary?  *)
(*   contexts  the entry points but the middleware: [kind, traits, facts]  *)
(*   findings  [rule, source, secret, ...]                                 *)
(*   runs      the status of each scanner's run, "none" without a run      *)
(*   probe     the headers that were observed, NoProbe without a response  *)
(*   resolved  was any dependency resolved by a lockfile?                  *)
(* A fact is its kind; "tenant-scope" is a resource scope by a name of the *)
(* tenant vocabulary, "billing-below" one of billing in another file.      *)
(* A control is what the first of its conditions that holds says, in the   *)
(* order in which the code returns.                                        *)
(***************************************************************************)
EXTENDS Naturals, FiniteSets

NoProbe == {"no response"}

SensitiveFacts == {"database", "billing", "billing-below", "raw-sql", "command-execution", "file-access"}

Sensitive(i) == {c \in i.contexts : c.facts \cap SensitiveFacts # {}}

Mutations(i) == {c \in Sensitive(i) : "mutating" \in c.traits /\ "webhook" \notin c.traits}

SensitiveReads(i) == {c \in Sensitive(i) : "reading" \in c.traits}

Administrative(i) == {c \in Mutations(i) : "administrative" \in c.traits}

Resources(i) == {c \in Sensitive(i) : "dynamic" \in c.traits /\ "database" \in c.facts}

Webhooks(i) == {c \in Sensitive(i) : "webhook" \in c.traits}

With(contexts, facts) == {c \in contexts : c.facts \cap facts # {}}

Scopes == {"resource-scope", "tenant-scope"}
Billing == {"billing", "billing-below"}

Called(i, traits) == {c \in i.contexts : c.traits \cap traits # {}}

OfKind(i, kinds) == {c \in i.contexts : c.kind \in kinds}

HasGap(i, rules) == \E f \in i.findings : f.rule \in rules

Partial(i) == i.profile = "partial"

NothingMapped(i) ==
    IF i.profile \in {"none", "unsupported"} THEN "UNVERIFIED"
    ELSE IF i.profile = "partial" THEN "PARTIAL"
    ELSE "NOT_APPLICABLE"

(* Mutant: a scan that was cut counts as one that was not.                 *)
GapStatusOfCut(i, rules, run, evidenced, partly) ==
    IF HasGap(i, rules) THEN "GAP_CANDIDATE"
    ELSE IF i.runs[run] = "failed" THEN "FAILED"
    ELSE IF i.runs[run] \in {"skipped", "none"} THEN "UNVERIFIED"
    ELSE IF Partial(i) \/ partly THEN "PARTIAL"
    ELSE IF evidenced THEN "EVIDENCED" ELSE "UNVERIFIED"

(* What a control says that looks at a run of a scanner.                   *)
GapStatus(i, rules, run, evidenced, partly) ==
    IF HasGap(i, rules) THEN "GAP_CANDIDATE"
    ELSE IF i.runs[run] = "failed" THEN "FAILED"
    ELSE IF i.runs[run] \in {"skipped", "none"} THEN "UNVERIFIED"
    ELSE IF Partial(i) \/ i.runs[run] = "partial" \/ partly THEN "PARTIAL"
    ELSE IF evidenced THEN "EVIDENCED" ELSE "UNVERIFIED"

(* The same for entry points of which some have what the control asks for. *)
Guarded(i, applicable, guarded, rules, run) ==
    IF applicable = {} THEN NothingMapped(i)
    ELSE GapStatus(i, rules, run, guarded = applicable,
                   guarded # {} /\ guarded # applicable)

(* Controls of entry points that nothing in the source can satisfy.        *)
Undecided(i, rules, applicable) ==
    IF HasGap(i, rules) THEN "GAP_CANDIDATE"
    ELSE IF applicable = {} THEN NothingMapped(i)
    ELSE IF Partial(i) THEN "PARTIAL" ELSE "UNVERIFIED"

(* Those that every entry point must satisfy, whatever the scanners did.   *)
Everywhere(i, rules, applicable, satisfied) ==
    IF HasGap(i, rules) THEN "GAP_CANDIDATE"
    ELSE IF applicable = {} THEN NothingMapped(i)
    ELSE IF Partial(i) THEN "PARTIAL"
    ELSE IF satisfied = applicable THEN "EVIDENCED" ELSE "GAP_CANDIDATE"

(* Where a fact that is missing outweighs a profile that is partial.       *)
MissingFirst(i, rules, applicable, satisfied) ==
    IF HasGap(i, rules) THEN "GAP_CANDIDATE"
    ELSE IF applicable = {} THEN NothingMapped(i)
    ELSE IF satisfied # applicable THEN "GAP_CANDIDATE"
    ELSE IF Partial(i) THEN "PARTIAL" ELSE "EVIDENCED"

-----------------------------------------------------------------------------
(* The rules whose findings are the gaps of a control.                     *)
GapRules == [
    AUTHN_001 |-> {"AST001", "AST019"},
    AUTHN_002 |-> {"NEXT001"},
    AUTHZ_001 |-> {"AST002"},
    AUTHZ_002 |-> {"AST003", "NEXT002"},
    INPUT_001 |-> {"NEXT006", "AST013", "AST014", "AST016", "AST017", "AST018"},
    INJECTION_001 |-> {"AST004", "001"},
    COMMAND_001 |-> {"AST011"},
    PATH_001 |-> {"AST012"},
    OUTBOUND_001 |-> {"AST005"},
    REDIRECT_001 |-> {"AST006"},
    UPLOAD_001 |-> {"AST007"},
    WEBHOOK_001 |-> {"AST008"},
    SAAS_WEBHOOK_001 |-> {},
    SAAS_ABUSE_001 |-> {},
    SAAS_BILLING_001 |-> {"SAAS001"},
    SAAS_RECOVERY_001 |-> {"SAAS003", "SAAS008", "SAAS009"},
    SAAS_OAUTH_001 |-> {"SAAS007"},
    SAAS_TENANT_001 |-> {"SAAS002"},
    SAAS_CSRF_001 |-> {},
    HEADERS_001 |-> {"P001", "P002", "H001", "H002", "H008"},
    SESSION_001 |-> {"AST009", "P003", "H004"},
    CORS_001 |-> {"P004", "P005", "H003", "H006", "H007"},
    SECRETS_001 |-> {"P010", "P011", "005"},
    DEPS_001 |-> {},
    RUNTIME_001 |-> {},
    LOGGING_001 |-> {},
    ERRORS_001 |-> {"SAAS004"},
    NEXT_001 |-> {"NEXT003", "NEXT005", "H005"},
    NEXT_002 |-> {"NEXT004", "NEXT007"},
    REACT_001 |-> {"REACT001"},
    REACT_002 |-> {"REACT002", "REACT003", "REACT004", "REACT005", "REACT006"},
    REACT_003 |-> {"REACT007", "REACT008", "REACT009", "AST010"}]

Controls == DOMAIN GapRules

-----------------------------------------------------------------------------
Authn001(i) ==
    Guarded(i, Mutations(i), With(Mutations(i), {"authentication", "authorization"}),
            GapRules.AUTHN_001, "ast-security")

Authn002(i) ==
    IF SensitiveReads(i) = {} THEN NothingMapped(i)
    ELSE GapStatus(i, GapRules.AUTHN_002, "next-security",
                   i.runs["next-security"] = "completed", FALSE)

Authz001(i) ==
    Guarded(i, Administrative(i), With(Administrative(i), {"authorization"}),
            GapRules.AUTHZ_001, "ast-security")

Authz002(i) ==
    Guarded(i, Resources(i), With(Resources(i), Scopes), GapRules.AUTHZ_002, "ast-security")

(* Without a sensitive entry point its gaps are not looked at.             *)
Input001(i) ==
    IF Sensitive(i) = {} THEN NothingMapped(i)
    ELSE Everywhere(i, GapRules.INPUT_001, Sensitive(i), With(Sensitive(i), {"validation"}))

Injection001(i) ==
    Undecided(i, GapRules.INJECTION_001, With(i.contexts, {"raw-sql"}))

Command001(i) ==
    Undecided(i, GapRules.COMMAND_001, With(i.contexts, {"command-execution"}))

Path001(i) ==
    Undecided(i, GapRules.PATH_001, With(i.contexts, {"file-access"}))

Outbound001(i) ==
    Undecided(i, GapRules.OUTBOUND_001, With(i.contexts, {"outbound-request"}))

Redirect001(i) ==
    Undecided(i, GapRules.REDIRECT_001, With(i.contexts, {"redirect"}))

HttpKinds == {"next-route", "next-pages-api", "express-route", "aws-lambda"}

Upload001(i) ==
    Undecided(i, GapRules.UPLOAD_001, OfKind(i, HttpKinds))

Webhook001(i) ==
    Everywhere(i, GapRules.WEBHOOK_001, Webhooks(i), With(Webhooks(i), {"webhook-verification"}))

SaasWebhook001(i) ==
    MissingFirst(i, {}, Webhooks(i), With(Webhooks(i), {"idempotency"}))

SaasAbuse001(i) ==
    MissingFirst(i, {}, Called(i, {"abuse"}), With(Called(i, {"abuse"}), {"rate-limit"}))

SaasBilling001(i) ==
    LET billing == With(i.contexts, Billing)
        inspected == {c \in billing : "billing-below" \notin c.facts}
    IN  IF HasGap(i, GapRules.SAAS_BILLING_001) THEN "GAP_CANDIDATE"
        ELSE IF billing = {} THEN NothingMapped(i)
        ELSE IF i.runs["saas-security"] = "completed" /\ inspected = billing THEN "EVIDENCED"
        ELSE IF i.runs["saas-security"] = "failed" THEN "FAILED" ELSE "PARTIAL"

(* Flows that are known by their names, which no fact can evidence.        *)
NamedFlow(i, rules, traits, otherwise) ==
    IF HasGap(i, rules) THEN "GAP_CANDIDATE"
    ELSE IF Called(i, traits) = {} THEN NothingMapped(i)
    ELSE IF i.runs["saas-security"] = "failed" THEN "FAILED" ELSE otherwise

SaasRecovery001(i) ==
    NamedFlow(i, GapRules.SAAS_RECOVERY_001, {"recovery"}, "PARTIAL")

SaasOauth001(i) ==
    NamedFlow(i, GapRules.SAAS_OAUTH_001, {"oauth"}, "UNVERIFIED")

SaasTenant001(i) ==
    LET databases == IF i.tenants THEN With(Sensitive(i), {"database", "raw-sql"}) ELSE {}
    IN  MissingFirst(i, GapRules.SAAS_TENANT_001, databases,
                     With(databases, {"authorization", "tenant-scope"}))

SaasCsrf001(i) ==
    LET cookies == With(Mutations(i), {"cookie"})
    IN  MissingFirst(i, {}, cookies, With(cookies, {"csrf"}))

-----------------------------------------------------------------------------
(* Controls of the responses: what was observed comes before the runs.     *)
Observed(i, headers) == i.probe # NoProbe /\ i.probe \cap headers # {}

PolicyHeaders == {"content-security-policy", "x-content-type-options", "referrer-policy",
                  "permissions-policy"}

Headers001(i) ==
    IF ~i.next THEN NothingMapped(i)
    ELSE IF HasGap(i, GapRules.HEADERS_001) THEN "GAP_CANDIDATE"
    ELSE IF Observed(i, PolicyHeaders) THEN "EVIDENCED"
    ELSE IF i.runs["posture"] = "failed" THEN "FAILED"
    ELSE IF i.runs["posture"] = "partial" THEN "PARTIAL"
    ELSE "UNVERIFIED"

Session001(i) ==
    IF HasGap(i, GapRules.SESSION_001) THEN "GAP_CANDIDATE"
    ELSE IF With(i.contexts, {"cookie"}) # {} /\ i.runs["posture"] = "completed" THEN "EVIDENCED"
    ELSE IF With(i.contexts, {"cookie", "authentication"}) # {} THEN "UNVERIFIED"
    ELSE NothingMapped(i)

Cors001(i) ==
    IF OfKind(i, HttpKinds \cup {"trpc-procedure"}) = {} THEN NothingMapped(i)
    ELSE IF HasGap(i, GapRules.CORS_001) THEN "GAP_CANDIDATE"
    ELSE IF Observed(i, {"access-control-allow-origin"}) THEN "EVIDENCED"
    ELSE IF i.runs["posture"] = "failed" THEN "FAILED" ELSE "UNVERIFIED"

Secrets001(i) ==
    IF HasGap(i, GapRules.SECRETS_001) \/ (\E f \in i.findings : f.secret) THEN "GAP_CANDIDATE"
    ELSE IF i.runs["gitleaks"] = "failed" THEN "FAILED"
    ELSE IF "partial" \in {i.runs["gitleaks"], i.runs["posture"]} THEN "PARTIAL"
    ELSE IF {i.runs["gitleaks"], i.runs["posture"]} = {"completed"} THEN "EVIDENCED" ELSE "UNVERIFIED"

Told(i, source) == \E f \in i.findings : f.source = source

Deps001(i) ==
    IF ~i.resolved THEN NothingMapped(i)
    ELSE IF Told(i, "osv") THEN "GAP_CANDIDATE"
    ELSE IF i.runs["osv"] = "failed" THEN "FAILED"
    ELSE IF i.runs["osv"] = "partial" THEN "PARTIAL"
    ELSE IF i.runs["osv"] = "completed" THEN "EVIDENCED" ELSE "UNVERIFIED"

Runtime001(i) ==
    IF Told(i, "http-probe") THEN "GAP_CANDIDATE"
    ELSE IF i.runs["http-probe"] = "failed" THEN "FAILED"
    ELSE IF i.runs["http-probe"] = "completed" /\ i.probe # NoProbe THEN "EVIDENCED" ELSE "UNVERIFIED"

(* Those of which some is better than nothing.                             *)
Mostly(i, satisfied) ==
    IF Sensitive(i) = {} THEN NothingMapped(i)
    ELSE IF satisfied = Sensitive(i) THEN "EVIDENCED"
    ELSE IF satisfied # {} THEN "PARTIAL" ELSE "UNVERIFIED"

Logging001(i) == Mostly(i, With(Sensitive(i), {"logging"}))

Errors001(i) ==
    IF HasGap(i, GapRules.ERRORS_001) THEN "GAP_CANDIDATE"
    ELSE Mostly(i, With(Sensitive(i), {"error-handling"}))

Scanned(i, rules, run) == GapStatus(i, rules, run, i.runs[run] = "completed", FALSE)

Next001(i) ==
    IF i.next THEN Scanned(i, GapRules.NEXT_001, "next-security") ELSE NothingMapped(i)

Next002(i) ==
    IF i.next THEN Scanned(i, GapRules.NEXT_002, "next-security") ELSE NothingMapped(i)

React001(i) == Scanned(i, GapRules.REACT_001, "react-security")
React002(i) == Scanned(i, GapRules.REACT_002, "react-security")
React003(i) == Scanned(i, GapRules.REACT_003, "react-security")

(* buildSecurityChecklist.                                                 *)
SecurityChecklist(i) == [
    AUTHN_001 |-> Authn001(i), AUTHN_002 |-> Authn002(i), AUTHZ_001 |-> Authz001(i),
    AUTHZ_002 |-> Authz002(i), INPUT_001 |-> Input001(i), INJECTION_001 |-> Injection001(i),
    COMMAND_001 |-> Command001(i), PATH_001 |-> Path001(i), OUTBOUND_001 |-> Outbound001(i),
    REDIRECT_001 |-> Redirect001(i), UPLOAD_001 |-> Upload001(i), WEBHOOK_001 |-> Webhook001(i),
    SAAS_WEBHOOK_001 |-> SaasWebhook001(i), SAAS_ABUSE_001 |-> SaasAbuse001(i),
    SAAS_BILLING_001 |-> SaasBilling001(i), SAAS_RECOVERY_001 |-> SaasRecovery001(i),
    SAAS_OAUTH_001 |-> SaasOauth001(i), SAAS_TENANT_001 |-> SaasTenant001(i),
    SAAS_CSRF_001 |-> SaasCsrf001(i), HEADERS_001 |-> Headers001(i),
    SESSION_001 |-> Session001(i), CORS_001 |-> Cors001(i), SECRETS_001 |-> Secrets001(i),
    DEPS_001 |-> Deps001(i), RUNTIME_001 |-> Runtime001(i), LOGGING_001 |-> Logging001(i),
    ERRORS_001 |-> Errors001(i), NEXT_001 |-> Next001(i), NEXT_002 |-> Next002(i),
    REACT_001 |-> React001(i), REACT_002 |-> React002(i), REACT_003 |-> React003(i)]
=============================================================================
