---------------------------- MODULE MCAuditCommand ----------------------------
(* Two projects.  The first has one file with a finding; later the file is *)
(* edited and a copy of its code is added, which fills the budget so that  *)
(* the coverage artifact is passed over; or a lockfile that grows, beside  *)
(* a link.  The second has a finding of the same fingerprint, and more     *)
(* files than fit.                                                         *)
(* Reports are written step by step in ReportPackage, advisories looked up *)
(* in AdvisoryScan, approved URLs probed in HttpProbe, two reports         *)
(* compared in Remediation, and audits approved and queued in NewAudit.    *)
(* They share nothing with AuditCommand but the reports that are written   *)
(* and the status of a run, so that each is checked while the others rest. *)
EXTENDS AuditCommand, ReportPackage, AdvisoryScan, HttpProbe, Remediation,
        NewAudit, TLC

CONSTANTS p1, p2, c1, c2, x, y, z, a, b, c, s1

Bounds == [files |-> 2, perFile |-> 2, perLockfile |-> 3, total |-> 4, entries |-> 3]

Entry(name, kind, size) == [name |-> name, kind |-> kind, size |-> size]

Evidence(name, digest) == {[id |-> name, file |-> name, digest |-> digest]}

Candidate(fingerprint, severity, evidence) ==
    [fingerprint |-> fingerprint, key |-> "k", rule |-> "r", evidence |-> evidence,
     severity |-> severity, confidence |-> "high", disposition |-> "needs_review",
     suppression |-> {}]

First == [project |-> p1,
          tree |-> [entries |-> <<Entry("a", "source", 1)>>, artifacts |-> <<>>],
          candidates |-> <<Candidate("f1", "high", Evidence("a", 1))>>]

Copied == [project |-> p1,
           tree |-> [entries |-> <<Entry("a", "source", 1), Entry("b", "source", 2)>>,
                     artifacts |-> <<Entry("c", "source", 1)>>],
           candidates |-> <<Candidate("f1", "high", Evidence("a", 2)),
                            Candidate("f2", "high", Evidence("b", 1))>>]

Growing == [project |-> p1,
            tree |-> [entries |-> <<Entry("a", "source", 1), Entry("l", "growing", 1),
                                    Entry("m", "other", 0)>>, artifacts |-> <<>>],
            candidates |-> <<Candidate("f1", "high", Evidence("a", 1))>>]

Large == [project |-> p2,
          tree |-> [entries |-> <<Entry("a", "source", 1), Entry("b", "binary", 1),
                                  Entry("l", "lockfile", 3), Entry("d", "deep", 0)>>,
                    artifacts |-> <<>>],
          candidates |-> <<Candidate("f1", "medium", Evidence("a", 1))>>]

SomeHistories == {{First, Copied}, {First, Growing}, {First, Large}}

(* Of two packages in a lockfile, one has three advisories, of which two   *)
(* have the same alias and the third, of the other package too, is         *)
(* misnamed.  One advisory more than two is beyond a limit, and so is the  *)
(* third package that another lockfile has; one has no package.            *)
SomeLockfiles == {<<>>, <<x, y>>, <<x, y, z>>}
SomeAdvisories == x :> {a, b, c} @@ y :> {c} @@ z :> {}
SomeIdentifiers == a :> {"a", "v"} @@ b :> {"b", "v"} @@ c :> {"c"}

-----------------------------------------------------------------------------
(* Two advisories of one package and four findings in two files, of which  *)
(* an audit finds some; one finding was reviewed, and one moves so that it *)
(* has another fingerprint.  A control for each rule says what was found,  *)
(* but for one that does not apply any more.                               *)
Flaw(fingerprint, key, rule, file, severity) ==
    [fingerprint |-> fingerprint, key |-> key, rule |-> rule, file |-> file,
     package |-> "none", version |-> 0, fix |-> 0, traits |-> {"protected"},
     exposure |-> "unknown", severity |-> severity, confidence |-> "medium",
     disposition |-> "needs_review", suppression |-> {}, evidence |-> {}]

Advisory(fingerprint, version, fix) ==
    [Flaw(fingerprint, fingerprint, "osv", "lock", "high") EXCEPT
        !.package = "x", !.version = version, !.fix = fix, !.traits = {"direct", "located"}]

Read == Flaw("f1", "k1", "r1", "u", "medium")
ReadMoved == Flaw("f2", "k1", "r1", "u", "medium")
ReadToo == Flaw("f3", "k3", "r1", "u", "low")
Write == [Flaw("f4", "k4", "r2", "u", "high") EXCEPT !.traits = {"configuration"}]
WriteConfirmed == [Write EXCEPT !.disposition = "confirmed"]
Judged == [Flaw("f5", "k5", "r2", "v", "high") EXCEPT !.disposition = "false_positive"]
Old == Advisory("v1", 1, 2)
Newer == Advisory("v2", 3, 4)
Unfixed == [Advisory("v3", 3, 0) EXCEPT !.exposure = "local"]

Control(rule, found, decision) ==
    LET gaps == {f.fingerprint : f \in {g \in ElementsOf(found) : g.rule = rule}}
    IN  [id |-> rule, gaps |-> gaps, decision |-> decision,
         status |-> IF gaps # {} THEN "GAP_CANDIDATE"
                    ELSE IF decision = "none" THEN "EVIDENCED" ELSE "PARTIAL"]

AuditOf(project, tree, found, commands, decision) ==
    [project |-> project, tree |-> tree, findings |-> found, commands |-> commands,
     controls |-> {Control(r, found, IF r = "r1" THEN decision ELSE "none") :
                        r \in {"r1", "r2", "osv"}}]

TestAndBuild == {[kind |-> "test", script |-> "test"], [kind |-> "build", script |-> "build"]}

SomeAudits ==
    {AuditOf("p", 1, found, commands, "none") :
        found \in {<<Read, ReadToo, Write, Judged>>, <<Old, Newer, WriteConfirmed>>,
                   <<Old, Unfixed, Read, Write>>},
        commands \in {{}, TestAndBuild}}
    \cup {AuditOf("p", 2, found, TestAndBuild, decision) :
        found \in {<<>>, <<ReadMoved>>, <<Write, Judged>>, <<Newer>>},
        decision \in {"none", "verified_external"}}
    \cup {[AuditOf("p", 2, <<Write, Judged>>, TestAndBuild, "none") EXCEPT !.controls =
                {[d EXCEPT !.status = IF d.id = "r2" THEN "NOT_APPLICABLE" ELSE @] : d \in @}]}
    \cup {AuditOf("q", 1, <<Read>>, {}, "needs_follow_up")}

-----------------------------------------------------------------------------
VARIABLE machine    \* the one that moves

MCInit ==
    /\ Init /\ PackageInit /\ AdvisoryInit /\ ProbeInit /\ RemediationInit
    /\ DialogInit
    /\ machine \in {"command", "package", "advisories", "probe", "remediation", "dialog"}
    /\ machine = "command" \/ versions = {First, Copied}
    /\ machine = "package" \/ ~clutter
    /\ machine = "probe" \/ allowlist = <<>>
    /\ machine = "dialog" \/ (cut = {} /\ selected = p1)

others == <<packageVars, advisoryVars, probeVars, remediationVars, dialogVars>>

MCNext ==
    /\ UNCHANGED machine
    /\ machine # "command" => UNCHANGED vars
    /\ machine # "package" => UNCHANGED packageVars
    /\ machine # "advisories" => UNCHANGED advisoryVars
    /\ machine # "probe" => UNCHANGED probeVars
    /\ machine # "remediation" => UNCHANGED remediationVars
    /\ machine # "dialog" => UNCHANGED dialogVars
    /\ \/ machine = "command" /\ Next
       \/ machine = "package" /\ PackageNext
       \/ machine = "advisories" /\ AdvisoryNext
       \/ machine = "probe" /\ ProbeNext
       \/ machine = "remediation" /\ RemediationNext
       \/ machine = "dialog" /\ DialogNext

MCSpec == MCInit /\ [][MCNext]_<<machine, vars, others>>

Permuted == Permutations(Procs) \cup Permutations(Audits)
=============================================================================
