---------------------------- MODULE AuditPipeline ----------------------------
(***************************************************************************)
(* The pipeline that buildAuditPipeline compiles                           *)
(* (src/engine/audit-pipeline.ts): its nodes in the order of addNode and   *)
(* its edges in the order of addEdge.                                      *)
(***************************************************************************)
EXTENDS Naturals, Sequences, FiniteSets, Functions

NodeNames == <<
    "snapshot", "patterns", "project_profile", "ast_security",
    "saas_security", "react_security", "next_security",
    "accessibility_static", "web_posture", "privacy_static",
    "reliability_static", "environment_contract", "test_evidence",
    "api_contract", "database_contract", "webhook_contract",
    "feature_flags", "architecture", "duplication", "supply_chain",
    "code_quality", "posture", "semgrep", "gitleaks", "http_probe",
    "inventory", "normalize", "prepare_report" >>

OfSnapshot == {"patterns", "project_profile", "environment_contract",
    "duplication", "supply_chain", "posture", "semgrep", "gitleaks",
    "http_probe", "inventory"}

OfProfile == {"ast_security", "saas_security", "next_security",
    "react_security", "accessibility_static", "web_posture",
    "privacy_static", "reliability_static", "test_evidence", "api_contract",
    "database_contract", "webhook_contract", "feature_flags",
    "architecture", "code_quality"}

Normalized == {"patterns", "ast_security", "saas_security", "next_security",
    "react_security", "accessibility_static", "web_posture",
    "privacy_static", "reliability_static", "environment_contract",
    "test_evidence", "api_contract", "database_contract",
    "webhook_contract", "feature_flags", "architecture", "duplication",
    "supply_chain", "code_quality", "posture", "semgrep", "gitleaks",
    "http_probe", "inventory"}

(* Mutant: an analyser of routes is wired to the snapshot only.            *)
AuditEdgesEarly ==
    ({"snapshot"} \X (OfSnapshot \cup {"api_contract"}))
    \cup ({"project_profile"} \X (OfProfile \ {"api_contract"}))
    \cup (Normalized \X {"normalize"})
    \cup {<<"normalize", "prepare_report">>}

AuditEdges ==
    ({"snapshot"} \X OfSnapshot)
    \cup ({"project_profile"} \X OfProfile)
    \cup (Normalized \X {"normalize"})
    \cup {<<"normalize", "prepare_report">>}

-----------------------------------------------------------------------------
(* What the body of a node reads of the state that other nodes wrote: the   *)
(* digest (checkedSnapshot), the project profile, the analysers' results.   *)
ReadsProfile == {"ast_security", "saas_security", "react_security",
    "next_security", "reliability_static", "test_evidence", "api_contract",
    "database_contract", "webhook_contract", "feature_flags",
    "architecture", "code_quality"}

Reads(name) ==
    CASE name \in {"snapshot", "http_probe"} -> {}
      [] name \in ReadsProfile -> {"snapshot", "project_profile"}
      [] name = "normalize" -> Range(NodeNames) \ {"normalize", "prepare_report"}
      [] name = "prepare_report" -> Range(NodeNames) \ {"prepare_report"}
      [] OTHER -> {"snapshot"}
=============================================================================
