--------------------------- MODULE MCAuditService ---------------------------
(* Small instances of AuditService. *)
EXTENDS AuditService, TLC

(* Processes, their identifiers and the projects are interchangeable.      *)
Permuted == Permutations(Workers) \cup Permutations(Pids)
              \cup Permutations(Projects)
=============================================================================
