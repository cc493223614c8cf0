---------------------------- MODULE MCAdvisoryScan ----------------------------
(* A package with three advisories, of which a lookup asks for two.        *)
EXTENDS AdvisoryScan, TLC

CONSTANTS x, a, b, c, s1

OnePackage == {<<x>>}
ThreeAdvisories == x :> {a, b, c}
OwnIdentifiers == a :> {"a"} @@ b :> {"b"} @@ c :> {"c"}
=============================================================================
