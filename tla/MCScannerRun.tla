---------------------------- MODULE MCScannerRun ----------------------------
(* A small instance of ScannerRun: one project whose captured files stay    *)
(* the same while a file that is too large to capture comes and goes.      *)
EXTENDS ScannerRun

SameFiles == {[digest |-> d, truncated |-> t] : d \in Digests, t \in BOOLEAN}
=============================================================================
