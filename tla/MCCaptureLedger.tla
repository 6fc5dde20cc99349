--------------------------- MODULE MCCaptureLedger ---------------------------
(* Small instances of CaptureLedger; pulls, resources and digests are      *)
(* interchangeable.                                                        *)
EXTENDS CaptureLedger, TLC

Symmetry == Permutations(Pulls) \cup Permutations(Resources) \cup Permutations(Digests)
=============================================================================
