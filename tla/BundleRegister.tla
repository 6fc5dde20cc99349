--------------------------- MODULE BundleRegister ---------------------------
(***************************************************************************)
(* What the installation of generated bundles promises, without lock       *)
(* files, stages or renames: the project's output directory is a register  *)
(* holding one complete bundle (or none yet) that writers replace in one   *)
(* step, and a pull's receipt compares against exactly the bundle that     *)
(* this step replaced.                                                     *)
(***************************************************************************)
CONSTANTS
  Pulls,       \* writers that report a receipt (floceed pull)
  Manifests,   \* the bundles, named by their manifests
  NoBundle     \* the output directory before the first installation

VARIABLES
  current,     \* the bundle a reader of the output directory is promised
  replaced     \* the baseline of each pull's latest installation

vars == <<current, replaced>>

Init == /\ current \in Manifests \cup {NoBundle}
        /\ replaced = [p \in Pulls |-> NoBundle]

(* A pull swaps in a bundle and learns, atomically, what it replaced. *)
PullSwap(p, m) == /\ current' = m
                  /\ replaced' = [replaced EXCEPT ![p] = current]

(* A render or an unpack swaps in a bundle and reports no baseline. *)
PlainSwap(m) == /\ current' = m
                /\ UNCHANGED replaced

Next == \E m \in Manifests : \/ \E p \in Pulls : PullSwap(p, m)
                             \/ PlainSwap(m)

Spec == Init /\ [][Next]_vars
=============================================================================
