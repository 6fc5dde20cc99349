--------------------------- MODULE MCBundleInstall ---------------------------
(***************************************************************************)
(* Small instances of BundleInstall.  Manifests m1 and m2 differ but refer *)
(* to the same artifact, m3 refers to another one: a render can stage m1   *)
(* from a directory holding m2 and cannot from one holding m3.             *)
(***************************************************************************)
EXTENDS BundleInstall, TLC

CONSTANTS p1, p2, r1, u1, m1, m2, m3, a1, a2

MCArtifactsOf == (m1 :> {a1}) @@ (m2 :> {a1}) @@ (m3 :> {a2})
MCManifests == {m1, m2, m3}
MCArtifacts == {a1, a2}

=============================================================================
