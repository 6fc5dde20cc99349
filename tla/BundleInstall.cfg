\* One process of each command, three manifests, crashes and repairs.
SPECIFICATION FairSpec
CONSTANTS
  p1 = p1
  p2 = p2
  r1 = r1
  u1 = u1
  m1 = m1
  m2 = m2
  m3 = m3
  a1 = a1
  a2 = a2
  Pulls = {p1}
  Renders = {r1}
  Unpacks = {u1}
  Manifests <- MCManifests
  Artifacts <- MCArtifacts
  ArtifactsOf <- MCArtifactsOf
  NoBundle = NoBundle
  Torn = Torn
INVARIANTS AllOrNothing
PROPERTIES BundleNeverLost InstallsAtomically InstallerReturns
