\* Two pulls, two resources, two artifacts; the sync of a written blob may fail.
SPECIFICATION Spec
CONSTANTS
  Pulls = {p1, p2}
  Resources = {s, t}
  Digests = {d1, d2}
SYMMETRY Symmetry
INVARIANTS IndexedBlobsComplete CandidatesUsable
