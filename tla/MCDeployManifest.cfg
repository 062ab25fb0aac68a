\* Two releases under signed manifests; create dies anywhere.
SPECIFICATION Spec
CONSTANTS
  Absent = Absent
  None = None
  Malformed = Malformed
  Torn = Torn
  u1 = u1
  s1 = s1
  s2 = s2
  Arch = {"x86_64"}
  Keys <- MCKeys
  Url <- MCUrl
  Bytes <- MCBytes
  Arg <- MCArg
  App = {}
  Base <- AllBases
  Creates <- ManifestCreates
  Modifies <- MirrorModifies
INVARIANTS
  ReleaseIsServed
  RollsForward
  NoMixture
