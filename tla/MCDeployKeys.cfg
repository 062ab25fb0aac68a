\* Pinned and signed releases, two architectures, and calls that fail.
SPECIFICATION Spec
CONSTANTS
  Absent = Absent
  None = None
  Malformed = Malformed
  Torn = Torn
  u1 = u1
  s1 = s1
  s2 = s2
  Arch = {"x86_64", "aarch64"}
  Keys <- MCKeys
  Url <- MCUrl
  Bytes <- MCBytes
  Arg <- MCArg
  App = {}
  Base <- AllBases
  Creates <- KeyCreates
  Modifies <- NoModifies
INVARIANTS
  TypeOK
  ReleaseIsServed
  RollsForward
  EmittedIsAccepted
