\* A mirror with an old manifest and without its payload.
SPECIFICATION RolloutSpec
CONSTANTS
  Absent = Absent
  None = None
  Malformed = Malformed
  Torn = Torn
  u1 = u1
  s1 = s1
  s2 = s2
  Arch = {"x86_64"}
  Keys <- MCKeys
  Url <- MCUrl
  Bytes <- MCBytes
  Arg <- MCArg
  App = {}
  Base <- MCBase
  Creates <- MCCreates
  Modifies <- NoModifies
  MaxCreates = 2
  MaxDeaths = 0
INVARIANTS
  StaleMirrorIsSkipped
