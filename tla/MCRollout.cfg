\* Releases on their way to the mirrors while an instance boots.
SPECIFICATION RolloutSpec
CONSTANTS
  Absent = Absent
  None = None
  Malformed = Malformed
  Torn = Torn
  u1 = u1
  s1 = s1
  s2 = s2
  Arch = {"x86_64"}
  Keys <- MCKeys
  Url <- MCUrl
  Bytes <- MCBytes
  Arg <- MCArg
  App = {}
  Base <- MCBase
  Creates <- MCCreates
  Modifies <- NoModifies
  MaxCreates = 2
  MaxDeaths = 1
\* The bound on the calls of `create` may be used up with nothing published.
CHECK_DEADLOCK FALSE
INVARIANTS
  RunsOneRelease
PROPERTIES
  Converges
