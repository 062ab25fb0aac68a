\* One reliable mirror per list, the others dead, stale or wrong; no local fault.
SPECIFICATION FairSpec
CONSTANTS
  Absent = Absent
  None = None
  Fail = Fail
  Malformed = Malformed
  Scalar = Scalar
  Nul = Nul
  b1 = b1
  b2 = b2
  a1 = a1
  m1 = m1
  m2 = m2
  m3 = m3
  m4 = m4
  m5 = m5
  m6 = m6
  m7 = m7
  Keys <- MCKeys
  Url <- MCUrl
  Arg <- MCArg
  App <- MCApp
  Bytes <- MirrorBytes
  Issued <- MirrorIssued
  Serves <- MirrorServes
  AsDoc <- MirrorDoc
  AsArgs <- DirectArgs
  Provider <- NoProvider
  Launches <- MirrorLaunches
  Faults = {}
  Size = 2
INVARIANTS
  ReliableMirrorIsReached
PROPERTIES
  Boots
CHECK_DEADLOCK FALSE
