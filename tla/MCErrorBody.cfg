\* An error response whose body is a JSON object.
SPECIFICATION FairSpec
CONSTANTS
  Absent = Absent
  None = None
  Fail = Fail
  Malformed = Malformed
  Scalar = Scalar
  Nul = Nul
  b1 = b1
  b2 = b2
  a1 = a1
  m1 = m1
  m2 = m2
  m3 = m3
  m4 = m4
  m5 = m5
  m6 = m6
  m7 = m7
  Keys <- MCKeys
  Url <- MCUrl
  Arg <- MCArg
  App <- MCApp
  Bytes <- BootBytes
  Issued <- BootIssued
  Serves <- BootServes
  AsDoc <- ChainDoc
  AsArgs <- DirectArgs
  Provider <- ErrorBody
  Launches <- CloudLaunches
  Faults = {}
  Size = 1
INVARIANTS
  DocumentIsFromSuccessfulResponse
CHECK_DEADLOCK FALSE
