\* Direct payload entries, chains of signed manifests and metadata services;
\* mirrors answer anything at any time, every local call may fail.
SPECIFICATION FairSpec
CONSTANTS
  Absent = Absent
  None = None
  Fail = Fail
  Malformed = Malformed
  Scalar = Scalar
  Nul = Nul
  b1 = b1
  b2 = b2
  a1 = a1
  m1 = m1
  m2 = m2
  m3 = m3
  m4 = m4
  m5 = m5
  m6 = m6
  m7 = m7
  Keys <- MCKeys
  Url <- MCUrl
  Arg <- MCArg
  App <- MCApp
  Bytes <- BootBytes
  Issued <- BootIssued
  Serves <- BootServes
  AsDoc <- ChainDoc
  AsArgs <- DirectArgs
  Provider <- OnAzure
  Launches <- BootLaunches
  Faults <- Calls
  Size = 2
INVARIANTS
  TypeOK
  RunsWhatWasMeasured
  PayloadReadsItsDocument
  AdmittedUnderAuthority
  ChainOfTrust
  LastManifestWins
  NoHopTwice
  ProvenanceOfChain
  DocumentIsFound
PROPERTIES
  ImplementsTrustedBoot
  MeasuredOnceAfterQuote
  Settles
CHECK_DEADLOCK FALSE
