\* Signed releases, rebuilds and new keys, killed anywhere, and an engine that
\* may fail.
SPECIFICATION Spec
CONSTANTS
  None = None
  Absent = Absent
  Torn = Torn
  Hollow = Hollow
  Seeds = {"s1", "s2"}
  OldSeed = "s0"
  Tags = {"stage1.uki", "uki"}
  Content <- MCContent
  Label <- MCLabel
  Cut <- MCCut
  Cids = {1}
  Calls <- MCCalls
  Faults = {"kill", "create", "cid", "export", "spawn", "rm"}
INVARIANTS
  MkukiTypeOK
  ReleaseIsAdmitted
  ExportCleansUp
PROPERTIES
  BuildIdTraces
