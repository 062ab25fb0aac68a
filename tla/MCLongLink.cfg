\* A hard link whose target does not fit the tar header.
SPECIFICATION Spec
CONSTANTS
  None = None
  Path <- MCPath
  Rank <- MCRank
  LongPath <- LongPaths
  Cut <- MCCut
  Word = 8
  Perms = {"rwx", "rw-", "rwxrwxrwx"}
  Inputs <- LongInputs
INVARIANTS
  UnpacksTheLayers
CHECK_DEADLOCK FALSE
