\* Tar streams in every order and spelling, directories, and two layers.
SPECIFICATION Spec
CONSTANTS
  None = None
  Path <- MCPath
  Rank <- MCRank
  LongPath = {}
  Cut <- MCCut
  Word = 8
  Perms = {"rwx", "rw-", "rwxrwxrwx"}
  Inputs <- MCInputs
INVARIANTS
  TypeOK
  Reproducible
  UnpacksTheLayers
CHECK_DEADLOCK FALSE
