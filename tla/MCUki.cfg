\* Stubs with and without room, and sections of every kind.
SPECIFICATION Spec
CONSTANTS
  None = None
  Word = 128
  MaxSections = 6
  SECTION_HEADER_SIZE = 2
  Stubs <- MCStubs
  Specs <- MCSpecs
INVARIANTS
  MemoryLayout
  FileLayout
  BuildsWhatFits
CHECK_DEADLOCK FALSE
