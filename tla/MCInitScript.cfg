\* Every command may fail.
SPECIFICATION Spec
CHECK_DEADLOCK FALSE
INVARIANTS
  HandOff
  StopsOnlyOnFault
