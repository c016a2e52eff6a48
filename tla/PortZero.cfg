SPECIFICATION Spec
CONSTANT U16 = 5
INVARIANTS
  LocalPortInRange
