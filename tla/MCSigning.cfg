\* Three builds one after the other for two output paths; each may fail or be
\* killed at any step.
CONSTANTS
  Build = {b1, b2, b3}
  Output = {o1, o2}
  None = None
  Alone = TRUE
SPECIFICATION Spec
SYMMETRY Symmetry
CHECK_DEADLOCK FALSE
INVARIANTS
  TypeOK
  OnlyKillsStrand
  AllOrNothing
PROPERTIES
  ImplementsIdentity
  ExistingOutputsStay
