\* Two queries, one input revision, three sessions, every feature on: safety.
CONSTANTS
  q1 = q1
  q2 = q2
  Queries = {q1, q2}
  Revisions = {1}
  MaxGen = 3
  HasRecovery = TRUE
  HasLoader = TRUE
  Follow = TRUE
SPECIFICATION Spec
SYMMETRY Callers
INVARIANTS
  TypeOK
  OneOwner
  UnsavedIsHidden
PROPERTIES
  UnsavedNeverServed
  PersistenceFailedIsFinal
