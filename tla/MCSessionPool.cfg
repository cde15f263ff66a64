SPECIFICATION Spec
CONSTANTS
  N = 2
  MaxGen = 3
  Queries = {q1, q2}
SYMMETRY Exchangeable
INVARIANTS TypeOK FairRotation OnlyOwnFailures
