SPECIFICATION Spec
CONSTANTS
  MaxGen = 2
  Callers = {c1}
  Tasks = {t1, t2}
  r1 = r1
  Requests = {r1, r2, r3}
  Anonymous = {r3}
  Size <- MCSize
  Capacity = 2
  MaxBytes = 2
  MaxInflight = 2
SYMMETRY Exchangeable
INVARIANTS TypeOK BytesExact SingleFlight
