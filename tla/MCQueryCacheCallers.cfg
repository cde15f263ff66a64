SPECIFICATION LiveSpec
CONSTANTS
  MaxGen = 2
  Callers = {c1, c2}
  Tasks = {t1, t2}
  r1 = r1
  Requests = {r1}
  Anonymous = {}
  Size <- MCSize
  Capacity = 1
  MaxBytes = 2
  MaxInflight = 2
INVARIANTS ChangedIsOwn
PROPERTIES ServedIsolated AnswerComes
CHECK_DEADLOCK FALSE  \* every caller may be turned away at once, and nothing is left to do
