\* One query, two input revisions, four sessions: how often workers start,
\* and that they and the poller end.
CONSTANTS
  q1 = q1
  Queries = {q1}
  Revisions = {1, 2}
  MaxGen = 4
  HasRecovery = TRUE
  HasLoader = TRUE
  Follow = TRUE
SPECIFICATION LiveSpec
INVARIANT AttemptBudget
PROPERTIES
  WorkersEnd
  SyncsEnd
