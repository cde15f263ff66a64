\* One query and the poller: a refusal seen of one session closes the next.
CONSTANTS
  q1 = q1
  Queries = {q1}
  Revisions = {1}
  MaxGen = 2
  HasRecovery = FALSE
  HasLoader = FALSE
  Follow = TRUE
SPECIFICATION Spec
PROPERTY StaleNeverCrosses
