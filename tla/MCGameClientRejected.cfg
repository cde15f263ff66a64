\* One caller, two sessions: a rejected token does not stay blocked.
CONSTANTS
  o1 = o1
  Ops = {o1}
  QueueCapacity = 0
  MaxGen = 2
  JP = FALSE
SPECIFICATION Spec
INVARIANT RejectedTokenStaysBlocked
