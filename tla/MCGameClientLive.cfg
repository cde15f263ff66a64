\* Two callers, three sessions outside Japan: every call returns.
CONSTANTS
  o1 = o1
  o2 = o2
  Ops = {o1, o2}
  QueueCapacity = 1
  MaxGen = 3
  JP = FALSE
SPECIFICATION LiveSpec
PROPERTY CallsReturn
