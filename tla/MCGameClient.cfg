\* Three callers of a JP session, all admitted, three sessions: safety.
CONSTANTS
  o1 = o1
  o2 = o2
  o3 = o3
  Ops = {o1, o2, o3}
  QueueCapacity = 2
  MaxGen = 3
  JP = TRUE
SPECIFICATION Spec
SYMMETRY Slots
INVARIANTS
  TypeOK
  OverrideSpentOnce
PROPERTIES
  BlockedNeverSent
  InstallsOverOwnSession
  ImplementsLifecycle
