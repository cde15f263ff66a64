\* Two requests at once for two permits less one, five kinds of them, and
\* seven configurations of which two are served.
CONSTANTS
  Disk <- MCDisk
  MaxSessions = 2
  MaxList = 2
  Configs <- MCConfigs
  Menu <- MCMenu
  r1 = r1
  r2 = r2
  Slots = {r1, r2}
  Admission = 1
SPECIFICATION FairSpec
INVARIANTS
  TypeOK
  AdmissionExact
  AsThePathSays
  OwnState
  QuietClose
PROPERTY ShutsDown
\* A process that has exited does nothing more.
CHECK_DEADLOCK FALSE
