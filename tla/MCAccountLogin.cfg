SPECIFICATION Spec
CONSTANTS
  None = None
  Users = {u1, u2}
  ManualDir = manual
  Servers = {s1, s2}
  Commands = {c1}
  MaxLogins = 2
SYMMETRY Symmetry
INVARIANTS
  TypeOK
  PointerComplete
  PasswordOnlyWhenNeeded
  OneIdentity
PROPERTIES
  OnlyWantedRoles
  PublishedSpec
