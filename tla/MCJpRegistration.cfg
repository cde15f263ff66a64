SPECIFICATION FairSpec
CONSTANTS
  Names = {a, b}
  Commands = {c1, c2}
  Own = own
INVARIANTS
  TypeOK
  OneRequest
  AnswerKeptFirst
PROPERTIES
  NeverOverwritten
  AnswerSaved
