SPECIFICATION Spec
CONSTANTS
  Program <- Programs
  Name <- Names
  Declared <- Lines
  NULL = NULL
  Unset = Unset
INVARIANTS
  TypeOK
  SearchSucceeds
  OneOfEachName
