SPECIFICATION Spec
CONSTANTS
  Address = {n1, n2, n3, n4}
  Key = {1, 2, 3}
  NULL = NULL
SYMMETRY Addresses
INVARIANTS
  TypeOK
  QueueLinked
PROPERTIES
  ImplementsList
