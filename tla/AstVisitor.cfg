CONSTANTS
  Programs <- MCPrograms
  Within <- MCWithin
  Expressions <- MCExpressions
  Annotations <- MCAnnotations
SPECIFICATION Spec
CHECK_DEADLOCK FALSE
INVARIANTS
  TypeOK
  Faithful
  TypesInferred
  ScopesClosed
  FedOnce
  DepthIsNesting
  TestsAccepted
PROPERTIES
  TypesSettle
