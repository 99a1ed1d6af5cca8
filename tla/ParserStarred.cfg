CONSTANTS
  Programs <- Starred
  Within <- MCWithin
  Expressions <- MCExpressions
  Annotations <- MCAnnotations
SPECIFICATION Spec
CHECK_DEADLOCK FALSE
INVARIANT
  Faithful
