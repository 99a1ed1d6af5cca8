SPECIFICATION OperatorsSpec
VIEW Objects
CONSTANTS
  e1 = e1
  e2 = e2
  e3 = e3
  v1 = v1
  v2 = v2
  mixed = mixed
  Elements = {e1, e2, e3, v1, v2, mixed}
  Vectors = {v1, v2, mixed}
  Mixed = mixed
  Clients <- DeepJoins
PROPERTIES
  JoinKeepsNumel
