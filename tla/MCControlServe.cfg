SPECIFICATION Spec
CONSTANTS
  w = w
  r = r
  g = g
  v = v
  u = u
  Word <- MCWord
  Numeral <- MCNumeral
  Canon <- MCCanon
  Precedes <- MCPrecedes
  ScalarType = {"string"}
  Scalar = {"x", "y"}
  Nil = Nil
  Caller <- ServeCaller
  Visitor <- ServeVisitor
  Operation <- ServeOperation
  NameOf <- ServeName
  Road <- ServeRoad
  Data <- ServeData
  Timeout = {0}
  Template <- MCTemplate
  ReadCapacity = 1
  BufferCapacity = 1
  Buffer = {b1, b2, b3}
  MaxCalls <- ServeCalls
SYMMETRY Buffers
CHECK_DEADLOCK FALSE
INVARIANTS
  DrainedIsCurrent
PROPERTIES
  BusImplemented
