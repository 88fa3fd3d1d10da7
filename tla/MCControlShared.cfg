SPECIFICATION Spec
CONSTANTS
  w = w
  r = r
  g = g
  v = v
  u = u
  Word <- MCWord
  Numeral <- MCNumeral
  Canon <- MCCanon
  Precedes <- MCPrecedes
  ScalarType = {"string"}
  Scalar = {"x", "y"}
  Nil = Nil
  Caller <- ServeCaller
  Visitor <- ServeVisitor
  Operation <- SharedOperation
  NameOf <- SharedName
  Road <- LiveRoad
  Data <- LiveData
  Timeout = {1}
  Template <- MCTemplate
  ReadCapacity = 1
  BufferCapacity = 2
  Buffer = {b1, b2}
  MaxCalls <- SharedCalls
SYMMETRY Buffers
CHECK_DEADLOCK FALSE
INVARIANTS
  WaiterIsCurrent
