SPECIFICATION FairSpec
CONSTANTS
  w = w
  r = r
  g = g
  v = v
  u = u
  Word <- MCWord
  Numeral <- MCNumeral
  Canon <- MCCanon
  Precedes <- MCPrecedes
  ScalarType = {"string"}
  Scalar = {"x", "y"}
  Nil = Nil
  Caller <- ServeCaller
  Visitor <- ServeVisitor
  Operation <- LiveOperation
  NameOf <- LiveName
  Road <- LiveRoad
  Data <- LiveData
  Timeout = {0}
  Template <- MCTemplate
  ReadCapacity = 1
  BufferCapacity = 1
  Buffer = {b1, b2}
  MaxCalls <- LiveCalls
CHECK_DEADLOCK FALSE
PROPERTIES
  KernelReturns
  CallsReturn
