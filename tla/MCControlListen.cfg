SPECIFICATION Spec
CONSTANTS
  w = w
  r = r
  g = g
  v = v
  u = u
  Word <- MCWord
  Numeral <- MCNumeral
  Canon <- MCCanon
  Precedes <- MCPrecedes
  ScalarType = {"string"}
  Scalar = {"x", "y"}
  Nil = Nil
  Caller <- ListenCaller
  Visitor <- ListenVisitor
  Operation <- ListenOperation
  NameOf <- ListenName
  Road <- MCRoad
  Data <- MCData
  Timeout = {1}
  Template <- MCTemplate
  ReadCapacity = 1
  BufferCapacity = 1
  Buffer = {b1, b2, b3}
  MaxCalls <- ListenCalls
SYMMETRY Buffers
CHECK_DEADLOCK FALSE
INVARIANTS
  TypeOK
  DrainedIsCurrent
  StampsInOrder
PROPERTIES
  ListenerKept
