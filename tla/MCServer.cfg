SPECIFICATION CenterFairSpec
CONSTANTS
  w = w
  h = h
  q = q
  v = v
  Word <- MCWord
  Numeral <- MCNumeral
  Canon <- MCCanon
  Precedes <- MCPrecedes
  ScalarType = {"string"}
  Scalar = {"x", "y"}
  Nil = Nil
  Caller <- MCCaller
  Visitor = {"default", v}
  Operation <- MCOperation
  NameOf <- MCNameOf
  Road <- ServerRoad
  Data <- ServerData
  Timeout = {1}
  Template <- MCTemplate
  ReadCapacity = 1
  BufferCapacity = 1
  Buffer = {b1, b2}
  MaxCalls <- MCCalls
  HttpCaller = {w}
  VisitorParameter = {""}
  WaitParameter <- ServerWait
  defaultVisitorName = "default"
  SocketReader = h
  Poll = {q}
  Client = v
  Command = {"RegisterNotify", "Write", "UnblockRead"}
  WireCapacity = 1
  MaxRequests = 1
CHECK_DEADLOCK FALSE
INVARIANTS
  OwnChannel
  OwnOutcome
PROPERTIES
  ClientCatchesUp
  HandlerReturns
  PollsEnd
