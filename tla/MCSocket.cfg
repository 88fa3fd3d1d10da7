SPECIFICATION FairSpec
CONSTANTS
  a = a
  h = h
  s = s
  Nil = Nil
  Connection = {1}
  Requester <- MCRequester
  EndOf <- MCEndOf
  MaxRequests = 2
  WireCapacity = 1
CHECK_DEADLOCK FALSE
INVARIANTS
  TypeOK
  OwnAnswer
  AtMostOnce
  AnswerFindsRequest
PROPERTIES
  RequestsReturn
  ConnectionEnds
  SilentCutEnds
