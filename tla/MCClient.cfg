SPECIFICATION ClientFairSpec
CONSTANTS
  a = a
  h1 = h1
  h2 = h2
  s = s
  Nil = Nil
  Connection = {1, 2}
  Requester <- MCRequester
  EndOf <- MCEndOf
  MaxRequests = 1
  WireCapacity = 1
  App = {a}
  Heart = {h1, h2}
  AutoReconnect = TRUE
  MaxConnections = 2
  MaxCalls = 1
  Served = {1}
CHECK_DEADLOCK FALSE
PROPERTIES
  WaitedForHeartbeats
  Reconnects
