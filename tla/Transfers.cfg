\* Two datagram peers of any family, one datagram lost or duplicated; four units over a
\* stream or a CAN bus with room for two, two calls fail; a server that accepts two
\* clients.
CONSTANTS
  Families = {"udp", "unix", "vsock"}
  Peers = {p1, p2}
  MaxSends <- SomeSends
  MaxRecvs <- SomeRecvs
  MaxFaults = 1
  p1 = p1
  p2 = p2
  Sockets = {"tcp", "unix", "vsock", "can"}
  Total = 4
  MaxCall = 2
  Room = 2
  MaxFails = 2
  MaxMoved = 6
  Clients = {c1, c2}
  Nobody = Nobody
  MaxSockets = 2
  MaxTries = 3
  c1 = c1
  c2 = c2

SPECIFICATION TransfersSpec
INVARIANTS TransfersTypeOK InStep AcksCovered Conveyed OwnClient
PROPERTIES ExchangeEnds ServedAll

\* A peer whose answer was lost, a stream that is used up, and clients that do not ask
\* again stop.
CHECK_DEADLOCK FALSE
