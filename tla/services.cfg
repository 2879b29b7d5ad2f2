SPECIFICATION ServicesSpec
CONSTANTS
  CR = CR
  LF = LF
  Requests <- FiveRequests
  MaxRequests = 3
  Ahead = 2
  Clients = {c1, c2}
  Second = c2
  Lengths = {0, 2, 3}
  Prefix = 1
  Buffer = 4
  Programs = {"calc", "http", "tcpecho", "udp", "port"}
INVARIANTS InStep  ClientsServedRight
PROPERTIES RequestsSettled EchoesOrStarves NoOneLeftWaiting
CHECK_DEADLOCK FALSE
