\* Two stream servers and a client at one path; a datagram server and a client.
CONSTANTS
  StreamServers = {s1, s2}
  StreamClients = {c1}
  DgramServers = {d1}
  DgramClients = {e1}
  MaxFaults = 2
  s1 = s1
  s2 = s2
  c1 = c1
  d1 = d1
  e1 = e1

SPECIFICATION FairSpec
INVARIANT StaysReachable
