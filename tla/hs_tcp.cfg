\* Two connections over TCP: in order, nothing lost; cores of equal or different
\* versions; a server that may not find the endpoint; on one connection the
\* server's core has access modules, on the other the client's.
CONSTANTS
  c = c
  s = s
  c2 = c2
  s2 = s2
  Ends = {c, s, c2, s2}
  Peer <- MCPeer
  Clients = {c, c2}
  Versions = {1, 2}
  Guarded = {s, c2}
  Faults <- NoFaults
  Impatient = FALSE
  MaxNet = 0
SPECIFICATION FairSpec
INVARIANTS
  NothingIgnored
PROPERTIES
  Settles
CHECK_DEADLOCK FALSE
