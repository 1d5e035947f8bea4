\* One call to a core that may refuse our credentials.
CONSTANTS
  c1 = c1  s1 = s1  c2 = c2  s2 = s2  c3 = c3  s3 = s3  r = r  l = l  t1 = t1  t2 = t2
  NoResult = NoResult
  Ends = {c1, s1}
  Peer <- MCPeer
  Clients = {c1}
  Local = {c1}
  Threads = {t1}
  Tries <- OneModule
  Versions = {1}
  Guarded = {s1}
  Faults <- NoFaults
  Impatient = FALSE
  MaxNet = 0
SPECIFICATION MapSpec
INVARIANTS
  StateInstantiated
CHECK_DEADLOCK FALSE
