\* One call while another core connects to this one.
CONSTANTS
  c1 = c1  s1 = s1  c2 = c2  s2 = s2  c3 = c3  s3 = s3  r = r  l = l  t1 = t1  t2 = t2
  NoResult = NoResult
  Ends = {c1, s1, r, l}
  Peer <- MCPeer
  Clients = {c1, r}
  Local = {c1, l}
  Threads = {t1}
  Tries <- OneModule
  Versions = {1}
  Guarded = {}
  Faults <- NoFaults
  Impatient = FALSE
  MaxNet = 0
SPECIFICATION MapSpec
INVARIANTS
  ZeroMeansMapped
CHECK_DEADLOCK FALSE
