\* Two calls at a time: one has two modules to try, the other one module, which
\* does not keep the order and for which the core has access modules; a wait that
\* nobody cuts short ends only when nothing more can come.
CONSTANTS
  c1 = c1  s1 = s1  c2 = c2  s2 = s2  c3 = c3  s3 = s3  r = r  l = l  t1 = t1  t2 = t2
  NoResult = NoResult
  Ends = {c1, s1, c2, s2, c3, s3}
  Peer <- MCPeer
  Clients = {c1, c2, c3}
  Local = {c1, c2, c3}
  Threads = {t1, t2}
  Tries <- TwoThreads
  Versions = {1}
  Guarded = {c1}
  Faults <- FirstUnordered
  Impatient = FALSE
  MaxNet = 0
SPECIFICATION FairMapSpec
INVARIANTS
  MapsRightAlone
  OneMappingPerCall
PROPERTIES
  MapReturns
CHECK_DEADLOCK FALSE
