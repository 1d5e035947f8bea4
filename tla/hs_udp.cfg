\* One connection over UDP: datagrams lost, reordered and duplicated, waits of
\* core_map that end early, and connections that break.
CONSTANTS
  c = c
  s = s
  c2 = c2
  s2 = s2
  Ends = {c, s}
  Peer <- MCPeer
  Clients = {c}
  Versions = {1, 2}
  Guarded = {c, s}
  Faults <- AllFaults
  Impatient = TRUE
  MaxNet = 3
SPECIFICATION Spec
INVARIANTS
  MutualAuthentication
  VersionGate
  ClientAgreesWithServer
PROPERTIES
  NeverBack
  SessionSpec
CHECK_DEADLOCK FALSE
