CONSTANTS
  app1 = app1
  app2 = app2
  th1 = th1
  th2 = th2
  th3 = th3
  rdc1 = rdc1
  rdc2 = rdc2
  Requesters = {app1, app2}
  Threads = {th1, th2, th3}
  ProcessOf <- MCProcessOf
  MaxRequests = 3
  Src = Src
  Snk = Snk
  Fds = {1}
  Capacity = 2
  MaxWire = 4
  RdcOrder <- MCRdcOrder
  Unwraps = {rdc2}
  MaxPolls = 1
  MaxCommands = 4
  MaxFailures = 2
  Conns = {1, 2}
  Outgoing = {2}
  Socks = {1, 2}
  NodeCommands <- MCNodeCommands
  MaxAppCalls = 2
  Room = 1
SPECIFICATION Spec
INVARIANTS
  FlowsTypeOK
  WrongAnswerHasCause
  WrittenRight
  ResultOwnOrDoubtful
  OwnStateOnly
  RightInTime
PROPERTIES
  RequestsAnswered
  ReceiverComesBack
  CommandsReturn
  LeftIsClosed
  LibraryReturns
CHECK_DEADLOCK FALSE
