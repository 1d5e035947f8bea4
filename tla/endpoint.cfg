CONSTANTS
  hash1 = hash1
  hash2 = hash2
  name1 = name1
  EpKinds = {"SRC", "SNK", "REQ", "RESP", "RR", "STR_SNK"}
  AppCalls <- MCCalls
  MaxMessages = 2
  MaxEndpoints = 2
  MaxFrames = 1
  QTypes = {"SRC", "SNK", "REQ_P", "RESP_P", "STR_SNK"}
  Schemas = {hash1, hash2}
  Numbers = {2, 20}
  UserNames = {name1}
  UserFilters <- MCUserFilters
  MaxLocales = 2
  Absent = Absent
  Kinds = {"plain", "ssl", "krb5"}
  Subjects = {hash1, hash2}
  Objects = {"e"}
  Connections = {1}
  MaxLoads = 2
  MaxGrants = 3
  Missing = Missing
SPECIFICATION Spec
INVARIANTS
  EndpointTypeOK
  
  OnlyTenUnanswered
  QueryRight
  FoundEitherWay
  CrashNeedsFilter
  KeptForAccepted
  NotGrantedAgain
CHECK_DEADLOCK FALSE
