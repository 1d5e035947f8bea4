\* An application thread and handlers that call, answers of any delay.
CONSTANTS
  t1 = t1  rx = rx
  NoId = NoId  Nothing = Nothing  Notice = Notice
  Callers = {t1, rx}
  Receiver = rx
  MaxCalls <- WithHandler
  MaxNotices = 2
  Prompt = FALSE
SPECIFICATION FairSpec
INVARIANTS
  AtMostOneBehind
  Backlog
  HandlerUnanswered
PROPERTIES
  CallsReturn
CHECK_DEADLOCK FALSE
