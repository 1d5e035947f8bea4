\* One caller of a core that answers within the wait, or not at all.
CONSTANTS
  t1 = t1  rx = rx
  NoId = NoId  Nothing = Nothing  Notice = Notice
  Callers = {t1, rx}
  Receiver = rx
  MaxCalls <- OneCallerTwice
  MaxNotices = 0
  Prompt = TRUE
SPECIFICATION Spec
INVARIANTS
  AnsweredReturns
CHECK_DEADLOCK FALSE
