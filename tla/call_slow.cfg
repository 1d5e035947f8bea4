\* One caller of a core that may take longer than the wait.
CONSTANTS
  t1 = t1  rx = rx
  NoId = NoId  Nothing = Nothing  Notice = Notice
  Callers = {t1, rx}
  Receiver = rx
  MaxCalls <- OneCallerTwice
  MaxNotices = 0
  Prompt = FALSE
SPECIFICATION Spec
INVARIANTS
  OwnReply
CHECK_DEADLOCK FALSE
