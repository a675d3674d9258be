CONSTANTS
  Client = {c1, c2, c3}
  MaxConnections = 2
  MaxHead = 3
  Request <- MCRequest
  MaxBody = 1
  MaxCalls = 3
SPECIFICATION Spec
INVARIANTS TypeOK AnswersInOrder FilesClosed
PROPERTIES Answered
