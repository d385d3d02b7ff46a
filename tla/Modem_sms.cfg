SPECIFICATION SpecLive
CONSTANTS
  Messages <- TheMessages
  From <- TheFrom
  Replies <- TheReplies
  Known <- TheKnown
  Indexes = {1, 2}
  FifoLines = 1
INVARIANTS  RepliesReachTheirSender
PROPERTIES  EverySmsRuns
\* The system stops when every SMS has been handled.
CHECK_DEADLOCK FALSE
