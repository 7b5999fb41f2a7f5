CONSTANTS
  Callers = {ui, chatWorker}
  Chat = chatWorker
  MaxId = 2
  SendCap = 1
  OutCap = 1
  Faulty = TRUE
  WireCap = 2
  MaxSends = 3
  MaxChats = 3
SPECIFICATION FairSpec
INVARIANTS AnswersMatch SenderKept NoStaleEntry
PROPERTIES RequestsEndBeforeStop RelayedAreTaken
CHECK_DEADLOCK FALSE
