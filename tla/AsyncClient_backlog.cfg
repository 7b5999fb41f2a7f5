CONSTANTS
  Callers = {ui, chatWorker}
  Chat = chatWorker
  MaxId = 2
  SendCap = 1
  OutCap = 1
  Faulty = FALSE
  WireCap = 2
  MaxSends = 1
  MaxChats = 3
SPECIFICATION FairSpec
PROPERTY RequestsEnd
CHECK_DEADLOCK FALSE
