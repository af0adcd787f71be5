SPECIFICATION FairSpec
CONSTANTS
  InitSlots = 1
  EventsSize = 1
  CtlFailures = {}
  c1 = c1
  c2 = c2
  c3 = c3
  Clients = {c1, c2}
  Free = Free
  Listener = Listener
  FirstFd = 1
  LastFd = 2
  OptFailures = {"nonblocking", "nodelay"}
  Lines = {"query", "plain", "broken", "odd", "endless"}
  MaxArrivals = 2
  ReplyChunks = 2
  Window = 1
PROPERTIES
  HungUpIsReleased
  RequestIsRead
CHECK_DEADLOCK FALSE
