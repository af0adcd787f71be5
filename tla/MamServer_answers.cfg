SPECIFICATION Spec
CONSTANTS
  InitSlots = 1
  EventsSize = 2
  CtlFailures = {}
  c1 = c1
  c2 = c2
  c3 = c3
  Clients = {c1}
  Free = Free
  Listener = Listener
  FirstFd = 1
  LastFd = 2
  OptFailures = {"nonblocking", "nodelay"}
  Lines = {"query", "plain"}
  MaxArrivals = 1
  ReplyChunks = 2
  Window = 1
INVARIANTS
  EveryRequestAnswered
CHECK_DEADLOCK FALSE
