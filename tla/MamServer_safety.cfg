SPECIFICATION Spec
CONSTANTS
  InitSlots = 1
  EventsSize = 2
  CtlFailures = {3}
  c1 = c1
  c2 = c2
  c3 = c3
  Clients = {c1, c2, c3}
  Free = Free
  Listener = Listener
  FirstFd = 1
  LastFd = 3
  OptFailures = {"nonblocking", "nodelay"}
  Lines = {"query", "plain", "broken", "odd", "endless"}
  MaxArrivals = 2
  ReplyChunks = 2
  Window = 1
SYMMETRY ClientSymmetry
INVARIANTS
  TypeOK
  CountIsRegistered
  TableMatchesKernel
  BatchIsCurrent
  ConnectionsDispatchable
  RepliesAreOwed
PROPERTIES
  ClosesOnlyHungUp
  ImplementsService
CHECK_DEADLOCK FALSE
