\* One client that may talk first, and the end of its engine.
SPECIFICATION FairSpec
CONSTANTS
  Client = {c1}
  Inbound = {}
  Srv = Srv
  None = None
  Slots = {0, 1}
  TimerSlots = 1
  QueueSize = 1
  NotifyCap = 2
  Window = 1
  Room = 1
  Frames = 2
  Requests = 2
INVARIANTS
  TypeOK
  EventPending
  SlabConsistent
PROPERTIES
  SendReturns
  HangupReleases
  ArrivedIsRead
  HangupEndsStream
CHECK_DEADLOCK FALSE
