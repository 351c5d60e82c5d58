\* The slot of a removed connection is used again while an answer is on its way.
SPECIFICATION Spec
CONSTANTS
  Client = {}
  Inbound = {i1, i2}
  Srv = Srv
  None = None
  Slots = {1}
  TimerSlots = 0
  QueueSize = 1
  NotifyCap = 1
  Window = 1
  Room = 1
  Frames = 1
  Requests = 0
INVARIANTS
  RepliesReachTheirPeer
CHECK_DEADLOCK FALSE
