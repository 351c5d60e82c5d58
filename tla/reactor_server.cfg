\* Two peers and one or two slots: with one the second waits, is refused, or gets
\* the slot of the first.
SPECIFICATION FairSpec
CONSTANTS
  Client = {}
  Inbound = {i1, i2}
  Srv = Srv
  None = None
  Slots = {1, 2}
  TimerSlots = 0
  QueueSize = 1
  NotifyCap = 1
  Window = 1
  Room = 1
  Frames = 1
  Requests = 0
INVARIANTS
  EventPending
  SlabConsistent
  StrayOnlyAfterRemoval
PROPERTIES
  SendReturns
  HangupReleases
CHECK_DEADLOCK FALSE
