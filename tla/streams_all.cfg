\* One thread: every short chain, every publisher and loop.  Two or three threads
\* over bounded and unbounded queues: producer and consumer, a relay, and a fan-out
\* through a Tee.
SPECIFICATION FairSpec
CONSTANTS
  t1 = t1
  t2 = t2
  t3 = t3
  c1 = c1
  c2 = c2
  None = None
  Thread = {t1, t2, t3}
  Channel = {c1, c2}
  Wiring <- AllWirings
  Apply <- MCApply
INVARIANTS
  TypeOK
  SignalProtocol
  EndIsSignalled
  TakeStopsPublisher
  StreamingMatchesBatch
  EndToEnd
  DecouplerLosesAtMostOne
PROPERTIES
  Termination
