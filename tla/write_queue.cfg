\* Buffers of 0 to 3 bytes into a socket that takes two at a time.
SPECIFICATION FairSpec
CONSTANTS
  Room = 2
  MaxBuf = 3
  MaxQueue = 2
  MaxBytes = 7
INVARIANTS
  TypeOK
  WrittenInOrder
  WakeupPending
PROPERTIES
  OutputFlushed
