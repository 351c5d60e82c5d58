\* Frames of three bytes, buffers of seven, arrivals of any size.
SPECIFICATION Spec
CONSTANTS
  FrameSize = 3
  BufSize = 7
  MinBuf = 2
  MaxBytes = 16
INVARIANTS
  TypeOK
  RoomToRead
  StreamIntact
  WholeReadsDeliver
