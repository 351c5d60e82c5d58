\* A buffer is changed while bytes of an earlier read are in it.
SPECIFICATION Spec
CONSTANTS
  FrameSize = 3
  BufSize = 7
  MinBuf = 2
  MaxBytes = 16
INVARIANT
  NothingLost
