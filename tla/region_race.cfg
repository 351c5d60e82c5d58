\* Three threads race for blocks, and current may wrap.
SPECIFICATION FairSpec
CONSTANTS
  t1 = t1
  t2 = t2
  t3 = t3
  h1 = h1
  h2 = h2
  Thread = {t1, t2, t3}
  Handle = {h1, h2}
  HandleOf <- MCHandleOf
  Request <- MCRequests
  Align = 8
  WordMod = 96
  HeaderSize = 24
  TotalSize = 40
  MaxCalls <- ThreeCallers
INVARIANTS
  TypeOK
  Aligned
  NoOverlap
  CountAccounts
PROPERTIES
  AllocateReturns
  KeepsPromise
