\* A Take fed by an Unzip.
SPECIFICATION Spec
CONSTANTS
  t1 = t1
  t2 = t2
  t3 = t3
  c1 = c1
  c2 = c2
  None = None
  Thread = {t1, t2, t3}
  Channel = {c1, c2}
  Wiring <- UnzipTakeWirings
  Apply <- MCApply
INVARIANTS
  CompletedOnce
