\* Two processes create, load, fill and drop a file of three pages;
\* processes and the machine crash.
SPECIFICATION Spec
CONSTANTS
  Proc = {p1, p2}
  Sizes = {3}
  MaxStores = 2
INVARIANTS
  TypeOK
  DroppedSurvives
  HandlesDisjoint
