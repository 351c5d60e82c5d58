\* Loop times of six, three, two and no units; callbacks that keep them or do not.
SPECIFICATION Spec
CONSTANTS
  Rates = {1, 2, 3, 7}
  Second = 6
  MaxSpan = 4
  Slack = 1
  MaxTurns = 4
INVARIANTS
  TurnsApart
  StartsInTime
