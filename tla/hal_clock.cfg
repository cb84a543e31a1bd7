SPECIFICATION FairSpec
CONSTANTS
  U32 = 4
  Alarms = {a, b, c}
  Head = head
  Intervals = {0, 1, 2}
  Periods = {0, 1, 3}
INVARIANTS
  ListIntact
PROPERTIES
  RingsOnTime
  TickReturns
  EveryAlarmRings
