SPECIFICATION FairSpec
CONSTANTS
  e1 = e1
  e2 = e2
  x1 = x1
  x2 = x2
  None = None
  Event <- MCEvent
  EachEvent <- MCEachEvent2
  Delay <- MCDelay
  TimeLen = 2
  Word = 4
  Slots = {0, 3}
  Dots = {1}
  LineLen = 2
INVARIANTS TypeOK Listed NoneMissed NoneForgotten WalkExact EachServedOnce
PROPERTIES KeepsPromise RunTerminates
