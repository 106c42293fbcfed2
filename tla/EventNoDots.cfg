SPECIFICATION FairSpec
CONSTANTS
  e1 = e1
  e2 = e2
  x1 = x1
  x2 = x2
  None = None
  Event = {e1}
  EachEvent = {}
  Delay = {1}
  TimeLen = 2
  Word = 4
  Slots = {3}
  Dots = {0}
  LineLen = 2
PROPERTIES NoDotsWanted
