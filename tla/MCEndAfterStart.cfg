\* Dates in two periods with different averages.
SPECIFICATION Spec
CONSTANTS
  r1 = r1  nil = nil
  Nil = nil
  Word = 32
  Milli = 2
  Near = 3
  Far = 6
  Fallback = 4
  Requests = {r1}
  Dates = {5, 7}
  AvgTimes <- Averages
  FirstHeights = {1}
  MaxHeight = 1
  MaxClock = 0
INVARIANT EndAfterStart
