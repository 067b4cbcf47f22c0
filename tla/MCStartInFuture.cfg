\* A request before the first refresh of the cache.
SPECIFICATION Spec
CONSTANTS
  r1 = r1  nil = nil
  Nil = nil
  Word = 32
  Milli = 2
  Near = 3
  Far = 6
  Fallback = 4
  Requests = {r1}
  Dates = {12, 14}
  AvgTimes <- Averages
  FirstHeights = {20}
  MaxHeight = 20
  MaxClock = 0
PROPERTY StartInFuture
