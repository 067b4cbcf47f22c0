\* One request, with dates in the past, in every period and beyond a word.
SPECIFICATION FairSpec
CONSTANTS
  r1 = r1  nil = nil
  Nil = nil
  Word = 32
  Milli = 2
  Near = 3
  Far = 6
  Fallback = 4
  Requests = {r1}
  Dates = {0, 2, 7, 20}
  AvgTimes <- Averages
  FirstHeights = {2}
  MaxHeight = 3
  MaxClock = 2
INVARIANTS TypeOK InvertedExplained WholeReads
PROPERTIES NeverShort RequestsAnswered
