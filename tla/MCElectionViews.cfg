\* Two elections on pages of one, the first of them created meanwhile.
SPECIFICATION FairSpec
CONSTANTS
  r1 = r1  nil = nil
  Nil = nil
  Requests = {r1}
  Elections = {1, 2}
  Old = {2}
  StartBlock <- Starts
  BlockCount <- Counts
  Confidential = {1}
  Blind = {2}
  AvgTimes <- Averages
  PageSize = 1
  Near = 2
  Far = 3
  Fallback = 4
  Filters = {"PAUSED", "ENDED", "ACTIVE", "UPCOMING", "BLIND", "READY"}
  FirstHeight = 3
  MaxHeight = 4
  MaxChanges = 1
INVARIANTS TypeOK ListAgrees ListComplete DatesAgree
PROPERTIES ListAnswered ListIsSnapshot
CHECK_DEADLOCK FALSE
