SPECIFICATION FairSpec
CONSTANTS
  Registry <- MCTwo
  Reported = {}
  EveryNDays = 2
  Members = {"series"}
  Listings <- MCShapes
  Nothing = Nothing
  StrikeCap = 2
  MaxPlays = 0
INVARIANTS OneIssue
PROPERTIES StrikesDecide IssuesFollowTheWeather
