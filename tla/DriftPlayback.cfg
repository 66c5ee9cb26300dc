SPECIFICATION Spec
CONSTANTS
  Registry <- MCOne
  Reported = {"p1"}
  EveryNDays = 1
  Members = {}
  Listings <- MCPlain
  Nothing = Nothing
  StrikeCap = 2
  MaxPlays = 2
PROPERTIES SilenceDecidesNothing
