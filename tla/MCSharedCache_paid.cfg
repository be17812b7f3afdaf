SPECIFICATION Spec
CONSTANTS
  Process = {p, q}
  Season = {"s1", "s2"}
  NoOne = NoOne
  Torn = Torn
  File = {1, 2}
  SeasonOf <- FilePerSeason
  Scope <- Two
  Cap = 10
  LargestBody = 1
  MaxDeaths = 0
  MaxFailures = 1
SYMMETRY Alike
INVARIANT PaidAlwaysFits
CHECK_DEADLOCK FALSE
