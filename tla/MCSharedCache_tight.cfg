SPECIFICATION FairSpec
CONSTANTS
  Process = {p, q}
  Season = {"s1", "s2"}
  NoOne = NoOne
  Torn = Torn
  File = {1, 2}
  SeasonOf <- FilePerSeason
  Scope <- Two
  Cap = 7
  LargestBody = 2
  MaxDeaths = 0
  MaxFailures = 1
INVARIANTS CapKept TracesHaveManifest
PROPERTIES LeasesHold InvocationsEnd
CHECK_DEADLOCK FALSE
