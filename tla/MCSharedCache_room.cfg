SPECIFICATION Spec
CONSTANTS
  Process = {p, q}
  Season = {"s1", "s2"}
  NoOne = NoOne
  Torn = Torn
  File = {1, 2, 3}
  SeasonOf <- PairAndSingle
  Scope <- Pair
  Cap = 11
  LargestBody = 1
  MaxDeaths = 1
  MaxFailures = 0
SYMMETRY Alike
INVARIANTS RoomIsThere BusyMeansOwned WorkingSetKept
CHECK_DEADLOCK FALSE
