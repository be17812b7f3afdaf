SPECIFICATION Spec
CONSTANTS
  Files = {}
  Bearer = TRUE
  RequestCap = 9
  MaxHops = 2
  MaxGets = 2
  Subtitles = {}
  Variant <- MCVariant
  Kind <- MCKind
  Worth <- MCWorth
  Shows = {}
  Meant = {}
  PageSize = 2
  MaxPages = 3
  MaxResults = 4
  MaxOffered = 2
  MaxAltered = 2
  Processes = {p1, p2}
  Nobody = nobody
  Variants = {111, 112}
  Season <- MCSeason
  Number <- MCNumber
  Versions = {1, 2}
  Requests = {"episode 1", "season 1", "IMDb, episode 1"}
  Of <- MCOf
  Episodes <- MCEpisodes
  Titles = {"t"}
  MaxChanges = 1
  Pieces <- NoPieces
SYMMETRY Interchangeable
INVARIANT SupersetReused
CHECK_DEADLOCK FALSE
