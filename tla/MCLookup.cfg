SPECIFICATION Spec
CONSTANTS
  Files = {1, 2}
  Bearer = TRUE
  RequestCap = 9
  MaxHops = 2
  MaxGets = 2
  Subtitles = {1, 2, 3, 4, 5}
  Variant <- MCVariant
  Kind <- MCKind
  Worth <- MCWorth
  Shows = {1, 2, 3, 4, 5}
  Meant = {1, 4}
  PageSize = 2
  MaxPages = 3
  MaxResults = 3
  MaxOffered = 2
  MaxAltered = 2
  Processes = {p1, p2}
  Nobody = nobody
  Variants = {111, 121, 211}
  Season <- MCSeason
  Number <- MCNumber
  Versions = {1, 2}
  Requests = {"episode 1", "season 1", "next season"}
  Of <- MCOf
  Episodes <- MCEpisodes
  Titles = {"t", "u"}
  MaxChanges = 1
  Pieces <- ThreePieces
SYMMETRY Interchangeable
INVARIANTS LookupTyped OnePost ListsAreWhole SelectionsHold TranscriptIsWhole
PROPERTIES RefusalEndsIt NothingRewritten
CHECK_DEADLOCK FALSE
