SPECIFICATION Spec
CONSTANTS
  Separation = 2
  Spread = 1
  QueryStarts = {0, 2, 4, 5}
  Offsets = {0, 1, 2}
  Weights = {2, 3}
  MaxAnchors = 4
  Inputs <- Lists
  MaxReferences = 3
  MaxShingles = 12
  PerReference = 4
  TotalPairs = 5
  MinShingles = 2
  MinSupport = 1
  Share <- AThird
  Sayings <- Says
  Later = {1, 2, 4}
  Cases <- AllCases
  Films <- TextAndPictures
  Checkpoints <- FirstAndThird
  PerMilli = 2
  TrackTime = 4
  PerPacket = 2
  TrackPackets = 3
  MaxCues = 4
  MaxChanges = 1
  ObjectIds = {1, 2}
  PaletteIds = {1}
  WindowIds = {1}
  Canvases = {1}
  Versions = {0}
  Sizes = {1, 2}
  Pieces = {1, 2}
  MaxObjects = 1
  MaxPalettes = 1
  MaxState = 4
  MaxSegments = 6
  MaxPackets = 1
  MaxDisplays = 2
  MaxTime = 0
  MkvFiles <- SmallMkvFiles
  Selected = {1}
  Elements = 17
  Scale = 2
  Mp4Files <- SmallMp4Files
  Timescale = 2
  MovieScale = 3
  NsPerSecond = 5
  NsPerMs = 2
  ReadBytes = 15
  SampleBytes = 2
INVARIANTS ScanTyped BestIsLongest BestSupported VerdictIsExact TwinsCannotIdentify OutcomeOfSnapshot AssessmentIsFinal PicturesAreWhole WalkIsWhole CaptionsArePlaced
CHECK_DEADLOCK FALSE
