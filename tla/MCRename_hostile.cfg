SPECIFICATION FairSpec
CONSTANTS
    N = 2
    Names <- TwoSpellings
    Files = {"fa", "fb", "x"}
    NoFile = NoFile
    NoName = NoName
    FsKey <- Aliased
    Key <- Folded
    MaxData = 0
    MaxMeta = 0
    Path <- TwoPaths
    Media <- TwoMedia
    Temps <- TwoTemps
    FolderCap = 9
    OpenPhases <- Always
    MovesFail = TRUE
    Scans <- Entangled
    Meddling = 0
    Tireless = TRUE
INVARIANT ReportIsTrue
PROPERTIES NoFileLost ApplyFinishes
CHECK_DEADLOCK FALSE
