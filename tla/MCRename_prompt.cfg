SPECIFICATION Spec
CONSTANTS
    N = 2
    Names <- TwoSpellings
    Files = {"fa", "fb", "x"}
    NoFile = NoFile
    NoName = NoName
    FsKey <- Exact
    Key <- Folded
    MaxData = 1
    MaxMeta = 1
    Path <- TwoPaths
    Media <- TwoMedia
    Temps <- TwoTemps
    FolderCap = 9
    OpenPhases <- AtPrompt
    MovesFail = FALSE
    Scans <- Entangled
    Meddling = 3
    Tireless = FALSE
INVARIANT StaleNotRenamed
CHECK_DEADLOCK FALSE
