SPECIFICATION Spec
CONSTANTS
    N = 3
    Names <- Spellings
    Files = {"fa", "fb", "fc", "x", "y"}
    NoFile = NoFile
    NoName = NoName
    FsKey <- PartlyFolded
    Key <- Folded
    MaxData = 0
    MaxMeta = 1
    Path <- ThreePaths
    Media <- ThreeMedia
    Temps <- ThreeTemps
    FolderCap = 4
    OpenPhases <- Nobody
    MovesFail = TRUE
    Scans <- AllScans
    Meddling = 0
    Tireless = FALSE
INVARIANTS PreviewIsExact EndingsHaveCause
PROPERTY ActsAsOneRename
CHECK_DEADLOCK FALSE
