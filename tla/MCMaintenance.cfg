SPECIFICATION Spec
CONSTANTS
    Kind = {"storyboard", "ai_analyze"}
    Waited = {"ai_analyze"}
    MaxAutomaticRetries = 1
    File = {"m", "x", "a", "n"}
    Media = {"m", "a", "n"}
    Folder = {"f", "g", "h"}
    Protected = {"f"}
    Above <- mcAbove
    Dir <- mcDir
    Stem <- mcStem
    Initially <- mcInitially
    MaxVersion = 2
    Budget = 3
    Entry = {1, 2, 3, 4, 5}
    Name <- mcName
    Numerals = {0, 1, 2}
    DirOf <- mcDirOf
    Images = {1, 2, 3, 5}
    PageSize = 2
    Limit = 2
    MaxAnchors = 3
    Thresholds = {1, 9}
    Shelves <- mcShelves
    Looks <- mcLooks
    MaxChanges = 1
    Focus = {"work", "duplicates", "deletion", "browsing"}
INVARIANTS   DeletesOnlyShown OnlyNamedMediaGoes PurgedWasGone FoldersStay   SelectionKeepsOne
CHECK_DEADLOCK FALSE
