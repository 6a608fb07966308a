SPECIFICATION Spec
CONSTANTS
    Dests <- mcDests
    Kept <- mcKept
    Writers <- mcWriters
    Size <- mcSize
    Casts <- mcCasts
    MaxBytes = 1
    Chunks = {"chunk"}
    Originals = {"original"}
    Audio = "flac"
    Preview = "webp"
    Thumb = "thumb"
    Readers = {r1, r2, r3}
    Viewers = {v1, v2}
    Priorities = {20, 100}
    Shortages = {0, 1}
SYMMETRY mcSymmetry
INVARIANTS OneSourceRead  
PROPERTIES PinnedFileStays
CHECK_DEADLOCK FALSE
