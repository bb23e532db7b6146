SPECIFICATION MCSpec
CONSTANTS
    Parts = {"pages"}
    Top = 6
    Backings = {b1}
    GuardPage = guardPage
    AllocKinds = {"UserAllocated"}
    None = none
    Width = 3
    Counts = {2, 3, 4}
    First = first
    Tasks = {first, other}
    Frames = {f1, f2}
    Regions = {1, 2}
    Guard = guard
    HeapWords = 14
SYMMETRY FrameSymmetry
CHECK_DEADLOCK FALSE
INVARIANT
    PageHandedOutOnce
