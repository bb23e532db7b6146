SPECIFICATION MCSpec
CONSTANTS
    Parts = {"address map", "pages", "megapages", "tasks", "careful tasks", "heap"}
    Top = 6
    Backings = {b1}
    GuardPage = guardPage
    AllocKinds = {"UserAllocated"}
    None = none
    Width = 3
    Counts = {1, 2, 3, 6}
    First = first
    Tasks = {first, other}
    Frames = {f1, f2}
    Regions = {1, 2}
    Guard = guard
    HeapWords = 14
SYMMETRY FrameSymmetry
CHECK_DEADLOCK FALSE
INVARIANTS
    PagesAccounted
    FramesOwned
    TableMatchesMap
    HeapTiles
PROPERTIES
    ImplementsAddressSpace
