SPECIFICATION ZramSpec
CONSTANTS
    Inputs <- MCInputs
    PageLen <- MCPageLen
    CompressedLen <- MCCompressedLen
    PAGE_SIZE = 4
    NumClasses = 2
    SIZE_CLASSES <- MCSizes
    max_pages = 2
    Indexes = {0, 1, 2}
    GenMod = 3
    MaxZspages = 4
INVARIANTS
    ZramTypeOK
    SlotsOwned
    ZspagesBounded
PROPERTIES
    StoresPages
