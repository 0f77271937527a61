CONSTANTS
    Addresses <- OffAddresses
    Unaligned <- OffUnaligned
    Vector <- OffVector
    Programs <- OffPrograms
    Patches = {}
    NoTarget = NoTarget
    CountRange = 2
    MaxBlockInsns = 3
    PageWords = 4
    TableSize = 4
SPECIFICATION Spec
PROPERTIES
    ImplementsInterpreter
