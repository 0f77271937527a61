CONSTANTS
    Addresses <- MCAddresses
    Unaligned <- MCUnaligned
    Vector <- MCVector
    Programs <- MCPrograms
    Patches <- MCPatches
    NoTarget = NoTarget
    CountRange = 2
    MaxBlockInsns = 3
    PageWords = 4
    TableSize = 2
SPECIFICATION SparingSpec
INVARIANTS
    ParityWithMemory
PROPERTIES
    ImplementsInterpreter
    PreciseExceptions
