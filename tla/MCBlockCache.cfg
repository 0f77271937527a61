CONSTANTS
    RdramWords = 6
    DirectWords = 5
    MappedWords = 3
    PageWords = 3
    TableSize = 4
    MaxBlockInsns = 2
    DmaSizes <- MCDmaSizes
    WritesWrap = FALSE
    MaxWrites = 2
SPECIFICATION Spec
INVARIANTS
    BookkeepingAgrees
    TrackedCoherent
