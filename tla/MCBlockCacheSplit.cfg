CONSTANTS
    RdramWords = 6
    DirectWords = 2
    MappedWords = 6
    PageWords = 3
    TableSize = 4
    MaxBlockInsns = 2
    DmaSizes <- MCDmaSizes
    WritesWrap = FALSE
    MaxWrites = 2
SPECIFICATION Spec
INVARIANTS
    WholeBlocksCoherent
