CONSTANTS
    RdramBytes = 32
    TmemBytes = 16
    Tiles = {0, 1}
    ImemWords = 16
    DmemCells = 4
    Guests <- MCGuests
    MaxLists = 6
    NoTarget = NoTarget
SPECIFICATION Spec
INVARIANTS
    ListsRunAsMeant
PROPERTIES
    RspFollowsProgram
    DrawsInside
    ShowsWhatIsAsked
