CONSTANTS
    RamSize = 16
    Sockets = {0}
    PadStates <- MCPadStates
    Lists <- MCLists
    Oddities <- MCOddities
    Controls = {0, 1, 3}
    SeedOffsets = {9, 10}
    Absent = Absent
    Nobody = Nobody
    NoList = NoList
SPECIFICATION Spec
INVARIANTS
    AnswersRight
    ControlKept
    AnswersForgetTheLast
    MirrorsAgree
