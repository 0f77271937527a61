CONSTANTS
    BankCells = 2
    RdramCells = 2
    DramRange = 4
    Values = {0, 1}
    Zero = 0
    Transfers <- MCTransfers
    Unset = Unset
SPECIFICATION SpSpec
INVARIANTS
    CopiesAgree
    SemaphoreExclusion
    DmaAsProgrammed
