CONSTANTS
    InUse <- Families
    Statuses <- MCStatuses
    MaskWrites <- MCMaskWrites
    SpWrites <- MCSpWrites
    DpWrites <- MCDpWrites
    LastLines <- MCLastLines
    DefaultLast = 2
SPECIFICATION FairSpec
INVARIANTS
    IrqLevel
    StatusAgreement
    SpAgreement
PROPERTIES
    InterruptsServed
    VerticalRecurs
    AudioAnswered
