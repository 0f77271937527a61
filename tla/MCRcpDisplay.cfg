CONSTANTS
    InUse <- Display
    Statuses <- MCStatuses
    MaskWrites <- MCMaskWrites
    SpWrites <- MCSpWrites
    DpWrites <- MCDpWrites
    LastLines <- MCLastLines
    DefaultLast = 2
SPECIFICATION GuestSpec
PROPERTIES
    DpAcknowledged
