CONSTANTS
    Entries = 2
    KUSEG = 4
    KSEG0 = 1
    SSEG = 2
    KSEG3 = 2
    Frames = 4
    Asids <- MCAsids
    AsidZero = "a0"
    Large = 2
    KernelFlow = "kernel"
    None = None
    Guests <- MCGuests
    Stray = TRUE
SPECIFICATION Spec
INVARIANTS
    UserCannotFetchKseg0
