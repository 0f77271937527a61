CONSTANTS
    Pcs = {p1, p2}
    NoPc = NoPc
    DeviceBatch = 2
    Budget = 5
    Limit = 8
    LineCycles = 3
    LastLines <- MCLastLines
    DefaultLast = 1
    CycleCounts <- MCCycleCounts
    StepCounts <- MCStepCounts
    ClockRange = 6
SPECIFICATION FairSpec
INVARIANTS
    ClocksAgree
    StepsExact
PROPERTIES
    FrameReportedOnce
    BreakpointHonoured
    StopsOnce
    CallsReturn
