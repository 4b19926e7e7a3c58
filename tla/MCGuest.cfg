CONSTANTS
    Carts = {"song", "bench"}
    Tracks <- MCTracks
    Tempos = {"slow", "fast"}
    DefaultTempo = "fast"
    TickLength <- MCTickLength
    MaxAdvance = 2
    MaxSteps = 4
    MaxEvents = 3
    Period = 1
    CyclesPerUnit = 1
    Costs = {1, 2}
    MaxCycles <- MCMaxCycles
    MaxWall <- MCMaxWall
    MaxRequests = 2
    MaxCases = 2
    MaxFrames = 2
    SampleTotals = {1, 3}
    FrameLimit = 2
    MaxSequence = 1
    Uses <- MCUses
    MaxCalls = 2
SPECIFICATION Spec
INVARIANTS SuiteOrdered TracksKept FramesPaced SuiteMeasured
PROPERTIES TimeUsedUp
CHECK_DEADLOCK FALSE
