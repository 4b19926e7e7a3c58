CONSTANTS
    ByteSize = 2
    Xlen = 4
    Reg = {0, 1, 2, 10}
    Base = 4
    MemSize = 8
    StackAlign = 16
    HostBase = 0
    HostCount = 1
    TraceSize = 2
    NoAddr = NoAddr
    Program <- MCProgram
    Entries = {4}
    Args = {6}
    HostStores <- MCHostStores
    AbiCycles = 3
    Budget = 3
    MaxRetired = 2
SPECIFICATION Spec
INVARIANT CompressedIsExpansion
CHECK_DEADLOCK FALSE
