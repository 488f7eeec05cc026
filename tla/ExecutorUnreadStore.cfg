SPECIFICATION Spec
CONSTANTS
    Registers = {"x10", "x5", "x12"}
    Words = {"m", "h"}
    X10 = "x10"
    X5 = "x5"
    X12 = "x12"
    Image <- MCImage
    Programs <- UnreadStore
    ShardSize = 16
    MaxSyscallCycles = 1
    ShapeCheckFrequency = 3
    LocalMemLimit = 1
PROPERTIES BytesKept
CHECK_DEADLOCK FALSE
