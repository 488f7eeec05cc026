SPECIFICATION Spec
CONSTANTS
    SyscallCodes = {"KECCAK_PERMUTE", "SHA_EXTEND"}
    Threshold <- MCThreshold
    MemoryChunk = 3
    Executions <- MCExecutions
    Workers = {w1, w2}
    NoWorker = NoWorker
    CheckpointsCapacity = 1
    RecordsCapacity = 1
    ShardBatchSize = 2
    CombineMemoryThreshold = 4
    PcStart = 1
    MaxShards = 20
INVARIANTS TypeOK ShapesInOrder Delivery ProofsVerify EventsProvedOnce
PROPERTIES TurnsFollowed Terminates
