CONSTANTS
    LiftShapes = {"l1", "l2"}
    JoinShapes = {"j"}
    OtherShapes = {"d"}
    Addresses = {1, 2, 3, 4}
    Provers = {p1, p2}
    CacheSize = 1
    MaxInputs = 4
    MaxQueue = 2
SPECIFICATION Spec
INVARIANTS TypeOK InputsKeepProgram StaleKeysDropped JoinKeysMatch
CHECK_DEADLOCK FALSE
