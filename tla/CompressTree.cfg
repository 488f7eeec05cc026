CONSTANTS
    Instances <- MCInstances
    Tracers = {t1, t2}
    Provers = {p1, p2}
    InputsCapacity = 1
    TracesCapacity = 1
    ReduceBatchSize = 3
    FirstLayerBatchSize = 2
SPECIFICATION Spec
INVARIANTS TypeOK LayersInOrder InputsFollow CompleteIsWhole ResultWhole
PROPERTIES Reduces Terminates
