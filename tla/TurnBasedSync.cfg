SPECIFICATION Spec
CONSTANTS
    Workers = {w1, w2, w3}
    NoWorker = NoWorker
    NumTurns = 5
    MaxSpurious = 2
INVARIANTS TypeOK TurnExclusion NoLostWakeup
PROPERTIES Ordered EveryTurnTaken
