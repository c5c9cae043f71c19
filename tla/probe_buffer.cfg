SPECIFICATION FairSpec
CONSTANTS
    CountMod = 4
    MaxPackets = 6
    QueueLen = 2
    Tries = 3
    Faults = {"malloc", "connect", "header", "data", "ack"}
INVARIANTS SendsOnlyFilled ListIsLive ListLengthIsCount
PROPERTIES ImplementsQueue RoundEnds EventuallyUploaded
