\* Two pages, each with a peer connection of its own.
SPECIFICATION SafeSpec
CONSTANTS
    Ids = {i1, i2}
    Pcs = {p1, p2}
    NoId = noId
    NoPc = noPc
    Main = main
    MaxOps = 8
SYMMETRY Symmetry
INVARIANTS TypeOK EntryOwnsId LostClientHasErase AnswerFindsConnection ClosedDoesNotDrive
PROPERTIES OnlyDisconnectedRemoved
